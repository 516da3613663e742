--------------------------- MODULE AnomalyReport ---------------------------
(***************************************************************************)
(* anomaly_check_prop.go: for every host and each of its properties the    *)
(* profiles kept for it are found, the recent samples are scored against   *)
(* every one of them, and a host with enough odd curves gets a page, a     *)
(* file of columns the page's plots are drawn from, and a line in the      *)
(* index.                                                                  *)
(*                                                                         *)
(* A sample series is its length.  A curve is the set of positions where   *)
(* it is above 0.6: Baseline_norm divides it by its maximum, so all that   *)
(* is known of it is where its windows end (WindowScan has their scores).  *)
(*                                                                         *)
(* A column of a file is named for what it shows and for its host, and an  *)
(* image for what it shows: a property of a host, or a profile.            *)
(***************************************************************************)
EXTENDS Integers, Sequences, FiniteSets, SequencesExt

CONSTANTS Hosts,    \* Get_hosts, in order
          Props,    \* Get_labels of each host, in order
          Listing,  \* what ls says of the profile directory: files, in order
          Sizes,    \* how many samples a series may have
          Windows,  \* words the first lag and lead windows take together
          Lead,     \* words in the lead window
          Offset,   \* samples from the end of a lead window to its position
          Peaks,    \* bound: positions where a curve may be high
          Damages,  \* sets of names of files that cannot be read
          Failing,  \* bound: the images that may not be drawn
          HostFiles \* HostFiles[h]: the columns in the file of an earlier run

(* The name of a file matches some pairs (of): the pattern is not anchored, *)
(* so it may match more than its own.                                      *)
Listed == {Listing[i] : i \in DOMAIN Listing}

(* Hosts, labels and the files of a directory are distinct; no file is     *)
(* named as a property.                                                    *)
ASSUME ReportConstants ==
    /\ Lead \in Nat \ {0} /\ Windows >= Lead /\ Offset \in Int /\ Sizes \subseteq Nat
    /\ Hosts \in Seq(ToSet(Hosts)) /\ IsInjective(Hosts)
    /\ Props \in Seq(ToSet(Props)) /\ IsInjective(Props)
    /\ Listing \in Seq(Listed)
    /\ \A f \in Listed : f.of \subseteq ToSet(Hosts) \X ToSet(Props) /\ f.name \notin ToSet(Props)
    /\ \A f, g \in Listed : f.name = g.name => f = g
    /\ DOMAIN HostFiles = ToSet(Hosts)

VARIABLES pc, hosts, props,  \* where the loops are: hosts[1] and props[1]
          line,              \* the line of the listing that is looked at
          found,             \* baselines: the files that were read
          anomalous,         \* whether a curve of this property was high
          rep,               \* what the host's loop has gathered
          columns,           \* columns[h]: the columns of the file of h
          assets,            \* what was drawn to an image: two columns, or nothing
          pages,             \* pages[h]: the plots on its page
          index,             \* oddhosts
          damaged            \* the files that cannot be read (never changed)

files == <<columns, assets, pages, index>>
vars  == <<pc, hosts, props, line, found, anomalous, rep, files, damaged>>

Column(name, h)   == [name |-> name, host |-> h]
ValuesOf(h, q)    == <<q, h>>
ScoreOf(name)     == <<name>>
PropertyImages    == {ValuesOf(h, q) : h \in ToSet(Hosts), q \in ToSet(Props)}
ScoreImages       == {ScoreOf(f.name) : f \in Listed}
Before(image)     == [x |-> Column("times", "before"), y |-> Column(image, "before")]
Blank             == <<>>

\* used: props_used; vals: val_arr; dump: dump_arr; names: anomalies
NewReport == [used |-> <<>>, vals |-> <<>>, dump |-> <<>>, names |-> <<>>, series |-> <<>>,
              words |-> 0, times |-> 0]

Init == /\ pc = "host" /\ hosts = Hosts /\ props = <<>>
        /\ line = 1 /\ found = {} /\ anomalous = FALSE
        /\ rep = NewReport
        /\ columns = HostFiles
        /\ assets = [i \in PropertyImages \cup ScoreImages |-> Before(i)]
        /\ pages = [h \in ToSet(Hosts) |-> {}]
        /\ index = <<>> /\ damaged \in Damages

host == Head(hosts)
prop == Head(props)

\* Mutant: what was gathered is not declared inside the loop.
StartHostKeeps == /\ pc = "host" /\ hosts # <<>>
                  /\ pc' = "prop" /\ props' = Props
                  /\ UNCHANGED <<hosts, line, found, anomalous, rep, files>>

StartHost == /\ pc = "host" /\ hosts # <<>>
             /\ pc' = "prop" /\ props' = Props
             /\ rep' = NewReport
             /\ UNCHANGED <<hosts, line, found, anomalous, files>>

(* get_baselines begins; where ls fails there are none, and no error.      *)
StartProp == /\ pc = "prop" /\ props # <<>>
             /\ \/ /\ pc' = "list" /\ line' = 1 /\ found' = {}
                   /\ UNCHANGED props
                \/ /\ props' = Tail(props)
                   /\ UNCHANGED <<pc, line, found>>
             /\ UNCHANGED <<hosts, anomalous, rep, files>>

Matches(f)  == <<host, prop>> \in f.of
Readable(f) == f.name \notin damaged

\* Mutant: the next line is only read after a match.
ReadLineMatching ==
    /\ pc = "list" /\ line <= Len(Listing)
    /\ LET f == Listing[line]
       IN  /\ Matches(f) /\ Readable(f)
           /\ found' = found \cup {f}
           /\ line' = line + 1
    /\ UNCHANGED <<pc, hosts, props, anomalous, rep, files>>

(* One pass of the loop over the listing.  A file that cannot be read ends *)
(* the pass before the next line is read.                                  *)
ReadLine ==
    /\ pc = "list" /\ line <= Len(Listing)
    /\ LET f == Listing[line]
       IN  IF Matches(f) /\ ~Readable(f) THEN UNCHANGED <<found, line>>
           ELSE /\ found' = IF Matches(f) THEN found \cup {f} ELSE found
                /\ line' = line + 1
    /\ UNCHANGED <<pc, hosts, props, anomalous, rep, files>>

NextProp == pc' = "prop" /\ props' = Tail(props)

NoBaselines == /\ pc = "list" /\ line > Len(Listing) /\ found = {}
               /\ NextProp
               /\ UNCHANGED <<hosts, line, found, anomalous, rep, files>>

NoData == /\ pc = "list" /\ line > Len(Listing) /\ found # {}
          /\ NextProp
          /\ UNCHANGED <<hosts, line, found, anomalous, rep, files>>

(* A flat series is ignored, but its times are kept.                       *)
Flat(n) == /\ pc = "list" /\ line > Len(Listing) /\ found # {}
           /\ rep' = [rep EXCEPT !.times = n]
           /\ NextProp
           /\ UNCHANGED <<hosts, line, found, anomalous, files>>

(* A series that is too short for the first windows ends the program where *)
(* the array of words has no room behind them.                             *)
Fetch(n) ==
    /\ pc = "list" /\ line > Len(Listing) /\ found # {}
    /\ pc' \in (IF n < Windows THEN {"score", "short"} ELSE {"score"})
    /\ rep' = [rep EXCEPT !.times = n, !.words = n, !.used = Append(@, prop),
                          !.vals = Append(@, [name |-> prop, len |-> n])]
    /\ anomalous' = FALSE
    /\ UNCHANGED <<hosts, props, line, found, files>>

(* The positions of the windows of a series of n words.                    *)
Keys(n) == (Lead - 1 + Offset) .. (n - 1 + Offset)

(* What a baseline that counts adds to the host's report. *)
Counted(f, high) ==
    [rep EXCEPT !.names = Append(@, f.name),
                !.dump = Append(@, [name |-> f.name, len |-> rep.words + 1]),
                !.series = Append(@, [high |-> high, len |-> Cardinality(Keys(rep.words))])]

(* The next baseline, in the random order of a map.  Once a curve of the   *)
(* property is high, every later baseline counts.                          *)
Score(f, high) ==
    /\ pc = "score" /\ f \in found
    /\ found' = found \ {f}
    /\ anomalous' = (anomalous \/ \E i \in high : i <= rep.words)
    /\ rep' = IF anomalous' THEN Counted(f, high) ELSE rep
    /\ UNCHANGED <<pc, hosts, props, line, files>>

Scored == /\ pc = "score" /\ found = {}
          /\ NextProp
          /\ UNCHANGED <<hosts, line, found, anomalous, rep, files>>

(* odd: more than two curves are high at a position.  It looks at as many  *)
(* positions from the first on as the longest curve has entries.           *)
Odd(series) ==
    \E i \in 0 .. Max({series[j].len : j \in DOMAIN series} \cup {0}) - 1 :
        Cardinality({j \in DOMAIN series : i \in series[j].high}) > 2

AllProps == pc = "prop" /\ props = <<>>

NextHost == pc' = "host" /\ hosts' = Tail(hosts)

NotOdd == /\ AllProps /\ ~Odd(rep.series)
          /\ NextHost
          /\ UNCHANGED <<props, line, found, anomalous, rep, files>>

Columns == rep.vals \o rep.dump

(* Text_dump: so many rows, each with its time.                            *)
Rows == Min({rep.words} \cup {Columns[j].len : j \in DOMAIN Columns})

Overrun == /\ AllProps /\ Odd(rep.series) /\ Rows > rep.times
           /\ pc' = "overrun"
           /\ UNCHANGED <<hosts, props, line, found, anomalous, rep, files>>

\* Mutant: the length of all columns, not of the values.
AnomalyColumnWide(i) == i + Len(Columns)

(* The column of the file the plot of an anomaly is drawn from.            *)
AnomalyColumn(i) == i + Len(rep.vals)

Pairs == [i \in 1 .. Min({Len(rep.used), Len(rep.names)}) |->
            [prop |-> rep.used[i], score |-> rep.names[i]]]

Plots == {[image |-> ValuesOf(host, rep.used[i]), col |-> i] : i \in DOMAIN rep.used}
    \cup {[image |-> ScoreOf(rep.names[i]), col |-> AnomalyColumn(i)] : i \in DOMAIN rep.names}

(* The file the plots are drawn from; where it cannot be made the one of   *)
(* before stays, and the report goes on.                                   *)
TextDump == \/ columns' = [columns EXCEPT ![host] =
                   [j \in DOMAIN Columns |-> Column(Columns[j].name, host)] \o <<Column("times", host)>>]
            \/ UNCHANGED columns

(* What gnuplot draws of a column, over the one behind the last.           *)
Curve(file, col) == LET x == Len(Columns) + 1
                    IN  IF {x, col} \subseteq DOMAIN file THEN [x |-> file[x], y |-> file[col]] ELSE Blank

(* An image holds what was drawn to it last, the plots in their order.     *)
Draw(drawn) == assets' = [image \in DOMAIN assets |->
                 LET cols == {p.col : p \in {q \in drawn : q.image = image}}
                 IN  IF cols = {} THEN assets[image] ELSE Curve(columns'[host], Max(cols))]

(* The file, then the page and its line in the index; a page that cannot   *)
(* be made leaves the host out.  A plot that fails may be drawn all the    *)
(* same (Plot2).  The page shows the image of a property whether or not    *)
(* its plot failed, that of a profile only where it did not.               *)
Report ==
    /\ AllProps /\ Odd(rep.series) /\ Rows <= rep.times
    /\ NextHost
    /\ TextDump
    /\ \/ UNCHANGED <<assets, pages, index>>
       \/ \E failed \in SUBSET {p \in Plots : p.image \in Failing} :
              /\ \E undrawn \in SUBSET failed : Draw(Plots \ undrawn)
              /\ pages' = [pages EXCEPT ![host] = Plots \ {p \in failed : p.image \in ScoreImages}]
              /\ index' = Append(index, [name |-> host, graphs |-> Pairs])
    /\ UNCHANGED <<props, line, found, anomalous, rep>>

(* The index is written. *)
Index == /\ pc = "host" /\ hosts = <<>>
         /\ pc' = "end"
         /\ UNCHANGED <<hosts, props, line, found, anomalous, rep, files>>

Step == \/ StartHost \/ StartProp \/ ReadLine \/ NoBaselines \/ NoData
        \/ \E n \in Sizes : Flat(n) \/ Fetch(n)
        \/ \E f \in Listed : \E high \in SUBSET (Keys(rep.words) \cap Peaks) : Score(f, high)
        \/ Scored \/ NotOdd \/ Overrun \/ Report \/ Index

Next == Step /\ UNCHANGED damaged

Spec == Init /\ [][Next]_vars

----------------------------------------------------------------------------
(* The hosts an image is drawn for. *)
Owners(image) == {h \in ToSet(Hosts) : \E q \in ToSet(Props) :
                     \/ image = ValuesOf(h, q)
                     \/ \E f \in Listed : image = ScoreOf(f.name) /\ <<h, q>> \in f.of}

(* "Baselines in dump_arr have the same ordering as their names in         *)
(* anomalies" (:202): what a page shows was drawn from the column of its   *)
(* own name, however many properties were skipped before it, or from the   *)
(* file of before where that host's could not be written; only a property  *)
(* whose plot failed may have the image of before.                         *)
PlotsShowTheirColumns ==
    \A h \in ToSet(Hosts) : \A p \in pages[h] :
        \/ p.image \in PropertyImages /\ assets[p.image] = Before(p.image)
        \/ \E g \in Owners(p.image) :
              \/ assets[p.image] = [x |-> Column("times", g), y |-> Column(p.image[1], g)]
              \/ /\ columns[g] = HostFiles[g]
                 /\ assets[p.image] = Blank \/ assets[p.image].y \in ToSet(HostFiles[g])

(* A page has no baseline of another host, and no property twice.          *)
PagesAreOfTheirHost ==
    \A h \in ToSet(Hosts) :
        /\ \A p \in pages[h] : h \in Owners(p.image)
        /\ \A q \in ToSet(Props) : Cardinality({p \in pages[h] : p.image = ValuesOf(h, q)}) <= 1

(* The program is at a profile that it tries to read again and again (:71).*)
Stuck == pc = "list" /\ line <= Len(Listing) /\ Matches(Listing[line]) /\ ~Readable(Listing[line])
=============================================================================
