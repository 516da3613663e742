---------------------------- MODULE LandingPage ----------------------------
(***************************************************************************)
(* The landing page (stdev/landing.py): it fetches the samples of each     *)
(* property in turn, while the server goes on storing samples, looks for   *)
(* the hosts with a sample too many standard deviations from their mean    *)
(* (stdev.py), and writes a page with a graph of each, the oddest last.    *)
(*                                                                         *)
(* A mean is a sum over a count and a deviation a root, so the comparisons *)
(* are those of integers: for n samples of sum s and sum of squares q, a   *)
(* sample r deviates by (n r - s) / n and the standard deviation is the    *)
(* root of n q - s s, divided by n.  The time of a sample is its number.   *)
(***************************************************************************)
EXTENDS Integers, Sequences, SequencesExt, FiniteSetsExt

CONSTANTS Hosts, Props,
          Tables,   \* tables to begin with: sequences of samples
          Values,   \* what is stored meanwhile
          Text,     \* the member of Values that stands for a text
          MaxStored,\* bound: samples stored meanwhile
          Window,   \* how many of the last samples the interval holds
          Bound     \* how many standard deviations are odd

(* The samples of a table are in the order of their times.                 *)
LandingConstants ==
    /\ Bound \in Nat /\ Window \in Nat /\ Values \subseteq Int
    /\ \A t \in Tables : /\ t \in Seq([host: Hosts, prop: Props, data: Int, ctime: Nat])
                         /\ \A i \in DOMAIN t : t[i].ctime = i

VARIABLES table,      \* the samples in the database
          stored,     \* how many of them were stored meanwhile
          pc,
          todo,       \* properties still to be fetched
          propData,   \* propData[h]: the samples a host's database will be filled with
          anomalies,  \* what was found odd
          rrd,        \* rrd[<<h, p>>]: the samples in a round-robin database
          page        \* the entries of the page

vars == <<table, stored, pc, todo, propData, anomalies, rrd, page>>

Init == /\ table \in Tables /\ stored = 0
        /\ pc = "idle" /\ todo = <<>> /\ propData = <<>> /\ anomalies = <<>>
        /\ rrd = <<>> /\ page = <<>>

(* The server stores a sample, at any time.                                *)
Store == /\ stored < MaxStored /\ stored' = stored + 1
         /\ \E h \in Hosts, p \in Props, v \in Values :
               table' = Append(table, [host |-> h, prop |-> p, data |-> v, ctime |-> Len(table) + 1])
         /\ UNCHANGED <<pc, todo, propData, anomalies, rrd, page>>

(* The properties of the table, in the order the database gives them.      *)
Begin == /\ pc = "idle"
         /\ todo' \in SetToSeqs({ table[i].prop : i \in DOMAIN table })
         /\ pc' = "fetch"
         /\ UNCHANGED <<table, stored, propData, anomalies, rrd, page>>

(* Those of a list that are in a set: a loop that appends them.            *)
Those(list, S) == FoldLeft(LAMBDA those, r : IF r \in S THEN Append(those, r) ELSE those, <<>>, list)

(* get_propdata: for every host with recent samples of the property, these *)
(* samples, the oldest first.                                              *)
Recent(prop)  == Those(table, {r \in ToSet(table) : r.prop = prop /\ r.ctime > Len(table) - Window})
PropData(prop) ==
    [h \in { r.host : r \in ToSet(Recent(prop)) } |-> Those(Recent(prop), {r \in ToSet(table) : r.host = h})]

Abs(x) == IF x < 0 THEN -x ELSE x
Square(x) == x * x

Total(numbers)  == FoldLeft(LAMBDA s, x : s + x, 0, numbers)
Data(series)    == [i \in DOMAIN series |-> series[i].data]
Squares(series) == [i \in DOMAIN series |-> Square(series[i].data)]

(* Deviations and their squares, times n and n squared.                    *)
Count(series)        == Len(series)
Deviation(x, series) == Abs(Count(series) * x - Total(Data(series)))
Variance(series)     == Count(series) * Total(Squares(series)) - Square(Total(Data(series)))

\* Mutant: a sample at the bound is odd.
IsOddAtBound(x, series) == Bound * Bound * Variance(series) <= Square(Deviation(x, series))

IsOdd(x, series) == Bound * Bound * Variance(series) < Square(Deviation(x, series))

(* An odd sample is noted where it is beyond the one noted before: the     *)
(* sample, and how far it deviates.                                        *)
Note(a, x, series) ==
    IF ~ IsOdd(x, series) THEN a
    ELSE IF Count(series) * a.max < Deviation(x, series)
         THEN [a EXCEPT !.odd = TRUE, !.max = x, !.dev = Deviation(x, series)]
         ELSE [a EXCEPT !.odd = TRUE]

NotOdd(host, prop, series) ==
    [odd |-> FALSE, host |-> host, prop |-> prop, max |-> 0, dev |-> 0, series |-> series]

Analyze(host, prop, series) == FoldLeft(LAMBDA a, r : Note(a, r.data, series), NotOdd(host, prop, series), series)

\* Mutant: the hosts of the properties fetched before are analyzed again.
AnalyzedAgain(prop, fetched) ==
    [h \in DOMAIN propData \cup DOMAIN fetched |-> IF h \in DOMAIN fetched THEN fetched[h] ELSE propData[h]]

Analyzed(prop, fetched) == fetched

AnalyzeMulti(prop, data, hosts) ==
    LET results == [i \in DOMAIN hosts |-> Analyze(hosts[i], prop, data[hosts[i]])]
    IN  Those(results, {a \in ToSet(results) : a.odd})

\* Mutant: what a host has of a property goes behind what it has of others.
MergedBehind(data, fetched) ==
    [h \in DOMAIN data \cup DOMAIN fetched |->
        (IF h \in DOMAIN data THEN data[h] ELSE <<>>) \o (IF h \in DOMAIN fetched THEN fetched[h] ELSE <<>>)]

(* A dictionary laid over another one. *)
Over(new, old) == [k \in DOMAIN new \cup DOMAIN old |-> IF k \in DOMAIN new THEN new[k] ELSE old[k]]

(* Of a host in two properties, the later one counts.                      *)
Merged(data, fetched) == Over(fetched, data)

IsText(r) == r.data = Text

(* A sample that is no number ends the program.                            *)
Fetch ==
    /\ pc = "fetch" /\ todo # <<>>
    /\ LET prop == Head(todo)
           data == Analyzed(prop, PropData(prop))
       IN  IF \E h \in DOMAIN data : \E r \in ToSet(data[h]) : IsText(r)
           THEN pc' = "failed" /\ UNCHANGED <<todo, propData, anomalies>>
           ELSE /\ \E hosts \in SetToSeqs(DOMAIN data) : anomalies' = anomalies \o AnalyzeMulti(prop, data, hosts)
                /\ propData' = Merged(propData, PropData(prop))
                /\ todo' = Tail(todo)
                /\ UNCHANGED pc
    /\ UNCHANGED <<table, stored, rrd, page>>

(* Less than zero where a is fewer standard deviations from its mean       *)
(* than b: the squares of the two ratios.                                  *)
Sigs(a, b) == Square(a.dev) * Variance(b.series) - Square(b.dev) * Variance(a.series)

(* The orders that sort the anomalies, where equal ones stay in the order  *)
(* they were in: there is one.                                             *)
SortedBySigs(as) ==
    {order \in SetToSeqs(DOMAIN as) : \A i, j \in DOMAIN order :
        i < j => \/ Sigs(as[order[i]], as[order[j]]) < 0
                 \/ Sigs(as[order[i]], as[order[j]]) = 0 /\ order[i] < order[j]}

(* The page is emptied when all is fetched.                                *)
OpenPage == /\ pc = "fetch" /\ todo = <<>>
            /\ \E order \in SortedBySigs(anomalies) : anomalies' = [i \in DOMAIN order |-> anomalies[order[i]]]
            /\ page' = <<>>
            /\ pc' = "page"
            /\ UNCHANGED <<table, stored, todo, propData, rrd>>

(* The next anomaly: its database is made anew and filled with the samples *)
(* of the host, its graphs are drawn and the page gets its entry.          *)
Show == /\ pc = "page" /\ Len(page) < Len(anomalies)
        /\ LET a == anomalies[Len(page) + 1]
           IN  /\ rrd' = Over([k \in {<<a.host, a.prop>>} |-> propData[a.host]], rrd)
               /\ page' = Append(page, a)
        /\ UNCHANGED <<table, stored, pc, todo, propData, anomalies>>

Close == /\ pc = "page" /\ Len(page) = Len(anomalies)
         /\ pc' = "done"
         /\ UNCHANGED <<table, stored, todo, propData, anomalies, rrd, page>>

Next == Store \/ Begin \/ Fetch \/ OpenPage \/ Show \/ Close

Spec == Init /\ [][Next]_vars

----------------------------------------------------------------------------
(* The types of the state.                                                 *)
TypeOK ==
    /\ pc \in {"idle", "fetch", "page", "done", "failed"}
    /\ todo \in Seq(Props) /\ stored \in 0 .. MaxStored
    /\ DOMAIN propData \subseteq Hosts /\ DOMAIN rrd \subseteq Hosts \X Props
    /\ \A a \in ToSet(anomalies) : a.odd /\ a.dev > 0 /\ Variance(a.series) > 0

(* A host with no more samples than the square of the bound is never odd,  *)
(* whatever they are: the page can show nothing of it (stdev.py:72).       *)
FewAreNeverOdd == \A a \in ToSet(anomalies) : Len(a.series) > Bound * Bound

(* What is said of a host and a property was found in its own samples, and *)
(* no host and property stands on the page twice (landing.py:31).          *)
AnomaliesAreTheirOwn ==
    /\ \A a \in ToSet(anomalies) : \A r \in ToSet(a.series) : r.host = a.host /\ r.prop = a.prop
    /\ \A i, j \in DOMAIN anomalies :
          anomalies[i].host = anomalies[j].host /\ anomalies[i].prop = anomalies[j].prop => i = j

(* A database holds the samples of one property, in the order of their     *)
(* times, and they are of the host (landing.py:27).                        *)
RrdIsOneSeries ==
    \A k \in DOMAIN rrd : /\ \A r \in ToSet(rrd[k]) : r.host = k[1]
                          /\ \A i, j \in DOMAIN rrd[k] : i < j => /\ rrd[k][i].prop = rrd[k][j].prop
                                                                  /\ rrd[k][i].ctime < rrd[k][j].ctime
=============================================================================
