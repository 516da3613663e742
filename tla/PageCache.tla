----------------------------- MODULE PageCache -----------------------------
(***************************************************************************)
(* The pages of the stdev front end.  Every hit on host.py, prop.py or     *)
(* hostprop.py is a process of its own; together they keep three kinds of  *)
(* files that none of them locks: a round-robin database per host and      *)
(* property, graphs drawn from it, and HTML pages that show graphs.  A     *)
(* file is made anew when it is missing or older than max_age.             *)
(*                                                                         *)
(* What rrdtool does is taken from its use: create lays a new empty file   *)
(* over an old one, which begins rrd_age ago; update takes records that    *)
(* are later than its beginning and than the last one, and refuses any     *)
(* other, the second one of a second among them.  A check of the age of a  *)
(* graph and its drawing are one step: what others do in between is draw   *)
(* the same graph, and the later drawing reads the later database.         *)
(***************************************************************************)
EXTENDS Integers, FiniteSets

CONSTANTS Host, Prop,  \* hosts and properties in the table of samples
          Hits,        \* pages requested, each by a process: <<kind, host, prop, number>>
          Setups,      \* what is requested and how it is served: [hits, atOnce, sameDir]
          MaxAge,      \* max_age
          FetchInt,    \* fetchint
          RrdAge,      \* rrd_age
          MaxRows,     \* bound on the number of samples
          Horizon      \* bound on time

ASSUME PageAssumption == MaxAge \in Nat /\ FetchInt \in Nat /\ RrdAge \in Nat /\ Horizon \in Nat

File  == Host \X Prop
Graph == {"overview", "detail"}  \* <name>.png, and the 4day, 1day and 2hour ones
Page  == {<<h[1], h[2], h[3]>> : h \in Hits}

VARIABLES now,   \* the clock
          db,    \* samples in MySQL: <<file, time, how many it had of that time before>>
          rrd,   \* rrd[f]: whether the database of f exists, what is in it, and the time
                 \* a record has to be later than
          png,   \* png[f][g]: a graph, the samples it shows
          html,  \* html[p]: a page, <<the file of a graph it shows, when the request that
                 \* wrote it came in>>
          hit,   \* hit[r]: the process that serves request r
          setup  \* the requests that come, how many of them are served at a time, and
                 \* whether datadir is where the scripts run; never changes

vars == <<now, db, rrd, png, html, hit, setup>>

(* The files a page is about. *)
About(p) == {f \in File : (p[1] # "prop" => f[1] = p[2]) /\ (p[1] # "host" => f[2] = p[3])}

PageOf(r) == <<r[1], r[2], r[3]>>
Alone(r)  == r[1] = "hostprop"   \* hostprop.py

NoRrd  == [made |-> FALSE, last |-> 0, recs |-> {}]
NoPage == [mtime |-> -1, shows |-> {}]
Idle  == [pc |-> "idle", since |-> 0, got |-> {}, rows |-> {}, todo |-> {}, cur |-> <<>>, shows |-> {}]

Init == /\ now = 0
        /\ db = {}
        /\ rrd = [f \in File |-> NoRrd]
        /\ png = [f \in File |-> [g \in Graph |-> [mtime |-> -1, recs |-> {}]]]
        /\ html = [p \in Page |-> NoPage]
        /\ hit = [r \in Hits |-> Idle]
        /\ setup \in Setups

Tick == /\ now < Horizon /\ now' = now + 1
        /\ UNCHANGED <<db, rrd, png, html, hit, setup>>

(* The server of nodescape2 inserts a sample; ctime is when it does, in    *)
(* seconds: there may be several of one second.                            *)
Insert(f) == /\ Cardinality(db) < MaxRows
             /\ db' = db \cup {<<f, now, Cardinality({s \in db : s[1] = f /\ s[2] = now})>>}
             /\ UNCHANGED <<now, rrd, png, html, hit, setup>>

Exists(file) == file.mtime >= 0

\* Mutant: a file is never too old.
NeedsRegenOnce(file) == ~Exists(file)

(* needs_regen. *)
NeedsRegen(file) == ~Exists(file) \/ now - file.mtime > MaxAge

At(r, pc) == hit[r].pc = pc

Goto(r, pc) == hit' = [hit EXCEPT ![r].pc = pc]

(* A request comes in.  host.py and prop.py look at their page, hostprop.py *)
(* at its graphs.                                                          *)
Start(r) ==
    /\ r \in setup.hits
    /\ At(r, "idle") /\ Cardinality({q \in Hits : ~At(q, "idle")}) < setup.atOnce
    /\ LET old == IF Alone(r) THEN \E f \in About(PageOf(r)), g \in Graph : NeedsRegen(png[f][g])
                  ELSE NeedsRegen(html[PageOf(r)])
       IN  hit' = [hit EXCEPT ![r] = [Idle EXCEPT !.since = now,
                      !.pc = IF old THEN "query" ELSE IF Alone(r) THEN "page" ELSE "send"]]
    /\ UNCHANGED <<now, db, rrd, png, html, setup>>

(* The samples about the page that are not older than fetchint are         *)
(* fetched; hostprop.py fails where there are none.                        *)
Query(r) ==
    /\ At(r, "query")
    /\ LET rows == {s \in db : s[1] \in About(PageOf(r)) /\ s[2] > now - FetchInt}
           with == {s[1] : s \in rows}
       IN  hit' = [hit EXCEPT ![r].got = rows, ![r].rows = rows, ![r].todo = with, ![r].shows = with,
                              ![r].pc = IF Alone(r) /\ with = {} THEN "failed" ELSE "next"]
    /\ UNCHANGED <<now, db, rrd, png, html, setup>>

(* update_rrd begins on the next file.  Whether the database exists is     *)
(* looked up in the working directory, which need not be where it is.      *)
Look(r, f) ==
    /\ At(r, "next") /\ f \in hit[r].todo
    /\ hit' = [hit EXCEPT ![r].cur = f, ![r].todo = @ \ {f},
                  ![r].pc = IF setup.sameDir /\ rrd[f].made THEN "update" ELSE "create"]
    /\ UNCHANGED <<now, db, rrd, png, html, setup>>

\* Mutant: a database begins now.
CreateNow(r) == /\ At(r, "create")
                /\ rrd' = [rrd EXCEPT ![hit[r].cur] = [made |-> TRUE, last |-> now, recs |-> {}]]
                /\ Goto(r, "update")
                /\ UNCHANGED <<now, db, png, html, setup>>

Create(r) == /\ At(r, "create")
             /\ rrd' = [rrd EXCEPT ![hit[r].cur] = [made |-> TRUE, last |-> now - RrdAge, recs |-> {}]]
             /\ Goto(r, "update")
             /\ UNCHANGED <<now, db, png, html, setup>>

\* Mutant: the records of all files.
LeftAny(r) == hit[r].rows

(* The records of the file that update_rrd has not come to yet. *)
Left(r) == {s \in hit[r].rows : s[1] = hit[r].cur}

\* Mutant: the newest record first.
NextRecordNewest(r) == {s \in Left(r) : \A q \in Left(r) : q[2] <= s[2]}

(* The records of a file come in the order of their times: those that may  *)
(* be next.                                                                *)
NextRecord(r) == {s \in Left(r) : \A q \in Left(r) : s[2] <= q[2]}

(* One record: refused, with an error that is printed, where the database  *)
(* has one as late or begins as late.                                      *)
Update(r) ==
    /\ At(r, "update")
    /\ \E s \in NextRecord(r) :
           /\ rrd' = [rrd EXCEPT ![hit[r].cur] =
                 IF @.last < s[2] THEN [made |-> TRUE, last |-> s[2], recs |-> @.recs \cup {s}]
                 ELSE @]
           /\ hit' = [hit EXCEPT ![r].rows = @ \ {s}]
    /\ UNCHANGED <<now, db, png, html, setup>>

\* Mutant: hostprop.py leaves the overview to the others.
DueDetail(r, f) == IF Alone(r) THEN {g \in {"detail"} : NeedsRegen(png[f][g])}
                   ELSE {g \in {"overview"} : NeedsRegen(png[f][g])}

(* The graphs of a file that the request is to draw. *)
Due(r, f) == IF Alone(r) THEN {g \in Graph : NeedsRegen(png[f][g])}
             ELSE {g \in {"overview"} : NeedsRegen(png[f][g])}

(* The graphs of the file that are due, from its database as it is now.    *)
Draw(r) ==
    /\ At(r, "update") /\ Left(r) = {}
    /\ LET f == hit[r].cur
       IN  png' = [png EXCEPT ![f] = [g \in Graph |->
                     IF g \in Due(r, f) THEN [mtime |-> now, recs |-> rrd[f].recs] ELSE @[g]]]
    /\ Goto(r, "next")
    /\ UNCHANGED <<now, db, rrd, html, setup>>

Drawn(r) == /\ At(r, "next") /\ hit[r].todo = {}
            /\ Goto(r, "page")
            /\ UNCHANGED <<now, db, rrd, png, html, setup>>

(* The page is opened, which empties it; hostprop.py only opens a page     *)
(* that is old.                                                            *)
Open(r) == /\ At(r, "page") /\ (Alone(r) => NeedsRegen(html[PageOf(r)]))
           /\ html' = [html EXCEPT ![PageOf(r)] = [mtime |-> now, shows |-> {}]]
           /\ Goto(r, "write")
           /\ UNCHANGED <<now, db, rrd, png, setup>>

KeepPage(r) == /\ At(r, "page") /\ Alone(r) /\ ~NeedsRegen(html[PageOf(r)])
               /\ Goto(r, "send")
               /\ UNCHANGED <<now, db, rrd, png, html, setup>>

(* The files whose graphs the text of the page shows.                      *)
Linked(r) == IF Alone(r) THEN About(PageOf(r)) ELSE hit[r].shows

(* The text lands on what another process wrote after the page was opened, *)
(* of which it may leave the tail.                                         *)
Write(r) ==
    /\ At(r, "write")
    /\ \E tail \in SUBSET html[PageOf(r)].shows :
         html' = [html EXCEPT ![PageOf(r)].mtime = now,
                    ![PageOf(r)].shows = tail \cup Linked(r) \X {hit[r].since}]
    /\ Goto(r, "send")
    /\ UNCHANGED <<now, db, rrd, png, setup>>

(* The answer is the page as it is now; the process is gone.               *)
Send(r) == /\ At(r, "send")
           /\ hit' = [hit EXCEPT ![r] = Idle]
           /\ UNCHANGED <<now, db, rrd, png, html, setup>>

(* A process that failed is gone. *)
Fail(r) == /\ At(r, "failed")
           /\ hit' = [hit EXCEPT ![r] = Idle]
           /\ UNCHANGED <<now, db, rrd, png, html, setup>>

Serve(r) == \/ Start(r) \/ Query(r) \/ (\E f \in File : Look(r, f)) \/ Create(r) \/ Update(r)
            \/ Draw(r) \/ Drawn(r) \/ Open(r) \/ KeepPage(r) \/ Write(r) \/ Send(r) \/ Fail(r)

Next == \/ Tick
        \/ \E f \in File : Insert(f)
        \/ \E r \in Hits : Serve(r)

Spec == Init /\ [][Next]_vars

----------------------------------------------------------------------------
(* The types of the state.                                                 *)
TypeOK ==
    /\ now \in 0 .. Horizon
    /\ db \subseteq File \X (0 .. Horizon) \X (0 .. MaxRows)
    /\ \A f \in File : rrd[f].last \in -RrdAge .. Horizon
    /\ \A p \in Page : html[p].mtime <= now /\ html[p].shows \subseteq About(p) \X (0 .. now)
    /\ \A r \in Hits : hit[r].todo \subseteq About(PageOf(r))

(* The times of the samples of a file. *)
Times(f, samples) == {s[2] : s \in {q \in samples : q[1] = f}}

(* A graph that is drawn shows a sample of every time the request fetched  *)
(* one of for the file, but for what has become older than rrd_age.        *)
DrawsWhatItFetched ==
    \A r \in Hits, f \in File, g \in Graph :
        At(r, "update") /\ hit'[r].pc = "next" /\ hit[r].cur = f /\ NeedsRegen(png[f][g])
           /\ png'[f][g].mtime = now
           => \A t \in Times(f, hit[r].got) : t > now - RrdAge => t \in Times(f, png'[f][g].recs)

(* Where requests are served one at a time, that holds whatever the        *)
(* database had before.                                                    *)
AloneDrawsWhatItFetched == setup.atOnce = 1 => DrawsWhatItFetched

(* "Only generate a new graph if we've updated the RRD" (host.py:38), of   *)
(* requests that meet as well.                                             *)
GraphsShowTheirUpdate == [][DrawsWhatItFetched]_vars

(* A page never shows a graph that was not drawn, nor one that was too old *)
(* when the request whose text shows it came in, nor one of another host   *)
(* or property, however many processes work on the page and its graphs     *)
(* (needs_regen, one file at a time).                                      *)
PagesShowFreshGraphs ==
    \A p \in Page : \A shown \in html[p].shows :
        \A g \in (IF p[1] = "hostprop" THEN Graph ELSE {"overview"}) :
            LET graph == png[shown[1]][g]
            IN  /\ Exists(graph) /\ graph.mtime >= shown[2] - MaxAge
                /\ \A s \in graph.recs : s[1] = shown[1]

(* An answer is there, and is not older than max_age at the time its       *)
(* request came in (the last lines of the three scripts).                  *)
FreshAnswer ==
    \A r \in Hits : At(r, "send") /\ hit'[r].pc = "idle" =>
          /\ Exists(html[PageOf(r)])
          /\ html[PageOf(r)].mtime >= hit[r].since - MaxAge
=============================================================================
