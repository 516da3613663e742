# NODESCAPE in TLA+

NODESCAPE watches the nodes of clusters. The repository holds three generations of
it, and this directory models them as far as a model checker can follow: TLA+
modules translated from the C, Go and Python sources, TLC configurations that check
them on small instances, and TLAPS proofs, for instances of every size, about the
display server, its loop in time, the table of rows, the plots runs, the pages of the
stdev scripts, and the reports, scans, searches, comparisons and words of the SAX tools.
`PROJECT.json` lists the components, runs, mutants, source lines of every definition,
findings, hazards and theorems.

To check it, in this directory: `tlc -workers 2 -config X.cfg MCModule` for a run
(the pairs are in the table of section 3) and `tlapm X.tla` for each of the eight
proof modules of section 4.

## 1. Inventory

### nodescape1: a display server (C)

* **State.** `nodescape.c` keeps `prop[MAXPROP]`, one slot per attribute in the
  order in which attributes were first heard of: a name, the least and the
  greatest value seen, the time of the last repaint, and the status (value and
  time) of each of `MAXNODE` nodes. Every slot has an image file that is mapped
  into memory. The end of the list is an empty name.
* **Operations.** One loop (:478-606): `select` with a timeout of a second; on
  a timeout every picture is offered a repaint; otherwise one packet is
  received and either dropped (node number), used to update its slot, or
  given a new slot. `uptint` (:169) repaints unless it did so less than
  `FADETIME/(512*MAXFADE)` ago.
* **Interaction.** Sensors (`epacsedon.c`, `ns_1_send.c`) throw packets over
  UDP and hear nothing back. Viewers read the image files.
* **Hard.** Loss, repetition and reordering of packets; the clocks of the nodes
  are not the server's; repaints that are skipped, of which someone must later
  make good; fading, which only happens when `select` times out; exits and
  restarts with an empty table and old images; table entries in C arrays.
* **Correct when** the status of a node is the newest heard; bounds are the hull
  of what was heard; attributes and slots correspond one to one; a picture shows
  its table, up to the gap between repaints; silence shows.

### nodescape2: agents, a database, front ends (C, Python, Go)

* **Configuration reader** (`config.c`): settings and, for the agent, a growing
  array of commands whose slots are filled before they count.
* **Agent** (`epacsedon.c`), **server** (`nodescape.c`), **agedb** (`agedb.c`):
  the agent runs its commands in turn with one record for all of them, and sends
  what each says; the server inserts a row per datagram; agedb deletes old rows.
  Hard: agents are killed, their hosts have clocks of their own, datagrams are lost,
  repeated, reordered, the connection to MySQL is made once only.
* **stdev front end** (`nsconfig.py`, `nsutil.py`, `host.py`, `prop.py`,
  `hostprop.py`, `landing.py`, `stdev.py`): a configuration with lists of
  properties per group and host, which are turned into lists of hosts per
  property; CGI scripts, one process per request, that share round-robin
  databases, graphs and pages without a lock and make them anew when they are
  old; a landing page made by a timer while samples arrive.
* **plots front end** (`plots.py`): a timer's run over hosts and groups, with a
  pool of processes per group, that appends to a file of averages per host and
  property and raises alarms. Hard: processes of a pool fail; runs are killed.
* **SAX front ends** (Go). Samples become words (`saxutil.go`, and a copy in each
  comparison tool); a lag and a lead window of words are counted, the counts
  become bitmaps, the bitmaps distances.
  * *Scans*: `multi_search.go`, `multi_search_fig.go`, `bitmap_parallel.go`
    (goroutines on unbuffered channels that read maps while the next maps are
    derived from them), `bitmap_window.go` (the sequential one),
    `profile_search.go` (one profile after the other on one list of maps), and the
    comparison tools `tsb_comp.go`, `basecomp.go`, `scomp.go`, `scomp_local.go`.
    Each ends by laying its results out as columns of a file that gnuplot reads.
  * *Reports*: `anomaly_check_prop.go` (a page per host) and `anomaly_check.go` (a
    page per host and property): loops over directories and databases with early
    exits, and lists that must stay in step.
  * *Readers*: `nsutil.go` (options), `saxutil.go` (samples, profiles).
  * Hard: the schedules; counts that are adjusted instead of recounted; state that
    survives from one profile, pass or plot to the next; positions that are computed
    from the ends of windows; files and images an earlier run left.

### nodescape3: a configuration reader (Go)

`config_scan.go` (a scanner with one byte of lookahead), `config_parse.go` (a
recursive-descent parser that calls it for each token), `config.go` (the pass
that fills the settings and the list of servers). Hard: the end of the file, the
two kinds of line ends, what happens after the first token that fits nowhere.

## 2. Modules

| module | models | state and code |
| --- | --- | --- |
| `LatestStatus` | what the header of nodescape1 promises of its table, declaratively | reports processed, entry per attribute and node |
| `Nodescape` | the display server: `Init` clears the table as the static array is; `SelectTimeout`, `DropNode`, `Update`, `NewSlot`, `NoFile`, `Overrun`, `RecvFails` are the ways a pass of the loop can go, each to its end; `Restart` is the operator's | `names`/`bound`/`status`/`lastup` are the fields of `prop[]`, `disp` the image files, `heard` a history |
| `AgingLoop` | the same loop in relative time, every attribute known: what becomes of pictures over unbounded time; a packet is stored (`Store`) or, as an old one, dropped (`Ignore`) | ages and waits, capped where they stop to matter |
| `SaxWords` | how samples become words: `Gen_words` of `saxutil.go` and the copies in the tools | the series, the window, the words so far |
| `Subwords` | `Gen_subwords`, `Count_subwords`, `Adj_count`, `Adj_count_window` | operators |
| `Bitmaps` | `Gen_bitmap`, `Bitmap_distance`, in exact parts of a unit | operators |
| `WindowScan` | the main goroutine of `multi_search.go` (and of the one-channel scans) and the goroutines it starts, one action each; the sequential scan as recursive functions | a map per window position, a program counter per goroutine and channel |
| `ProfileSearch` | `profile_search.go`: command line, profiles in random order, goroutines per position, the turned-around result | arguments, profiles, maps, routines, files |
| `SeriesScan` | the loops of `tsb_comp.go`, `basecomp.go`, `scomp.go`, `scomp_local.go`, their counts and output | position, counts left over, distances, columns |
| `ScanOutput` | the rows where scans store results, the columns of the file, images by numbers of columns | stored rows, file, images |
| `AnomalyReport` | `anomaly_check_prop.go`: every loop, early exit and list | the loops' positions, what was gathered of the host, pages and index |
| `PropertyReport` | `anomaly_check.go`: the same for a page per property | pairs, profiles found, columns, images |
| `CommandFile` | `config.c` and what the programs ask of it | settings, array of commands, count |
| `RowStore` | agent, server, database table and agedb | a clock per host and one of the database, the agent's record and place, datagrams under way, rows with `ctime` |
| `ConfigFile` | nodescape3's scanner and parser, byte by byte, and the settings | position, lookahead, scanner state, token, sections, settings |
| `FrontConfig` | `nsconfig.py` and the turning of lists in `nsutil.py` | options, lists per group, host and property |
| `SaxConfig`, `SampleFile` | `nsutil.go`'s reader of options; `saxutil.go`'s and `scomp_local.go`'s readers of samples and profiles | place in the file, tokens, options, pairs |
| `LandingPage` | `landing.py` with `stdev.py` while samples are stored | what was fetched, anomalies, databases, page |
| `PageCache` | `host.py`, `prop.py`, `hostprop.py` as processes over shared files | databases, graphs, pages, one record per process |
| `PlotsRun` | `plots.py`'s runs, pools and files of averages | the files, the pool, the lists, the first page |
| `Stdev` | the stdev scripts side by side: `PageCache` or `LandingPage` | `script` says which one a behaviour is of |
| `Reports` | the reports side by side: `AnomalyReport`, `PropertyReport` or `ScanOutput` | `tool` says which one a behaviour is of |
| `Readers` | the readers side by side: `CommandFile`, `ConfigFile`, `FrontConfig`, `SaxConfig` or `SampleFile` | `reader` says which one a behaviour is of |
| `Selections` | what stands at some places of a sequence, for the properties of the readers | operator |
| `Scans` | the scans side by side: `WindowScan`, `ProfileSearch`, `SeriesScan` or `SaxWords` | `tool` says which one a behaviour is of |
| `NodescapeProofs` | theorems about the table of `Nodescape`, its pictures and its refinement of `LatestStatus` | |
| `AgingLoopProofs`, `RowStoreProofs`, `PlotsRunProofs`, `StdevProofs`, `ReportsProofs` | theorems about the module of the name | |
| `ScansProofs` | theorems about counts and words, the parallel scan, the profile search and the comparison tools | |
| `ReadersProofs` | theorems about the readers of nodescape2's configuration and of samples and profiles | |

Composition: `Nodescape` implements `LatestStatus` through the refinement `Entry`;
`RowStore` is agent, network, server, table and agedb in one; `WindowScan`,
`ProfileSearch` and `SeriesScan` are built on `Subwords` and `Bitmaps`. Programs
that are modelled apart are put side by side, so that a behaviour is one of them at
work: `Readers` (the five readers of files), `Scans` (window scan, profile search,
comparison tools, words), `Reports` (both reports and the output of the scans),
`Stdev` (page scripts and landing page). A variable of theirs (`reader`, `tool`,
`script`) says which one it is, and the variables only others have stay `None`.
Most of these share nothing. The page scripts and the landing page do: `landing.py`
fills the same `<host>_<prop>.rrd` in `datadir`. What the one does to the databases of
the other is not modelled; each is modelled with databases that only its own kind
touches.
The MC modules give constants their small values.

Two conventions. Operators marked *Mutant* are plausible slips of the definition
below them; no specification uses them, they show that the properties notice.
And data is abstract wherever no property looks at it: a SAX curve is the set of
positions where it is high, a page the set of graphs it shows, a result of a scan
the number of its window, a word of a configuration a short string.

## 3. Runs

| run | module, cfg | checks |
| --- | --- | --- |
| `server` | `MCNodescape`, `Nodescape.cfg` | `TypeOK`; `SlotPerAttribute`, `NewestWins`, `BoundsAreHull`: the table after any loss, repetition, reordering, exit and restart, with node numbers up to and beyond MAXNODE; `KeepsLatestStatus`: refinement of `LatestStatus`; `NoStatusGoesBack`; `LagOnlyInsideGap`: a picture falls behind its table only within the gap after a repaint |
| `aging` | `MCAgingLoop`, `Aging_quiet.cfg` | `QuietRepaints`: a quiet gap and select bring every picture up to date; `SilenceShowsIfQuiet`, `ReturnShowsIfQuiet`: where quiet comes again and again, silence and the return from it show |
| `scans` | `MCScans`, `Scans.cfg` | `SameAsSequential`: the distances are those of the sequential scan, whatever the schedule; `DistancesMatchRecount`: and are computed from exact counts while words are equally long; `SearchedAsAlone`: the file of a profile is what a search for it alone gives; `SeriesCompareTheirWindows`: every row of a tool compares its own windows; `WordsShowTheShape`: equal shapes have equal words, letters follow samples, words get no longer; `ScansEnd` |
| `reports` | `MCReports`, `Reports.cfg` | `HostPlotsShowTheirColumns`, `HostPagesAreTheirOwn` (page per host, with files and plots that fail); `ImagesAreOfTheirRun` (page per property); `PicturesShowTheirAnalysis`, `StoredWithinTheirWindow` (output of scans); `ReportsEnd` |
| `stdev` | `MCStdev`, `Stdev.cfg` | `FewOddNever`, `AnomaliesOfTheirOwn`, `RrdOfOneSeries` while samples arrive at the landing page; `PagesShowFreshGraphs`, `AnswersAreFresh` with overlapping requests, `AloneGraphsShowTheirUpdate` for requests one at a time: a graph shows a sample of every second that was fetched, but for what is older than `rrd_age` |
| `plots` | `MCPlotsRun`, `Plots.cfg` | `HistoryIsOfItsRuns`, `OnlyAKillEmpties`, `AlarmsAreKept`, `RunsEnd` under kills and failing processes |
| `rows` | `MCRowStore`, `Rows.cfg` | `RowsAreSamples`: a row is what its very command said, with the time its host had when it was begun; `OldRowsAreGone`: after agedb ran without an error, by the clock of the database |
| `readers` | `MCReaders`, `Readers.cfg` | `CommandsKept` (config.c); `DocumentsReadBack`, `TerminatedFilesEnd` (nodescape3); `ListsAreWhole` (nsconfig.py, nsutil.py); `OptionsAreOfTheirLines`, `SamplesReadBack` (SAX) |
| `silence` | `MCAgingLoop`, `Aging_silence.cfg` | violated: `SilenceShows` without the quiet |
| `pages_race` | `MCPageCache`, `Pages_race.cfg` | violated: `GraphsShowTheirUpdate` where two requests meet |
| `rows_table` | `MCRowStore`, `Rows_table.cfg` | violated: `OldRowsAreGone` with the table of the shipped configuration |
| `slides` | `MCWindowScan`, `Window_slides.cfg` | violated: `AdjustedIsRecounted`: where words get shorter the adjusted counts are no recount |

`TypeOK` of the other modules is stated for readers and for the proofs.

### Bounds, and why they are enough

* `server`: three attributes for a table of two slots, so that it overflows; three
  node numbers: one with an entry, MAXNODE itself (which passes the check at :524)
  and one beyond, which is dropped; three different packets, each received any
  number of times: the fewest with which an old, a new and a repeated report of one
  pair can meet, or two of one pair and one of another; two values and a horizon of two
  ticks with a gap of one, so that pictures are skipped and made good. For the table the
  proofs remove all of these bounds. `Symm` permutes attributes, which are never
  compared but for equality; no liveness is checked there.
* `aging`: the constants keep the order of the real ones (select 1 s < gap 2.2 s
  < fade 900 s) in ticks of half a second (2 < 4 < 7), with a fade longer than gap and
  select together, as `QuietRepaints` would say nothing otherwise. Time is unbounded.
* `scans`: for the parallel scan the words of four samples, the first two of them
  fixed and the last one shorter, lag and lead of one word and three channels: three
  positions, so that a goroutine can be overtaken by the maps of the next position.
  (The invariant of the proof was also checked with all words free.) The profile
  search has two profiles and an empty one, series with a short last word, without
  words and from the database, and four command lines: repeated and missing options. Its lead window has three
  words, and results stand one sample behind the end of a window, at it or one before
  it, as the configuration of a command line has it.
  The tools get series without words, with fewer than a window and with several
  positions of the windows. Words are made of all series of seven samples of three
  values, two symbols of three samples to a word: all shapes a section can have,
  the flat one too.
* `reports`: two hosts, three profiles of one property and one of the other: the
  fewest with which a host can be odd (three curves) with properties that have
  different numbers of anomalies; series at and below the length of the windows. In
  the page per property, a property whose name begins another's, one without
  profiles and a profile of neither, files that cannot be read, made or drawn, with
  and without the columns of an earlier run. In the page per host, any file of columns
  and any page may not be made, with and without columns of before, and the images of
  one property and one profile may not be drawn; one profile's name matches the
  property of both hosts, so its image is drawn for either. The output of scans has words longer
  and shorter than a window, one and two lengths of subwords, none to two profiles.
* `stdev`: one file more than a page needs, one age beyond `max_age`, samples that
  grow older than `fetchint` while requests overlap, up to two samples, of one second or
  two, and two requests at a time; `rrd_age` is `fetchint`, as in the shipped test.conf
  (both four days), so a database that is made anew begins where a fetch does. They are
  for a page per host and one per host and property that share a graph; the proofs cover any requests at any time, several
  for one page among them. For the landing page, all series of up to five values out
  of four (two samples cannot be odd with a bound of one), and mixed tables of two
  hosts and two properties. The age check of a graph and its drawing are one step
  (`Draw`): another process between them could only draw the same graph.
* `plots`: three runs with files of two averages, so that one is dropped; one host
  is also in the group, so its file is used twice in a run.
* `rows`: one host with two commands, one of which says nothing; two datagrams; agent
  kills anywhere. Its clock shows one of two times, and goes from one to the other at
  any moment; the database's counts to two, which with an age of one is enough for a row
  to be old. Nothing orders the two, but that of the database is assumed not to be set
  back: `OldRowsAreGone` would not hold of a row whose `ctime` is ahead of it.
* `readers`: the families of files are in `MCReaders`; each has every
  kind of line or byte the reader tells apart, in all arrangements of that length.

Counters that would grow without bound have a bound among the constants
(`Horizon`, `MaxSent`, `MaxRows`, `MaxNet`, `MaxRuns`, `MaxStored`), which is a
guard of the action that would pass it. Deadlock is not checked where the program
ends or a bound stops it; `aging` never stops, and checks it.

### Fairness

* `AgingLoop`: handling, timeouts and the clock are weakly fair: one process that
  is scheduled, and time. No source has to send. Weak fairness is enough as each
  stays enabled until it is taken or its cause is gone.
* `MCScans`: weak fairness of the main goroutine, of the goroutines and of the
  receives: the Go runtime runs what can run. It promises nothing about which
  sender a receive is paired with, and none is assumed. The sequential tools are run
  until they end, and so are the programs of `Reports` and `Readers`.
* `PlotsRun`: a run's own steps are weakly fair; neither the timer nor a kill is.
* The other specifications state safety only and have no fairness.

## 4. Proofs

Eight modules hold theorems; none has an assumption but those of the constants
(`ASSUME`d where the constants are declared) and the one of `OldRowsAlwaysGone`.

**The display server** (`NodescapeProofs`), for every set of
attributes, node numbers and values, every table size and every length of time:
`TypeCorrect`, `NewestWinsAlways`, `BoundsAlwaysHull`, `OneSlotAlways`,
`NoStatusGoesBackEver`, `LagOnlyInsideGapEver`, and `LatestStatusKept`:
`Spec => KeepsLatestStatus`, the server implements `LatestStatus` through exits and
restarts. `NewestWins` alone is
not inductive. An update of slot *i* keeps it only if no other slot has the same
name, so that what is heard about the attribute is what went into that slot; a new
slot keeps it only if nothing was heard of its attribute before, which is the second
half of `SlotPerAttribute`. The bounds need the same two facts, so the invariant is

    TableInv == TypeOK /\ SlotPerAttribute /\ NewestWins /\ BoundsAreHull

Node number MAXNODE passes the check at nodescape.c:524, and its entry is the memory
of the bounds of the next slot. The model has this (`StatusAt`, `Update`,
`NewSlot`); `BoundsAreHull` therefore excludes a slot behind one that such a packet
was handled for (`Spoilt`), and the theorems show that nothing else is harmed. The two
cores are free of the model: `EntryStep` (a newest element and one more) and
`HullStep` (a hull and one more value). The refinement adds `TimesPositive` (clocks
start after 0, as the time 0 marks an entry without a status), and characterises the
mapped table twice: `EntryOfSlots`, by the slot of an attribute (`CHOOSE` finds the
only one), and `EntryOfHeard`, by the newest report.

`LagOnlyInsideGapEver` is about the two repaints of a packet, of which the first
(nodescape.c:535) still has the old status. It goes through the ways a pass of the
loop can end and shows of each slot that the step `Keeps` it: slot and picture stay
what they were (`SameSlot`), or the picture was painted within the gap, or the bounds
were overwritten. As no two slots have one name, the repaint of one slot cannot paint
the picture of another.

**Its loop in time** (`AgingLoopProofs`): `QuietRepaintsEver`, for any periods.
Inductive with two facts: `DueIsDone`, since the first timeout of a quiet no picture
has waited longer than the gap and what the current select has waited; `LagIsTime`, a
fade moves by at most one step in a tick.

**Counts and words** (`ScansProofs`): `AdjustIsRecount`, a count that is adjusted by
a word of the same length is the recount (a bijection between places of the two
windows), and never below it otherwise; `WordsNeverGrow`, the words of a series only
get shorter, for all lengths of a series, a word and a symbol.

**The parallel scan** (`ScansProofs`): `ScanTypes`, `SameAsSequentialEver`,
`DistancesMatchRecountEver`, and `SendersRemainEver`: while the main goroutine waits
there is a goroutine left to send on a channel it may receive from. The invariant is
`IInv == TypeOK /\ Shape /\ SequentialMaps /\ Results /\ Rounds /\ Counts`: how long the
lists are where the first loop is; the maps are those of the sequential scan;
what is computed is computed from the maps of its own position and what is stored was
computed; a round receives once from each channel, by a count of the goroutines that
are gone; adjusted counts against recounts. It rests on two assumptions on the inputs:
words never get longer, which `WordsNeverGrow` proves of `Gen_words`, and channels
have different names.

**The profile search** (`ScansProofs`): `SearchedAsAloneEver`, for any series and
profiles, in any order, any schedule of the goroutines and any shift between a window
and its position: profile_search.go:265-268 has it as half of the difference between
the lengths of a word and of the lead window, which is below 0 for the shipped real0.conf
and real0_prof.conf (-12). `profile_search.go` keeps
one list of maps for all its profiles, so what is to be ruled out is that something is
left of the profile before. The invariant is

    SearchInv == SearchTyped /\ LeadMaps /\ Scan /\ Search!SearchedAsAlone

`LeadMaps`: the map of every start is the one a search alone has there, and what later
searches append to the list stands behind the maps they read. `Scan`: a goroutine that has run carries the distance of its
own start, and what was received stands at the place of that start, whichever goroutine
was heard first. `FileFits` says of a file, column by column, what
stands in the rows of the windows and in all others, given the distances of a search
alone; what is written of complete results (`RowsOfRun`) fits.

**The comparison tools** (`ScansProofs`): `SeriesCompareTheirWindowsEver`, for any
lengths of series, words and windows. A row is `RowDistance`, an expression that
says nothing of what was counted before, and

    SeriesInv == SeriesTyped /\ Rows /\ Output /\ Marked /\ Marks

adds that `most` is the last row that is not 0 (`Marked`) and what the columns of its
plot begin with (`Marks`). `tsb_comp.go` counts on top of what is in its maps and makes
the counts parts of a unit, so `Rows` needs that every pass leaves both maps empty
(`SeriesTyped`), and that a count in such parts has the bitmap of the recount
(`CountsOnTop`): a bitmap is relative to its greatest count (`BitmapScales`).

**The words** (`ScansProofs`): `WordsShowTheShapeEver`, for all series of integers,
symbols and windows. `WordsInv` only says that the words so far are those of their
windows and that windows lie in the series; the substance is three facts about one
window, in integers, where *d* is the distance of a section from the mean of its
window and *v* the variance, both times what makes them whole.

* Windows that differ by a scale (of a half, one or two) and an offset have the same word: *d* and *v* change
  so that the letter does not (`LettersScale`, `AlikeScales`).
* Letters follow the samples: a greater section has no lower letter (`LettersGrow`);
  the *d* of the sections that fill a window add up to 0, so where sections differ some
  letters are below the mean and some above (`BothSides`); a window without deviation
  has no sections that differ (`NoSpreadIsFlat`).
* Words get shorter at the end of a series exactly as `WordLength` says
  (`WordsGetShorter`), which is what the parallel scan assumes of its input.

Sums, maxima and counts are folds and choices over finite sets here. That a fold
computes what is said of it is shown as for the landing page below: it is a function
that takes the steps of the loop (`Steps`, `Prefixes`, `Combined`), and the induction is
about a set of numbers, or of subsets (`NaturalsFrom`, `SubsetsFrom`). The assumption is
`ScanConstants`: lengths are positive, series are of letters, what the tools divide by
is not 0.

**The table of rows** (`RowStoreProofs`): `StoreTypes`, `RowsAlwaysSamples`, and
`OldRowsAlwaysGone`, which assumes that the server writes to the table agedb names
(run `rows_table` shows what happens otherwise). A row can only be a sample if what it
comes from is one: `StatOwn` (the one record of an agent has the label and time of
its current command) and `NetSampled` (what is under way was sampled). The data of the
record are those of the command before until its own command has ended: `Fill` writes
them even where a command says nothing. Every host has a clock, which may be set
forward and back; nothing relates it to the database's, and no theorem does.
`OldRowsAlwaysGone` is about `ctime` and the delete, which are both the database's, and
about agedb without an error: a query that fails deletes nothing.

**The plots runs** (`PlotsRunProofs`): `HistoryIsOfItsRunsEver`,
`OnlyAKillEmptiesEver`, `AlarmsAlwaysKept`, with any number of processes in a pool,
failures and kills. The invariant relates a process that has emptied its file to what
belongs in it (`Opened`), knows who failed (`Broken`), and follows an alarm from the
process that raised it to the list (`Raised`).

**The pages of the stdev scripts** (`StdevProofs`): `PagesFreshEver` and
`AnswersFreshEver`, for
any requests at the same time, of one page or of pages that share graphs. What a
request has been through (`Made`) is fresh for it (`Ready`), whatever the others do
to the same databases, graphs and pages in the meantime: graphs only get younger
(`OneMoves`, the lemma each action uses), and the tail of another one's text that a
write leaves was fresh for that one. `hostprop.py`, which shows all graphs of its
file without having drawn any, needs that the one file it asks for is the one it
found (`AtWork`, `Places`).

`AloneGraphsEver`: where requests are served one at a time, a graph shows a sample of
every second of which one was fetched for it, but for what is older than `rrd_age`.
rrdtool refuses a record that is not later than its last one, the second of a second
among them, and one that is not later than the beginning of the database, which
`create_rrd` puts `rrd_age` back. So this needs to know of which times the database has
a sample before: of those that a later fetch will find, of every one up to its last
record that is later than `rrd_age` ago (`Whole`), through any number of requests; that
a fetch leaves nothing out between its records (`Fetched`), and that the times of what
is no longer to be written are in the database (`InItsDatabase`). Two requests at once
break it (run `pages_race`), which is why the last part is about set-ups of one.

**The landing page** (`StdevProofs`), for any table, any samples stored while the
properties are fetched, and any bound and interval. `FewOddNeverEver` is Samuelson's
inequality in integers: the squares of the distances of *n* samples from their mean add
up to *n* times the variance (`Spread`, `DistancesAddUp`), and none of them is greater
than their sum (`SumIsAsGreat`), so no sample is further away than the root of *n*
standard deviations, and with a bound of *b* a host needs more than *b* squared samples
to be on the page (`OddAmongMany`). `AnomaliesEver` and `RrdEver` rest on `LandInv`:
the table is in the order of times, no property is fetched twice (`TodoOnce`), nothing
was found yet of a property still to come (`NotYetOdd`), what is held of a host is one
series (`OneSeries`), and an anomaly was found in its own (`Found`). A host that was
found is still among those with samples (`OddFound`), so the page never asks for a
series that is not there.

The loops of `landing.py` and `stdev.py` are folds over lists. A fold is shown to be
the loop, step by step, by an induction over the number of elements that is about the
*set* of the numbers for which the claim holds (`NaturalsFrom`, from the library's
`WFMin`), since a theorem with an operator as parameter cannot be used here; that the
function behind the fold exists (`FoldExists`, `LoopExists`) is shown the same way.
The assumption `StdevConstants` says what a table is: samples with numbers, in the
order of their times, to which the server adds numbers. (The text that ends the program
is one of these numbers, set aside.)

**The reports of the SAX tools** (`ReportsProofs`), for any hosts, properties,
profiles and lengths of series. The programs share no state, and the invariant has a
part for each:

* `HostInv` (`HostPlotsEver`, `HostPagesEver`): the arrays of names, values and
  columns that `anomaly_check_prop.go` gathers stay in step (`HArrays`), although
  they are appended to in different places and a property can be left in between;
  what is gathered is of the host at hand and of properties that are done
  (`HGathered`); so the columns that are counted for the plots are those of the names. An image has
  what it had before, or was drawn for a host it belongs to (`DrawnRight`): from the
  column of its own name or, where the file of that host could not be written, from the
  file of before (`DrawnOf`). No host to come has a file of this run (`HPages`).
* `PairInv` (`ImagesEver`): a file of a pair is that of before, or has the columns by
  the numbers the plots use (`PFiles`); an image that is on a page was drawn from it
  (`Good`), or was drawn again for another pair that the profile matches, as patterns
  are not anchored; no later pair takes the image away, since its file is written
  before (`Dumped`).
* `ScanInv` (`PicturesEver`, `StoredEver`): every result is at the row of its window
  and nothing else is (`RowsRight`), the numbers gnuplot is given are those of the
  columns (`Named`), and the rows lie in the lead window: the arithmetic of offsets,
  with halves truncated, for every word and window (`RowsOfWindows`).

A list is followed by its places (`Made`, `JoinedPlaces`). The constants are assumed to be what the programs are
given: hosts, labels and files of a directory are distinct (a name is listed once),
a file of before belongs to one of the pairs, no profile is configured twice or
under the name of one of the fixed columns, words have two samples or more.

**The readers** (`ReadersProofs`), for files of any length. `CommandsKeptEver`: nodescape2's
`read_config` never fills a slot beyond its array, and the slots that count are the
complete command lines in their order; of two lines for a setting the last one counts,
and no program runs without a setting it asks for; for any first room of the array and
any size of its fields. `SamplesReadBackEver`: the pairs that `saxutil.go` and
`scomp_local.go` read are those of the file, whatever the blanks between them.
`OptionsAreOfTheirLinesEver`: the lines of tokens that `nsutil.go` splits a file into are
the file's, each without its comment; a list of options is what all its lines give, in
order, and a number what its last line gives.

They relate a state to a second reading of the whole file. That reading is a selection:
the elements at a set of places (`ElementsAt`), counted by how many places are before
(`ElementOfPlace`), so a line or word that is read adds one place behind the others
(`OneMorePlace`) and no induction over the file is needed. `CommandsInv` adds what a
setting holds before the first line for it, that texts without characters have no
length (`Start` compares whole texts), and that the array is never empty, without which
doubling it gains nothing. `PairsInv` says that twice as many words stand before the
reader's place as it has pairs. For that a blank must stand behind each word, as the
loop moves on by one without looking (`SampleConstants`; two words in a row would be one),
and `eat_white` must find a place at all (`EatWhiteFinds`). `DataInv`, of the reader
that has no errors, says it only up to the end of the file: there a pair of nothing or
of half a word may follow.

`SaxInv` has two parts. `SplitInv` counts lines by the ends before a place (`LineAt`) and
says that the reader stands at the beginning of a line (`AtLine`) or within one, with the
tokens before its place (`InLine`), and not behind a hash of this line unless its end is
next: a comment is passed in the step of the token before it. A file whose last line is
not ended needs an alternative of its own, for there the place runs two beyond the file.
Then every line taken adds a place to the lines of its option (`OptionPlacesGrow`) and a
part to what they give (`PartsGrow`). `FlattenSeq` joins these by a recursive function
over the length of the whole: that it exists (`JoinExists`), and that the join of a
longer sequence begins as that of the shorter (`JoinAgrees`), are the two inductions,
over sets of numbers (`NaturalsFrom`). The constants are assumed to be words, marks and
whole numbers (`SaxConstants`).

Only model-checked: liveness and everything with `ENABLED`, which is out of the
prover's reach, and two readers of files: `DocumentsReadBack` follows a scanner and a
printer byte by byte through recursive definitions, and `ListsAreWhole` compares folds of
dictionaries with a second fold over the document, so a proof would be an induction over
that data in both.

## 5. What the code does otherwise than its texts say

Runs of this project show four of these; the others were met while translating
and are behaviour of the models, not properties of a run.

* `silence`: nodescape.h:41-43 against nodescape.c:497. Pictures fade only when
  `select` times out, so one attribute that reports every second keeps all others
  from turning magenta.
* `pages_race`: hostprop.py:39-40 against nsutil.py:108. The database is looked for
  in the working directory and made in `datadir`, so each request lays an empty
  one over the old; where two meet, a graph is drawn from an emptied one.
* `rows_table`: nodescape.conf:5 against agedb.c:40. The table is part of agedb's
  statement; with the shipped `cikstats` nothing is ever deleted.
* `slides`: saxutil.go:272-273 against :284. Where words get shorter at the end of a
  series the adjusted counts are not those of a recount (hence the premise of
  `DistancesMatchRecount`).
* nodescape.c:180 ("Don't update when nothing could look different"): the repaint is
  skipped by time alone, also where something looks different.
* nodescape.h:13-15 ("ignoring packets marked as older than the youngest one
  processed for that node"): the comparison is per node *and attribute*.
* nodescape.c:524 and :562: node number MAXNODE; a table that is full
  (`Overrun`; the model stops there, as the memory behind the table is anything).
* config.c:216: a command as long as its buffer, or longer, is copied without an end,
  so what the agent hands to popen runs on into its own label (`Executed`; that it is
  its own, and nothing of another slot, is part of `CommandsKept`). :203 looks for the
  end of an empty label in the byte before it, which is the slot's own command and is
  written over.
* config_parse.go:116: a file is accepted although parsing stopped in its middle;
  config_scan.go:94: a value that begins with a letter ends at its first dot;
  config_scan.go:103: a last line that is not ended is read for ever.
* nsutil.py:136: a host that is listed twice empties the list of others; stdev.conf
  does so. `ListsAreWhole` leaves such files out (`SaidOnce`), so it does not show what
  becomes of them.
* nsutil.py:112-122: of two samples of one second only the first is in a database, and
  where `fetchint` is `rrd_age` (test.conf) a sample can be fetched that the new database
  is too young for by the time it is made; the error is printed.
* stdev.py:74: "most out of range" compares samples with deviations; landing.py:61:
  the databases of a host are all filled from its last property.
* anomaly_check_prop.go:71 (an unreadable profile is tried for ever: `Stuck`), :256
  (index pairs properties and anomalies by position), :142 (the times of a flat
  property are kept: `Overrun`), :212 (a file of columns that cannot be made is only
  reported: the plots are drawn from the one before), :321 (the newest positions are not looked at).
* anomaly_check.go:51: the pattern of a property is not anchored, so a profile can
  belong to two properties, and the image named for it is that of the last; :202: a
  plot that fails leaves a page unfinished.
* SAX nsutil.go:94: an unended last line is read beyond its end (`panic`); :394: where
  a data file cannot be made the plots are drawn from the one an earlier run left.
* tsb_comp.go:101, :110 against :112: the lead window leaves out its first word; its
  `max` is the last position with a distance, among the first *i* entries, and not the
  greatest. scomp_local.go:36 against :68: words are one symbol short; it keeps values
  it says it ignores.
* The tools' own `normalize` divides by a deviation of zero, so a flat window is all
  of the last letter there and of the middle one in saxutil.go (`SaxWords`), where a
  window of one sample has 0/0 for its deviation and is of the last letter too.
* bitmap_parallel.go stores its results one row later than bitmap_window.go; both lose
  the newest windows where words are longer than the lead window, as in the shipped
  goconf.conf (`StoredWithinTheirWindow` says which rows are written).
  saxutil.go:512 slides the lag window by the length of the lead window.
* multi_search.go:284: where the configuration names a profile twice, the number of
  columns gnuplot is told and the columns written differ.

## 6. Not modelled

* Arithmetic of pixels and floats: `overlay`, PGM/PPM parsing; rounding in means.
  Colours are exact fractions, means integers over counts, and `SaxWords` has exact
  means and deviations: a flat window of values that floats cannot represent may
  differ.
* What rrdtool, gnuplot, convert, MySQL and the HTTP server do inside; in the models
  they are steps that succeed or fail as the code around them allows. The 512
  characters of an SQL statement are left out.
* `shist.go`, `subct.go` (counts of one series, in one loop), `sax-test.go` (calls
  functions that are not there and does not compile), the generators of test data,
  `freq` (an unfinished experiment), `custom.py` (one image per name), the shell
  scripts.
* `dynamic.py` and `plots2.py` with `stdev_analyze`: both call functions of this
  repository with the wrong number of arguments and end there (`get_propdata`;
  stdev.py:123), before anything they keep is used again.
* Of `plots.py`: its round-robin databases, the order of alarms on the first page and
  the last copying of pages; of nodescape1's sensors: the reading of `/proc`.
* Interleavings inside one pass of a single-threaded loop that no other process
  can see.
* The page scripts and `landing.py` at work on the same databases.

Modelled, but kept by no property, as the code does not keep it either: the overrun of
the table (nodescape.c:562), a run of plots that ends at a host without samples
(plots.py:224), a file of averages that a kill empties (plots.py:90), a profile that is
tried for ever (anomaly_check_prop.go:71), lists of a file that says a thing twice
(nsutil.py:136). The properties name these cases or leave them out, as the hazards in
`PROJECT.json` say one by one.

## 7. Plan

Done, in this order: display server with abstract table; its loop in time; window
scan; readers; agent, server and agedb; pages, landing page, plots; report per host;
words and bitmaps, profile search, comparison tools, output of scans, report per
property; theorems about the table, its pictures and its refinement, the window scan
and its counts, the loop in time, rows, plots runs, pages, landing page, reports,
profile search, comparison tools and words, the readers of commands, samples and options.

What could follow:

1. `Pipeline`: `RowStore` composed with `PageCache`, so that what a page shows is
   traced to what an agent sampled, with agedb deleting below.
2. Theorems about the other readers: `ListsAreWhole` once the reader of the lists takes
   an entry per step instead of folding over them; `DocumentsReadBack` stays with TLC.
