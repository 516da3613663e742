------------------------------ MODULE Reports ------------------------------
(***************************************************************************)
(* The reports of the SAX tools, put side by side: each behaviour is one   *)
(* of anomaly_check_prop.go ("hosts"), anomaly_check.go ("properties") and *)
(* the tools that draw a scan ("scan") at work.  They are programs of      *)
(* their own: "tool" says which one runs, and the variables that only      *)
(* others have stay None.                                                  *)
(***************************************************************************)
EXTENDS AnomalyReport

CONSTANTS PagePairs, PageListing, OldFiles, PageDamages, \* of PropertyReport
          Runs, OldFile, LengthName                      \* of ScanOutput

VARIABLES tool,
          pairs, names,                                \* PropertyReport
          run, stored, file, dumped, images, montage   \* ScanOutput

Property == INSTANCE PropertyReport WITH
    Pairs <- PagePairs, Listing <- PageListing, Damages <- PageDamages
Scan == INSTANCE ScanOutput

ASSUME ReportsConstants == Property!PropertyConstants /\ Scan!RunConstants

ofHosts    == <<hosts, props, anomalous, rep, index>>
ofPages    == <<line, found, columns, assets, pages, damaged>>
ofProperty == <<pairs, names>>
ofScan     == <<run, stored, file, dumped, images, montage>>
allVars    == <<tool, pc, ofHosts, ofPages, ofProperty, ofScan>>

None == "none"

NoHosts    == hosts = None /\ props = None /\ anomalous = None /\ rep = None /\ index = None
NoPages    == /\ line = None /\ found = None /\ columns = None /\ assets = None
              /\ pages = None /\ damaged = None
NoProperty == pairs = None /\ names = None
NoScan     == /\ run = None /\ stored = None /\ file = None /\ dumped = None
              /\ images = None /\ montage = None

Reports(t) == tool = t

ReportsInit ==
    \/ Reports("hosts") /\ Init /\ NoProperty /\ NoScan
    \/ Reports("properties") /\ Property!Init /\ NoHosts /\ NoScan
    \/ Reports("scan") /\ Scan!Init /\ NoHosts /\ NoPages /\ NoProperty

ReportsNext ==
    \/ Reports("hosts") /\ Next /\ UNCHANGED <<tool, ofProperty, ofScan>>
    \/ Reports("properties") /\ Property!Next /\ UNCHANGED <<tool, ofHosts, ofScan>>
    \/ Reports("scan") /\ Scan!Next /\ UNCHANGED <<tool, ofHosts, ofPages, ofProperty>>

(* A sequential program is run until it ends. *)
ReportsSpec == ReportsInit /\ [][ReportsNext]_allVars /\ WF_allVars(ReportsNext)

----------------------------------------------------------------------------
(* anomaly_check_prop.go:202: what a page shows was drawn from the column  *)
(* of its own name.                                                        *)
HostPlotsShowTheirColumns == Reports("hosts") => PlotsShowTheirColumns

(* anomaly_check_prop.go:113: a page has no baseline of another host.      *)
HostPagesAreTheirOwn == Reports("hosts") => PagesAreOfTheirHost

(* anomaly_check.go:169: what a page shows was drawn in this run, from the *)
(* column of its name.                                                     *)
ImagesAreOfTheirRun == Reports("properties") => Property!ImagesAreOfTheirRun

(* multi_search.go:274: an image shows the analysis of its name over time. *)
PicturesShowTheirAnalysis == Reports("scan") => Scan!PicturesShowTheirAnalysis

(* multi_search.go:21: a result is drawn within its own lead window.       *)
StoredWithinTheirWindow == Reports("scan") => Scan!StoredWithinTheirWindow

(* "For each conf file, get baselines" (anomaly_check.go:3): every report  *)
(* ends, unless an array is left by an index, a program that is needed is  *)
(* missing, or a profile cannot be read.                                   *)
ReportsEnd == <>(\/ pc \in {"end", "short", "overrun", "exit", "panic"}
                 \/ Reports("hosts") /\ Stuck
                 \/ Reports("properties") /\ Property!Stuck)
=============================================================================
