------------------------------- MODULE Scans -------------------------------
(***************************************************************************)
(* The scans of the SAX tools: each behaviour is one of them at work.      *)
(* They are programs of their own and are put side by side: "tool" says    *)
(* which one runs, the variables that only others have stay None.          *)
(***************************************************************************)
EXTENDS WindowScan

CONSTANTS Commands, SeriesFile, SeriesOf, ProfileFile,    \* of ProfileSearch
          SearchLead, ShiftOf, SearchUnit,
          Tools, Sizes, WordSamples, Section,             \* of SeriesScan
          SeriesWindow, SeriesUnit,
          Programs, Curves, Symbol, Fwin                  \* of SaxWords

VARIABLES tool, i,
          args, profiles, name, start, routines, files,  \* ProfileSearch
          prog, size, distances, most, out, maxout,      \* SeriesScan
          series                                         \* SaxWords

ofWindows == <<lagStart, state, result>>
ofSearch  == <<args, profiles, name, start, routines, files>>
ofSeries  == <<prog, size, distances, most, out, maxout>>
allVars   == <<tool, i, vars, ofSearch, ofSeries, series>>

Search == INSTANCE ProfileSearch WITH leadStart <- start, Lead <- SearchLead, Unit <- SearchUnit
Series == INSTANCE SeriesScan WITH Window <- SeriesWindow, Unit <- SeriesUnit, Feature <- WordSamples
Words  == INSTANCE SaxWords WITH program <- prog, win <- i

ASSUME ScanConstants == Search!SearchConstants /\ Series!SeriesConstants /\ Words!WordConstants

None == "none"

NoWindows == lagStart = None /\ state = None /\ result = None
NoSearch  == /\ args = None /\ profiles = None /\ name = None /\ start = None
             /\ routines = None /\ files = None
NoPasses  == size = None /\ distances = None /\ most = None /\ out = None /\ maxout = None
NoSeries  == prog = None /\ NoPasses
NoCounts  == lagCt = None /\ leadCt = None /\ got = None /\ left = None /\ dist = None

ScansInit ==
    \/ tool = "windows" /\ Init /\ i = None /\ series = None /\ NoSearch /\ NoSeries
    \/ tool = "search" /\ Search!Init /\ lagCt = None /\ series = None /\ NoWindows /\ NoSeries
    \/ /\ tool = "series" /\ Series!Init
       /\ got = None /\ left = None /\ dist = None /\ series = None /\ NoWindows /\ NoSearch
    \/ tool = "words" /\ Words!Init /\ NoCounts /\ NoWindows /\ NoSearch /\ NoPasses

InWindows(A) == tool = "windows" /\ A /\ UNCHANGED <<tool, i, ofSearch, ofSeries, series>>
InSearch(A)  == tool = "search" /\ A /\ UNCHANGED <<tool, lagCt, ofWindows, ofSeries, series>>
InSeries(A)  == tool = "series" /\ A /\ UNCHANGED <<tool, got, left, dist, ofWindows, ofSearch, series>>
InWords(A)   == /\ tool = "words" /\ A
                /\ UNCHANGED <<tool, lagCt, leadCt, got, left, dist, ofWindows, ofSearch,
                               size, distances, most, out, maxout>>

ScansNext == InWindows(Next) \/ InSearch(Search!Next) \/ InSeries(Series!Next) \/ InWords(Words!Next)

ScansSpec == ScansInit /\ [][ScansNext]_allVars

----------------------------------------------------------------------------
(* profile_search.go:104-180: the file of a profile holds the search for   *)
(* that profile alone, however many were searched for before it.           *)
SearchedAsAlone == tool = "search" => Search!SearchedAsAlone

(* tsb_comp.go:99-132 and basecomp.go:69: in every row stands the distance *)
(* of its own windows or words, whatever was counted before.               *)
SeriesCompareTheirWindows == tool = "series" => Series!SeriesCompareTheirWindows

(* saxutil.go:170-201 and get_sax_words of the tools: windows of one shape *)
(* have one word, letters follow the samples, and words get shorter at the *)
(* end of a series as the counts of windows rely on.                       *)
WordsShowTheShape ==
    tool = "words" =>
        /\ Words!AlikeSoundAlike /\ Words!LettersFollowSamples /\ Words!WordsNeverGrow
        /\ prog = "saxutil" =>
              \A k \in DOMAIN words : Len(words[k]) = WordLength(k - 1, Len(series), Fwin, Symbol)
============================================================================
