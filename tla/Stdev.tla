------------------------------- MODULE Stdev -------------------------------
(***************************************************************************)
(* The scripts of the stdev front end, put side by side: each behaviour is *)
(* of the pages that are asked for (PageCache) or of the landing page      *)
(* (LandingPage).  "script" says which it is, and the variables that only  *)
(* the other one has stay None.                                            *)
(***************************************************************************)
EXTENDS PageCache

CONSTANTS Hosts, Props, Tables, Values, Text, MaxStored, Window, Bound  \* of the landing page

VARIABLES script, table, stored, pc, todo, propData, anomalies, page

Landing == INSTANCE LandingPage

ASSUME StdevConstants == Landing!LandingConstants

ofPages   == <<now, db, png, html, hit, setup>>
ofLanding == <<table, stored, pc, todo, propData, anomalies, page>>
allVars   == <<script, rrd, ofPages, ofLanding>>

Lands  == script = "landing"
Serves == script = "pages"

None == "none"

(* While the landing page is made no other page has been asked for.        *)
StdevInit ==
    \/ /\ Lands /\ Landing!Init /\ html = [p \in Page |-> NoPage]
       /\ now = None /\ db = None /\ png = None /\ hit = None /\ setup = None
    \/ /\ Serves /\ Init
       /\ table = None /\ stored = None /\ pc = None /\ todo = None /\ propData = None
       /\ anomalies = None /\ page = None

StdevNext ==
    \/ Lands /\ Landing!Next /\ UNCHANGED <<script, ofPages>>
    \/ Serves /\ Next /\ UNCHANGED <<script, ofLanding>>

StdevSpec == StdevInit /\ [][StdevNext]_allVars

----------------------------------------------------------------------------
(* stdev.py:72: a host with no more samples than the square of the bound   *)
(* is never odd, whatever they are.                                        *)
FewOddNever == Lands => Landing!FewAreNeverOdd

(* landing.py:31: what is said of a host and a property was found in its   *)
(* own samples, and no host and property stands on the page twice.         *)
AnomaliesOfTheirOwn == Lands => Landing!AnomaliesAreTheirOwn

(* landing.py:27: a database holds the samples of one property and of the  *)
(* host, in the order of their times.                                      *)
RrdOfOneSeries == Lands => Landing!RrdIsOneSeries

(* host.py:38: where requests are served one at a time, what a request     *)
(* draws shows a sample of every time it fetched one of for the file, but  *)
(* for what has become older than rrd_age.                                 *)
AloneGraphsShowTheirUpdate == [][Serves => AloneDrawsWhatItFetched]_allVars

(* The last lines of the three scripts: an answer is there, and was not    *)
(* older than max_age when its request came in.                            *)
AnswersAreFresh == [][Serves => FreshAnswer]_allVars
=============================================================================
