---------------------------- MODULE StdevProofs ----------------------------
(***************************************************************************)
(* Proofs about the stdev scripts.  For any hosts, properties and          *)
(* requests, any number of which are served at the same time, pages and    *)
(* answers are as fresh as needs_regen promises, though no file is locked; *)
(* and where requests are served one at a time, a graph shows all that was *)
(* fetched for it.  For any table and any samples stored meanwhile, what   *)
(* the landing page says of a host was found in samples of its own, once,  *)
(* and never in so few that none of them could be odd.                     *)
(***************************************************************************)
EXTENDS Stdev, Sequences, FiniteSetTheorems, WellFoundedInduction, TLAPS

Steps   == {"idle", "query", "next", "create", "update", "page", "write", "send", "failed"}
Working == {"next", "create", "update", "page", "write"}
Records == File \X Nat \X Nat
Database == [made: BOOLEAN, last: Int, recs: SUBSET Records]

Process == [pc: Steps, since: Nat, got: SUBSET Records, rows: SUBSET Records, todo: SUBSET File,
            cur: File \cup {<<>>}, shows: SUBSET File]

Typed ==
    /\ now \in Nat /\ db \subseteq Records /\ IsFiniteSet(db)
    /\ rrd \in [File -> Database]
    /\ png \in [File -> [Graph -> [mtime: Int, recs: SUBSET Records]]]
    /\ html \in [Page -> [mtime: Int, shows: SUBSET (File \X Nat)]]
    /\ hit \in [Hits -> Process]

(* Nothing is of a later time. *)
Past == /\ \A f \in File, g \in Graph : png[f][g].mtime <= now
        /\ \A p \in Page : html[p].mtime <= now
        /\ \A r \in Hits : hit[r].since <= now

(* What is in a database or a graph is of its file.                        *)
Own == \A f \in File : /\ \A s \in rrd[f].recs : s[1] = f
                       /\ \A g \in Graph : \A s \in png[f][g].recs : s[1] = f

(* The graphs of a file on a page, and that none of them is older than it  *)
(* may be at time t.                                                       *)
Shown(p)       == IF p[1] = "hostprop" THEN Graph ELSE {"overview"}
Fresh(f, p, t) == \A g \in Shown(p) : Exists(png[f][g]) /\ png[f][g].mtime >= t - MaxAge

(* The files that a request has been through.  hostprop.py may also come   *)
(* to its page without a query, if all graphs of it are fresh.             *)
Made(r) == IF Alone(r) /\ hit[r].pc \in {"page", "write"} THEN About(PageOf(r))
           ELSE (hit[r].shows \ hit[r].todo)
                  \ (IF hit[r].pc \in {"create", "update"} THEN {hit[r].cur} ELSE {})

(* A request at work has a part of the files it found still before it; who *)
(* asked for one host and property has found that file.                    *)
AtWork(r) ==
    hit[r].pc \in Working =>
       /\ hit[r].todo \subseteq hit[r].shows /\ hit[r].shows \subseteq About(PageOf(r))
       /\ hit[r].pc \in {"create", "update"} => hit[r].cur \in hit[r].shows
       /\ hit[r].pc \in {"page", "write"} => hit[r].todo = {}
       /\ Alone(r) /\ hit[r].pc \in {"next", "create", "update"} => hit[r].shows # {}

(* What a request has been through is fresh for it.                        *)
Ready(r) ==
    hit[r].pc \in Working => \A f \in Made(r) : Fresh(f, PageOf(r), hit[r].since)

AnswerReady(r) ==
    hit[r].pc = "send" => /\ Exists(html[PageOf(r)])
                          /\ html[PageOf(r)].mtime >= hit[r].since - MaxAge

PagesFresh == \A p \in Page : \A shown \in html[p].shows : Fresh(shown[1], p, shown[2])

CacheInv == /\ Typed /\ Past /\ Own /\ PagesFresh
            /\ \A r \in Hits : AtWork(r) /\ Ready(r) /\ AnswerReady(r)

----------------------------------------------------------------------------
LEMMA Numbers == MaxAge \in Nat /\ RrdAge \in Nat
  BY PageAssumption

LEMMA Places ==
    ASSUME NEW r \in Hits
    PROVE  /\ PageOf(r) \in Page /\ About(PageOf(r)) \subseteq File
           /\ PageOf(r)[1] = r[1]
           /\ Alone(r) => Shown(PageOf(r)) = Graph /\ \A f, g \in About(PageOf(r)) : f = g
           /\ ~Alone(r) => Shown(PageOf(r)) = {"overview"}
<1>1. PageOf(r) \in Page /\ PageOf(r)[1] = r[1] /\ PageOf(r)[2] = r[2] /\ PageOf(r)[3] = r[3]
  BY DEF PageOf, Page
<1>2. About(PageOf(r)) \subseteq File
  BY DEF About
<1>3. ASSUME Alone(r), NEW f \in About(PageOf(r)), NEW g \in About(PageOf(r)) PROVE f = g
  <2>1. f[1] = r[2] /\ g[1] = r[2] /\ f[2] = r[3] /\ g[2] = r[3] /\ f \in File /\ g \in File
    BY <1>1, <1>3 DEF About, Alone
  <2>. QED  BY <2>1 DEF File
<1>4. /\ Alone(r) => Shown(PageOf(r)) = Graph
      /\ ~Alone(r) => Shown(PageOf(r)) = {"overview"}
  BY <1>1 DEF Shown, Alone
<1>. QED  BY <1>1, <1>2, <1>3, <1>4

(* The fields of a graph, a page and a process. *)
LEMMA Fields ==
    ASSUME Typed
    PROVE  /\ \A f \in File, g \in Graph : png[f][g].mtime \in Int
           /\ \A p \in Page : html[p].mtime \in Int /\ html[p].shows \subseteq File \X Nat
           /\ \A r \in Hits : /\ hit[r] \in Process /\ hit[r].since \in Nat /\ hit[r].todo \subseteq File
                              /\ hit[r].shows \subseteq File /\ hit[r].rows \subseteq Records
           /\ now \in Nat
<1>1. ASSUME NEW r \in Hits
      PROVE  /\ hit[r] \in Process /\ hit[r].since \in Nat /\ hit[r].todo \subseteq File
             /\ hit[r].shows \subseteq File /\ hit[r].rows \subseteq Records
  <2>1. hit[r] \in Process
    BY DEF Typed
  <2>. QED  BY <2>1 DEF Process
<1>2. ASSUME NEW f \in File, NEW g \in Graph PROVE png[f][g].mtime \in Int
  BY DEF Typed
<1>3. ASSUME NEW p \in Page PROVE html[p].mtime \in Int /\ html[p].shows \subseteq File \X Nat
  BY DEF Typed
<1>. QED  BY <1>1, <1>2, <1>3 DEF Typed

(* What is fresh at some time is so for earlier ones, and remains so while *)
(* graphs only get younger.                                                *)
Later == \A f \in File, g \in Graph : png'[f][g].mtime >= png[f][g].mtime

NextFresh(f, p, t) == \A g \in Shown(p) : png'[f][g].mtime >= 0 /\ png'[f][g].mtime >= t - MaxAge

LEMMA ShownGraphs == \A p : Shown(p) \subseteq Graph /\ "overview" \in Shown(p)
  BY DEF Shown, Graph

LEMMA FreshBefore ==
    ASSUME Typed', NEW f \in File, NEW p, NEW t \in Nat, NEW u \in Nat, u <= t, NextFresh(f, p, t)
    PROVE  NextFresh(f, p, u)
<1> SUFFICES ASSUME NEW g \in Shown(p) PROVE png'[f][g].mtime >= u - MaxAge
  BY DEF NextFresh
<1>1. g \in Graph /\ png'[f][g].mtime >= t - MaxAge
  BY ShownGraphs DEF NextFresh
<1>2. png'[f][g].mtime \in Int
  BY <1>1 DEF Typed
<1>. QED  BY <1>1, <1>2, Numbers

LEMMA FreshStays ==
    ASSUME Typed, Typed', Later, NEW f \in File, NEW p, NEW t \in Nat, Fresh(f, p, t)
    PROVE  NextFresh(f, p, t)
<1> SUFFICES ASSUME NEW g \in Shown(p) PROVE png'[f][g].mtime >= 0 /\ png'[f][g].mtime >= t - MaxAge
  BY DEF NextFresh
<1>1. g \in Graph
  BY ShownGraphs
<1>2. /\ png[f][g].mtime \in Int /\ png'[f][g].mtime \in Int /\ png'[f][g].mtime >= png[f][g].mtime
      /\ png[f][g].mtime >= 0 /\ png[f][g].mtime >= t - MaxAge
  BY <1>1, Fields DEF Fresh, Later, Typed, Exists
<1>. QED  BY <1>2, Numbers

LEMMA MadeFiles == ASSUME Typed, NEW r \in Hits PROVE Made(r) \subseteq File
  BY Fields, Places DEF Made

LEMMA MadeFilesNext == ASSUME Typed', NEW r \in Hits PROVE Made(r)' \subseteq File
<1>1. hit'[r] \in Process /\ hit'[r].shows \subseteq File
  BY DEF Typed, Process
<1>2. Made(r)' \subseteq About(PageOf(r)) \cup hit'[r].shows
  BY DEF Made, PageOf, About
<1>. QED  BY <1>1, <1>2, Places

----------------------------------------------------------------------------
(* One process moves: what it adds is fresh now, and graphs get no older.  *)
LEMMA OneMoves ==
    ASSUME CacheInv, Typed', Past', Later, now' = now,
           NEW r \in Hits, NEW w \in Process, hit' = [hit EXCEPT ![r] = w],
           AtWork(r)',
           w.pc \in Working => \A f \in Made(r)' :
              NextFresh(f, PageOf(r), now) \/ (hit[r].pc \in Working /\ f \in Made(r) /\ w.since = hit[r].since)
    PROVE  \A q \in Hits : AtWork(q)' /\ Ready(q)'
<1>1. Typed /\ Past /\ \A q \in Hits : AtWork(q) /\ Ready(q)
  BY DEF CacheInv
<1>2. hit'[r] = w /\ \A q \in Hits \ {r} : hit'[q] = hit[q]
  BY <1>1 DEF Typed
<1>3. \A q \in Hits \ {r} : Made(q)' = Made(q) /\ AtWork(q)'
  BY <1>1, <1>2 DEF Made, AtWork
<1>4. \A q \in Hits : Made(q) \subseteq File /\ Made(q)' \subseteq File
  BY <1>1, MadeFiles, MadeFilesNext
<1>5. \A q \in Hits : hit[q].since \in Nat /\ hit'[q].since \in Nat /\ hit'[q].since <= now /\ now \in Nat
  BY <1>1, Fields DEF Past, Typed, Process
<1>6. ASSUME NEW q \in Hits, hit'[q].pc \in Working, NEW f \in Made(q)'
      PROVE  NextFresh(f, PageOf(q), hit'[q].since)
  <2>1. CASE NextFresh(f, PageOf(q), now)
    BY <1>4, <1>5, <2>1, FreshBefore
  <2>2. CASE hit[q].pc \in Working /\ f \in Made(q) /\ hit'[q].since = hit[q].since
    <3>1. Fresh(f, PageOf(q), hit[q].since)
      BY <1>1, <2>2 DEF Ready
    <3>. QED  BY <1>1, <1>4, <1>5, <2>2, <3>1, FreshStays
  <2>. QED  BY <1>2, <1>3, <1>6, <2>1, <2>2
<1>7. \A q \in Hits : Ready(q)'
  BY <1>6 DEF Ready, NextFresh, Fresh, Exists, PageOf
<1>. QED  BY <1>3, <1>7

(* The other parts, where graphs get no older and a page that is changed   *)
(* is of now.                                                              *)
LEMMA OthersKept ==
    ASSUME CacheInv, Typed', Later, now' = now,
           \A f \in File, g \in Graph : png'[f][g].mtime \in {png[f][g].mtime, now},
           \A p \in Page : html'[p].mtime \in {html[p].mtime, now},
           NEW r \in Hits, NEW w \in Process, w.since <= now, hit' = [hit EXCEPT ![r] = w],
           w.pc = "send" => html'[PageOf(r)].mtime >= 0 /\ html'[PageOf(r)].mtime >= w.since - MaxAge
    PROVE  Past' /\ \A q \in Hits : AnswerReady(q)'
<1>1. Typed /\ Past /\ \A q \in Hits : AnswerReady(q)
  BY DEF CacheInv
<1>2. hit'[r] = w /\ \A q \in Hits \ {r} : hit'[q] = hit[q]
  BY <1>1 DEF Typed
<1>3. Past'
  <2>1. \A f \in File, g \in Graph : png'[f][g].mtime <= now
    BY <1>1, Fields DEF Past
  <2>2. \A p \in Page : html'[p].mtime <= now
    BY <1>1, Fields DEF Past
  <2>3. \A q \in Hits : hit'[q].since <= now
    BY <1>1, <1>2 DEF Past
  <2>. QED  BY <2>1, <2>2, <2>3 DEF Past
<1>4. ASSUME NEW q \in Hits, hit'[q].pc = "send"
      PROVE  html'[PageOf(q)].mtime >= 0 /\ html'[PageOf(q)].mtime >= hit'[q].since - MaxAge
  <2>1. CASE q = r
    BY <1>2, <1>4, <2>1
  <2>2. CASE q # r
    <3>1. /\ html[PageOf(q)].mtime >= 0 /\ html[PageOf(q)].mtime >= hit[q].since - MaxAge
          /\ hit'[q] = hit[q]
      BY <1>1, <1>2, <1>4, <2>2 DEF AnswerReady, Exists
    <3>2. /\ html'[PageOf(q)].mtime \in {html[PageOf(q)].mtime, now}
          /\ hit[q].since \in Nat /\ hit[q].since <= now /\ now \in Nat
      BY <1>1, Fields, Places DEF Past
    <3>. QED  BY <3>1, <3>2, Numbers
  <2>. QED  BY <2>1, <2>2
<1>5. \A q \in Hits : AnswerReady(q)'
  BY <1>4 DEF AnswerReady, Exists, PageOf
<1>. QED  BY <1>3, <1>5

(* One process moves and leaves the files alone.                           *)
LEMMA HitMoves ==
    ASSUME CacheInv, UNCHANGED <<now, db, rrd, png, html>>,
           NEW r \in Hits, NEW w \in Process, w.since <= now, hit' = [hit EXCEPT ![r] = w],
           w.pc = "send" => Exists(html[PageOf(r)]) /\ html[PageOf(r)].mtime >= w.since - MaxAge,
           AtWork(r)',
           w.pc \in Working => \A f \in Made(r)' :
              Fresh(f, PageOf(r), now) \/ (hit[r].pc \in Working /\ f \in Made(r) /\ w.since = hit[r].since)
    PROVE  CacheInv'
<1>1. Typed'
  BY DEF CacheInv, Typed
<1>2. Later
  BY Fields DEF CacheInv, Later
<1>3. \A f, p, t : Fresh(f, p, t) <=> NextFresh(f, p, t)
  BY DEF Fresh, NextFresh, Exists
<1>4. Past' /\ \A q \in Hits : AnswerReady(q)'
  BY <1>1, <1>2, OthersKept DEF Exists
<1>5. Own' /\ PagesFresh'
  BY DEF CacheInv, Own, PagesFresh, Fresh, Exists
<1>6. \A q \in Hits : AtWork(q)' /\ Ready(q)'
  BY <1>1, <1>2, <1>3, <1>4, OneMoves
<1>. QED  BY <1>1, <1>4, <1>5, <1>6 DEF CacheInv

LEMMA TickKeeps == CacheInv /\ Tick => CacheInv'
<1> SUFFICES ASSUME CacheInv, Tick PROVE CacheInv'
  OBVIOUS
<1>1. UNCHANGED <<db, rrd, png, html, hit, setup>> /\ now' = now + 1
  BY DEF Tick
<1>2. Typed' /\ Own' /\ PagesFresh'
  BY <1>1 DEF CacheInv, Typed, Own, PagesFresh, Fresh, Exists
<1>3. Past'
  <2>1. /\ \A f \in File, g \in Graph : png'[f][g].mtime \in Int /\ png'[f][g].mtime <= now
        /\ \A p \in Page : /\ html'[p].mtime \in Int /\ html'[p].mtime <= now
        /\ \A r \in Hits : hit'[r].since \in Nat /\ hit'[r].since <= now
        /\ now \in Nat /\ now' = now + 1
    BY <1>1, Fields DEF CacheInv, Past
  <2>. QED  BY <2>1 DEF Past
<1>4. \A r \in Hits : AtWork(r)' /\ Ready(r)' /\ AnswerReady(r)'
  BY <1>1 DEF CacheInv, AtWork, Ready, AnswerReady, Made, Fresh, Exists
<1>. QED  BY <1>2, <1>3, <1>4 DEF CacheInv

(* The sample that is stored. *)
LEMMA Inserted ==
    ASSUME Typed, NEW f \in File, Insert(f)
    PROVE  /\ UNCHANGED <<now, rrd, png, html, hit, setup>> /\ db' \subseteq Records /\ IsFiniteSet(db')
           /\ \E k \in Nat : db' = db \cup {<<f, now, k>>}
<1> DEFINE n == Cardinality({s \in db : s[1] = f /\ s[2] = now})
<1>1. UNCHANGED <<now, rrd, png, html, hit, setup>> /\ db' = db \cup {<<f, now, n>>}
  BY DEF Insert
<1>2. n \in Nat
  BY FS_Subset, FS_CardinalityType DEF Typed
<1> HIDE DEF n
<1>3. now \in Nat /\ db \subseteq Records /\ IsFiniteSet(db)
  BY DEF Typed
<1>4. <<f, now, n>> \in Records
  BY <1>2, <1>3 DEF Records
<1>5. IsFiniteSet(db')
  BY <1>1, <1>3, FS_AddElement
<1>. QED  BY <1>1, <1>2, <1>3, <1>4, <1>5

LEMMA InsertKeeps == ASSUME NEW f \in File PROVE CacheInv /\ Insert(f) => CacheInv'
<1> SUFFICES ASSUME CacheInv, Insert(f) PROVE CacheInv'
  OBVIOUS
<1>1. /\ UNCHANGED <<now, rrd, png, html, hit, setup>> /\ db' \subseteq Records /\ IsFiniteSet(db')
  BY Inserted DEF CacheInv
<1>2. Typed' /\ Past' /\ Own' /\ PagesFresh'
  BY <1>1 DEF CacheInv, Typed, Past, Own, PagesFresh, Fresh, Exists
<1>3. \A r \in Hits : AtWork(r)' /\ Ready(r)' /\ AnswerReady(r)'
  BY <1>1 DEF CacheInv, AtWork, Ready, AnswerReady, Made, Fresh, Exists
<1>. QED  BY <1>2, <1>3 DEF CacheInv

(* What is not older than max_age is fresh for who comes in now.           *)
LEMMA YoungIsFresh ==
    ASSUME NEW file, file.mtime \in Int, now \in Nat
    PROVE  ~NeedsRegen(file) <=> Exists(file) /\ file.mtime >= now - MaxAge
  BY Numbers DEF NeedsRegen, Exists

LEMMA IdleProcess == Idle \in Process /\ Idle.shows = {} /\ Idle.todo = {} /\ Idle.pc = "idle" /\ Idle.since = 0
<1>1. File \cup {<<>>} # {} /\ <<>> \in File \cup {<<>>}
  OBVIOUS
<1>. QED  BY <1>1 DEF Idle, Process, Steps

LEMMA StartKeeps == ASSUME NEW r \in Hits PROVE CacheInv /\ Start(r) => CacheInv'
<1> SUFFICES ASSUME CacheInv, Start(r) PROVE CacheInv'
  OBVIOUS
<1> DEFINE old == IF Alone(r) THEN \E f \in About(PageOf(r)), g \in Graph : NeedsRegen(png[f][g])
                  ELSE NeedsRegen(html[PageOf(r)])
           w   == [Idle EXCEPT !.since = now,
                      !.pc = IF old THEN "query" ELSE IF Alone(r) THEN "page" ELSE "send"]
<1>1. /\ hit' = [hit EXCEPT ![r] = w] /\ UNCHANGED <<now, db, rrd, png, html>>
      /\ hit[r].pc = "idle"
  BY DEF Start, At
<1>2. now \in Nat /\ Typed
  BY Fields DEF CacheInv
<1>3. /\ w.since = now /\ w.shows = {} /\ w.todo = {}
      /\ w.pc = IF old THEN "query" ELSE IF Alone(r) THEN "page" ELSE "send"
  BY IdleProcess DEF Idle
<1>4. w \in Process
  BY IdleProcess, <1>2 DEF Idle, Process, Steps
<1>5. hit'[r] = w
  BY <1>1, <1>2 DEF Typed
<1>6. w.pc = "send" => Exists(html[PageOf(r)]) /\ html[PageOf(r)].mtime >= w.since - MaxAge
  <2>1. html[PageOf(r)].mtime \in Int
    BY <1>2, Fields, Places
  <2>. QED  BY <1>2, <1>3, <2>1, YoungIsFresh
<1>7. AtWork(r)'
  BY <1>3, <1>5 DEF AtWork, Working
<1>8. ASSUME w.pc \in Working, NEW f \in About(PageOf(r))
      PROVE  Fresh(f, PageOf(r), now)
  <2>1. Alone(r) /\ ~old
    BY <1>3, <1>8 DEF Working
  <2>2. \A g \in Graph : ~NeedsRegen(png[f][g]) /\ png[f][g].mtime \in Int
    BY <1>2, <1>8, <2>1, Fields, Places
  <2>. QED  BY <1>2, <2>2, YoungIsFresh, ShownGraphs DEF Fresh
<1>9. w.pc \in Working => Made(r)' \subseteq About(PageOf(r))
  BY <1>3, <1>5 DEF Made, Working, PageOf, About, Alone
<1> HIDE DEF w, old
<1>10. w.since <= now /\ hit' = [hit EXCEPT ![r] = w] /\ UNCHANGED <<now, db, rrd, png, html>>
  BY <1>1, <1>2, <1>3
<1>11. w.pc \in Working => \A f \in Made(r)' : Fresh(f, PageOf(r), now)
  BY <1>8, <1>9
<1>. QED  BY <1>4, <1>6, <1>7, <1>10, <1>11, HitMoves

LEMMA QueryKeeps == ASSUME NEW r \in Hits PROVE CacheInv /\ Query(r) => CacheInv'
<1> SUFFICES ASSUME CacheInv, Query(r) PROVE CacheInv'
  OBVIOUS
<1> DEFINE rows == {s \in db : s[1] \in About(PageOf(r)) /\ s[2] > now - FetchInt}
           with == {s[1] : s \in rows}
           w == [hit[r] EXCEPT !.got = rows, !.rows = rows, !.todo = with, !.shows = with,
                               !.pc = IF Alone(r) /\ with = {} THEN "failed" ELSE "next"]
<1>1. /\ hit' = [hit EXCEPT ![r] = w] /\ UNCHANGED <<now, db, rrd, png, html>>
      /\ hit[r].pc = "query"
  BY DEF Query, At
<1>2. Typed /\ Past /\ hit[r] \in Process /\ rows \subseteq Records
  BY Fields DEF CacheInv, Typed
<1>3. with \subseteq About(PageOf(r)) /\ with \subseteq File
  BY Places
<1>4. w \in Process
  BY <1>2, <1>3 DEF Process, Steps
<1>5. /\ w.shows = with /\ w.todo = with /\ w.since = hit[r].since
      /\ w.pc = IF Alone(r) /\ with = {} THEN "failed" ELSE "next"
  BY <1>2 DEF Process
<1>6. hit'[r] = w
  BY <1>1, <1>2 DEF Typed
<1> HIDE DEF with, rows, w
<1>7. AtWork(r)'
  BY <1>3, <1>5, <1>6 DEF AtWork, Working, Alone, PageOf, About
<1>8. Made(r)' = {} /\ w.pc # "send"
  BY <1>5, <1>6 DEF Made
<1>9. w.since <= now
  BY <1>2, <1>5 DEF Past
<1>. QED  BY <1>1, <1>4, <1>7, <1>8, <1>9, HitMoves

LEMMA LookKeeps == ASSUME NEW r \in Hits, NEW f \in File PROVE CacheInv /\ Look(r, f) => CacheInv'
<1> SUFFICES ASSUME CacheInv, Look(r, f) PROVE CacheInv'
  OBVIOUS
<1> DEFINE w == [hit[r] EXCEPT !.cur = f, !.todo = @ \ {f},
                    !.pc = IF setup.sameDir /\ rrd[f].made THEN "update" ELSE "create"]
<1>1. /\ hit' = [hit EXCEPT ![r] = w] /\ UNCHANGED <<now, db, rrd, png, html>>
      /\ hit[r].pc = "next" /\ f \in hit[r].todo
  BY DEF Look, At
<1>2. Typed /\ Past /\ hit[r] \in Process
  BY Fields DEF CacheInv
<1>3. w \in Process
  BY <1>2 DEF Process, Steps
<1>4. /\ w.shows = hit[r].shows /\ w.todo = hit[r].todo \ {f} /\ w.since = hit[r].since /\ w.cur = f
      /\ w.pc \in {"create", "update"}
  BY <1>2 DEF Process
<1>5. hit'[r] = w
  BY <1>1, <1>2 DEF Typed
<1>6. AtWork(r)'
  BY <1>1, <1>4, <1>5 DEF CacheInv, AtWork, Working, Alone, PageOf, About
<1>7. \A g \in Made(r)' : g \in Made(r)
  BY <1>1, <1>4, <1>5 DEF Made
<1>8. hit[r].pc \in Working /\ w.since <= now /\ w.pc # "send"
  BY <1>1, <1>2, <1>4 DEF Working, Past
<1> HIDE DEF w
<1>. QED  BY <1>1, <1>3, <1>4, <1>6, <1>7, <1>8, HitMoves

LEMMA DrawnKeeps == ASSUME NEW r \in Hits PROVE CacheInv /\ Drawn(r) => CacheInv'
<1> SUFFICES ASSUME CacheInv, Drawn(r) PROVE CacheInv'
  OBVIOUS
<1> DEFINE w == [hit[r] EXCEPT !.pc = "page"]
<1>1. /\ hit' = [hit EXCEPT ![r] = w] /\ UNCHANGED <<now, db, rrd, png, html>>
      /\ hit[r].pc = "next" /\ hit[r].todo = {}
  BY DEF Drawn, Goto, At
<1>2. Typed /\ Past /\ hit[r] \in Process /\ AtWork(r)
  BY Fields DEF CacheInv
<1>3. w \in Process
  BY <1>2 DEF Process, Steps
<1>4. /\ w.shows = hit[r].shows /\ w.todo = {} /\ w.since = hit[r].since /\ w.pc = "page"
  BY <1>1, <1>2 DEF Process
<1>5. hit'[r] = w
  BY <1>1, <1>2 DEF Typed
<1>6. AtWork(r)'
  BY <1>1, <1>2, <1>4, <1>5 DEF AtWork, Working, Alone, PageOf, About
<1>7. Made(r)' \subseteq Made(r)
  <2>1. CASE Alone(r)
    <3>0. hit[r].shows # {} /\ hit[r].shows \subseteq About(PageOf(r))
      BY <1>1, <1>2, <2>1 DEF AtWork, Working
    <3>1. hit[r].shows = About(PageOf(r))
      <4>1. \A f, g \in About(PageOf(r)) : f = g
        BY <2>1, Places
      <4>. QED  BY <3>0, <4>1
    <3>. QED  BY <1>1, <1>4, <1>5, <2>1, <3>1 DEF Made, Alone, PageOf, About
  <2>2. CASE ~Alone(r)
    BY <1>1, <1>4, <1>5, <2>2 DEF Made, Alone
  <2>. QED  BY <2>1, <2>2
<1>8. hit[r].pc \in Working /\ w.since <= now /\ w.pc # "send"
  BY <1>1, <1>2, <1>4 DEF Working, Past
<1> HIDE DEF w
<1>. QED  BY <1>1, <1>3, <1>4, <1>6, <1>7, <1>8, HitMoves

LEMMA KeepPageKeeps == ASSUME NEW r \in Hits PROVE CacheInv /\ KeepPage(r) => CacheInv'
<1> SUFFICES ASSUME CacheInv, KeepPage(r) PROVE CacheInv'
  OBVIOUS
<1> DEFINE w == [hit[r] EXCEPT !.pc = "send"]
<1>1. /\ hit' = [hit EXCEPT ![r] = w] /\ UNCHANGED <<now, db, rrd, png, html>>
      /\ hit[r].pc = "page" /\ ~NeedsRegen(html[PageOf(r)])
  BY DEF KeepPage, Goto, At
<1>2. Typed /\ Past /\ hit[r] \in Process
  BY Fields DEF CacheInv
<1>3. w \in Process
  BY <1>2 DEF Process, Steps
<1>4. w.since = hit[r].since /\ w.pc = "send" /\ hit'[r] = w
  BY <1>1, <1>2 DEF Process, Typed
<1>5. Exists(html[PageOf(r)]) /\ html[PageOf(r)].mtime >= w.since - MaxAge /\ w.since <= now
  <2>1. /\ html[PageOf(r)].mtime \in Int /\ now \in Nat /\ w.since \in Nat /\ w.since <= now
    BY <1>2, <1>4, Fields, Places DEF Past
  <2>2. Exists(html[PageOf(r)]) /\ html[PageOf(r)].mtime >= now - MaxAge
    BY <1>1, <2>1, YoungIsFresh
  <2>. QED  BY <2>1, <2>2, Numbers
<1>6. AtWork(r)' /\ w.pc \notin Working
  BY <1>4 DEF AtWork, Working
<1> HIDE DEF w
<1>. QED  BY <1>1, <1>3, <1>5, <1>6, HitMoves

(* A process that is done is as one that has not come in.                  *)
LEMMA GoneKeeps ==
    ASSUME CacheInv, NEW r \in Hits, hit' = [hit EXCEPT ![r] = Idle],
           UNCHANGED <<now, db, rrd, png, html>>
    PROVE  CacheInv'
<1>1. Typed /\ now \in Nat
  BY Fields DEF CacheInv
<1>2. Idle.since <= now /\ hit'[r] = Idle
  BY <1>1, IdleProcess DEF Typed
<1>3. AtWork(r)' /\ Idle.pc \notin Working /\ Idle.pc # "send"
  BY <1>2, IdleProcess DEF AtWork, Working
<1>. QED  BY <1>2, <1>3, IdleProcess, HitMoves

----------------------------------------------------------------------------
(* Steps that change the databases only.                                   *)
LEMMA RrdMoves ==
    ASSUME CacheInv, UNCHANGED <<now, db, png, html>>, Own',
           rrd' \in [File -> Database],
           NEW r \in Hits, NEW w \in Process, hit' = [hit EXCEPT ![r] = w],
           hit[r].pc \in {"create", "update"}, w.pc = "update", w.cur = hit[r].cur,
           w.since = hit[r].since, w.todo = hit[r].todo, w.shows = hit[r].shows
    PROVE  CacheInv'
<1>1. Typed /\ Past /\ AtWork(r)
  BY DEF CacheInv
<1>2. Typed' /\ hit'[r] = w
  BY <1>1 DEF Typed
<1>3. Later
  BY <1>1, Fields DEF Later
<1>4. AtWork(r)'
  BY <1>1, <1>2 DEF AtWork, Working
<1>5. \A f \in Made(r)' : f \in Made(r)
  BY <1>2 DEF Made
<1>6. w.since <= now /\ w.pc # "send" /\ hit[r].pc \in Working
  BY <1>1 DEF Past, Working
<1>7. Past' /\ \A q \in Hits : AnswerReady(q)'
  BY <1>2, <1>3, <1>6, OthersKept
<1>8. \A q \in Hits : AtWork(q)' /\ Ready(q)'
  BY <1>2, <1>3, <1>4, <1>5, <1>6, <1>7, OneMoves
<1>9. PagesFresh'
  BY DEF CacheInv, PagesFresh, Fresh, Exists
<1>. QED  BY <1>2, <1>7, <1>8, <1>9 DEF CacheInv

LEMMA CreateKeeps == ASSUME NEW r \in Hits PROVE CacheInv /\ Create(r) => CacheInv'
<1> SUFFICES ASSUME CacheInv, Create(r) PROVE CacheInv'
  OBVIOUS
<1> DEFINE w == [hit[r] EXCEPT !.pc = "update"]
           empty == [made |-> TRUE, last |-> now - RrdAge, recs |-> {}]
<1>1. /\ hit' = [hit EXCEPT ![r] = w] /\ UNCHANGED <<now, db, png, html>>
      /\ hit[r].pc = "create" /\ rrd' = [rrd EXCEPT ![hit[r].cur] = empty]
  BY DEF Create, Goto, At
<1>2. Typed /\ Own /\ hit[r] \in Process /\ now \in Nat
  BY Fields DEF CacheInv
<1>3. /\ w \in Process /\ w.pc = "update" /\ w.cur = hit[r].cur
      /\ w.since = hit[r].since /\ w.todo = hit[r].todo /\ w.shows = hit[r].shows
  BY <1>2 DEF Process, Steps
<1>4. empty \in Database /\ empty.recs = {}
  BY <1>2, Numbers DEF Database
<1> HIDE DEF empty, w
<1>5. rrd' \in [File -> Database]
  BY <1>1, <1>2, <1>4 DEF Typed
<1>6. Own'
  BY <1>1, <1>2, <1>4 DEF Own, Typed
<1>. QED  BY <1>1, <1>3, <1>5, <1>6, RrdMoves

(* A record is taken or refused. *)
LEMMA Recorded ==
    ASSUME NEW old \in Database, NEW s \in Records, NEW new,
           new = IF old.last < s[2] THEN [made |-> TRUE, last |-> s[2], recs |-> old.recs \cup {s}] ELSE old
    PROVE  /\ new \in Database /\ (old.made => new.made)
           /\ IF old.last < s[2] THEN new.last = s[2] /\ new.recs = old.recs \cup {s} ELSE new = old
<1>1. s[2] \in Int
  BY DEF Records
<1>. QED  BY <1>1 DEF Database

LEMMA UpdateKeeps == ASSUME NEW r \in Hits PROVE CacheInv /\ Update(r) => CacheInv'
<1> SUFFICES ASSUME CacheInv, Update(r) PROVE CacheInv'
  OBVIOUS
<1>1. PICK s \in NextRecord(r) :
           /\ rrd' = [rrd EXCEPT ![hit[r].cur] =
                        IF @.last < s[2] THEN [made |-> TRUE, last |-> s[2], recs |-> @.recs \cup {s}] ELSE @]
           /\ hit' = [hit EXCEPT ![r].rows = @ \ {s}]
  BY DEF Update
<1> DEFINE w == [hit[r] EXCEPT !.rows = @ \ {s}]
           old == rrd[hit[r].cur]
           new == IF old.last < s[2] THEN [made |-> TRUE, last |-> s[2], recs |-> old.recs \cup {s}] ELSE old
<1>2. /\ hit' = [hit EXCEPT ![r] = w] /\ UNCHANGED <<now, db, png, html>>
      /\ hit[r].pc = "update"
  BY <1>1 DEF Update, At
<1>3. Typed /\ Own /\ AtWork(r) /\ hit[r] \in Process /\ hit[r].rows \subseteq Records
  BY Fields DEF CacheInv
<1>4. s \in Records /\ s[1] = hit[r].cur /\ s[2] \in Nat
  BY <1>3 DEF NextRecord, Left, Records
<1>5. hit[r].cur \in File
  BY <1>2, <1>3, Fields DEF AtWork, Working
<1>6. /\ w \in Process /\ w.pc = "update" /\ w.cur = hit[r].cur
      /\ w.since = hit[r].since /\ w.todo = hit[r].todo /\ w.shows = hit[r].shows
  BY <1>2, <1>3 DEF Process, Steps
<1>7. old \in Database /\ \A q \in old.recs : q[1] = hit[r].cur
  BY <1>3, <1>5 DEF Typed, Own
<1>8. new \in Database /\ \A q \in new.recs : q[1] = hit[r].cur
  <2> HIDE DEF old
  <2>1. /\ new \in Database
        /\ IF old.last < s[2] THEN new.recs = old.recs \cup {s} ELSE new = old
    BY <1>4, <1>7, Recorded
  <2>. QED  BY <1>4, <1>7, <2>1
<1>9. rrd' = [rrd EXCEPT ![hit[r].cur] = new]
  BY <1>1
<1> HIDE DEF w, old, new
<1>10. rrd' \in [File -> Database]
  BY <1>3, <1>8, <1>9 DEF Typed
<1>11. Own'
  BY <1>2, <1>3, <1>5, <1>8, <1>9 DEF Own, Typed
<1>. QED  BY <1>2, <1>6, <1>10, <1>11, RrdMoves

(* The graphs of a file are drawn: they are fresh for who comes in now.    *)
LEMMA DrawKeeps == ASSUME NEW r \in Hits PROVE CacheInv /\ Draw(r) => CacheInv'
<1> SUFFICES ASSUME CacheInv, Draw(r) PROVE CacheInv'
  OBVIOUS
<1> DEFINE w    == [hit[r] EXCEPT !.pc = "next"]
           c    == hit[r].cur
           made == [mtime |-> now, recs |-> rrd[c].recs]
<1>1. /\ hit' = [hit EXCEPT ![r] = w] /\ UNCHANGED <<now, db, rrd, html>> /\ hit[r].pc = "update"
      /\ png' = [png EXCEPT ![c] = [g \in Graph |-> IF g \in Due(r, c) THEN made ELSE png[c][g]]]
  BY DEF Draw, Goto, At
<1>2. /\ Typed /\ Past /\ Own /\ PagesFresh /\ AtWork(r) /\ hit[r] \in Process
      /\ now \in Nat /\ \A f \in File, g \in Graph : png[f][g].mtime \in Int
  BY Fields DEF CacheInv
<1>3. w \in Process
  BY <1>2 DEF Process, Steps
<1>4. w.shows = hit[r].shows /\ w.todo = hit[r].todo /\ w.since = hit[r].since /\ w.pc = "next"
  BY <1>2 DEF Process
<1>5. hit'[r] = w
  BY <1>1, <1>2 DEF Typed
<1>6. c \in hit[r].shows /\ c \in File
  BY <1>1, <1>2, Fields DEF AtWork, Working
<1>7. /\ made.mtime = now /\ made.recs = rrd[c].recs /\ made \in [mtime: Int, recs: SUBSET Records]
  BY <1>2, <1>6 DEF Typed, Database
<1> HIDE DEF w, made
<1>8. /\ \A g \in Graph : png'[c][g] = IF g \in Due(r, c) THEN made ELSE png[c][g]
      /\ \A f \in File \ {c} : png'[f] = png[f]
  BY <1>1, <1>2, <1>6 DEF Typed
<1>9. Typed'
  <2>1. hit' \in [Hits -> Process]
    BY <1>1, <1>2, <1>3 DEF Typed
  <2>2. [g \in Graph |-> IF g \in Due(r, c) THEN made ELSE png[c][g]] \in [Graph -> [mtime: Int, recs: SUBSET Records]]
    BY <1>2, <1>6, <1>7 DEF Typed
  <2>3. png' \in [File -> [Graph -> [mtime: Int, recs: SUBSET Records]]]
    BY <1>1, <1>2, <2>2 DEF Typed
  <2>. QED  BY <1>1, <1>2, <2>1, <2>3 DEF Typed
<1>10. \A f \in File, g \in Graph : png'[f][g].mtime \in {png[f][g].mtime, now}
  BY <1>7, <1>8
<1>11. Later
  BY <1>2, <1>10 DEF Later, Past
<1>12. AtWork(r)'
  BY <1>1, <1>2, <1>4, <1>5, <1>6 DEF AtWork, Working, Alone, PageOf, About
<1>13. NextFresh(c, PageOf(r), now)
  <2> SUFFICES ASSUME NEW g \in Shown(PageOf(r))
               PROVE  png'[c][g].mtime >= 0 /\ png'[c][g].mtime >= now - MaxAge
    BY DEF NextFresh
  <2>1. g \in Graph /\ (g \in Due(r, c) <=> NeedsRegen(png[c][g]))
    BY ShownGraphs, Places DEF Due
  <2>2. CASE g \in Due(r, c)
    <3>1. png'[c][g].mtime = now
      BY <1>7, <1>8, <2>1, <2>2
    <3>. QED  BY <1>2, <3>1, Numbers
  <2>3. CASE g \notin Due(r, c)
    <3>1. png'[c][g] = png[c][g] /\ ~NeedsRegen(png[c][g]) /\ png[c][g].mtime \in Int
      BY <1>2, <1>6, <1>8, <2>1, <2>3
    <3>. QED  BY <1>2, <3>1, YoungIsFresh DEF Exists
  <2>. QED  BY <2>2, <2>3
<1>14. \A f \in Made(r)' : f = c \/ f \in Made(r)
  BY <1>1, <1>4, <1>5 DEF Made
<1>15. \A p \in Page : html'[p].mtime = html[p].mtime
  BY <1>1
<1>16. w.since <= now /\ w.pc # "send" /\ hit[r].pc \in Working
  BY <1>1, <1>2, <1>4 DEF Past, Working
<1>17. Past' /\ \A q \in Hits : AnswerReady(q)'
  BY <1>1, <1>3, <1>9, <1>10, <1>11, <1>15, <1>16, OthersKept
<1>18. \A q \in Hits : AtWork(q)' /\ Ready(q)'
  BY <1>1, <1>3, <1>4, <1>9, <1>11, <1>12, <1>13, <1>14, <1>16, <1>17, OneMoves
<1>19. Own'
  BY <1>1, <1>2, <1>6, <1>7, <1>8 DEF Own
<1>20. PagesFresh'
  <2> SUFFICES ASSUME NEW p \in Page, NEW shown \in html[p].shows PROVE NextFresh(shown[1], p, shown[2])
    BY <1>1 DEF PagesFresh, Fresh, NextFresh, Exists
  <2>1. shown[1] \in File /\ shown[2] \in Nat /\ Fresh(shown[1], p, shown[2])
    BY <1>2, Fields DEF PagesFresh
  <2>. QED  BY <1>2, <1>9, <1>11, <2>1, FreshStays
<1>. QED  BY <1>9, <1>17, <1>18, <1>19, <1>20 DEF CacheInv

(* Who opens a page empties it.                                            *)
LEMMA OpenKeeps == ASSUME NEW r \in Hits PROVE CacheInv /\ Open(r) => CacheInv'
<1> SUFFICES ASSUME CacheInv, Open(r) PROVE CacheInv'
  OBVIOUS
<1> DEFINE w   == [hit[r] EXCEPT !.pc = "write"]
           new == [mtime |-> now, shows |-> {}]
<1>1. /\ hit' = [hit EXCEPT ![r] = w] /\ UNCHANGED <<now, db, rrd, png>> /\ hit[r].pc = "page"
      /\ html' = [html EXCEPT ![PageOf(r)] = new]
  BY DEF Open, Goto, At
<1>2. /\ Typed /\ Past /\ Own /\ PagesFresh /\ AtWork(r) /\ hit[r] \in Process
      /\ now \in Nat /\ hit[r].since <= now /\ PageOf(r) \in Page
  BY Fields, Places DEF CacheInv, Past
<1>3. w \in Process
  BY <1>2 DEF Process, Steps
<1>4. w.shows = hit[r].shows /\ w.todo = hit[r].todo /\ w.since = hit[r].since /\ w.pc = "write"
  BY <1>2 DEF Process
<1>5. hit'[r] = w
  BY <1>1, <1>2 DEF Typed
<1>6. new \in [mtime: Int, shows: SUBSET (File \X Nat)] /\ new.mtime = now /\ new.shows = {}
  BY <1>2
<1> HIDE DEF w, new
<1>7. html'[PageOf(r)] = new /\ \A p \in Page \ {PageOf(r)} : html'[p] = html[p]
  BY <1>1, <1>2 DEF Typed
<1>8. Typed'
  <2>1. hit' \in [Hits -> Process]
    BY <1>1, <1>2, <1>3 DEF Typed
  <2>2. html' \in [Page -> [mtime: Int, shows: SUBSET (File \X Nat)]]
    BY <1>1, <1>2, <1>6 DEF Typed
  <2>. QED  BY <1>1, <1>2, <2>1, <2>2 DEF Typed
<1>9. Later
  BY <1>1, <1>2, Fields DEF Later
<1>10. AtWork(r)'
  BY <1>1, <1>2, <1>4, <1>5 DEF AtWork, Working, Alone, PageOf, About
<1>11. \A f \in Made(r)' : f \in Made(r)
  BY <1>1, <1>4, <1>5 DEF Made, Alone, PageOf, About
<1>12. \A p \in Page : html'[p].mtime \in {html[p].mtime, now}
  BY <1>6, <1>7
<1>13. w.since <= now /\ w.pc # "send" /\ hit[r].pc \in Working
  BY <1>1, <1>2, <1>4 DEF Working
<1>14. Past' /\ \A q \in Hits : AnswerReady(q)'
  BY <1>1, <1>3, <1>8, <1>9, <1>12, <1>13, OthersKept
<1>15. \A q \in Hits : AtWork(q)' /\ Ready(q)'
  BY <1>1, <1>3, <1>4, <1>8, <1>9, <1>10, <1>11, <1>13, <1>14, OneMoves
<1>16. Own'
  BY <1>1, <1>2 DEF Own
<1>17. PagesFresh'
  BY <1>1, <1>2, <1>6, <1>7 DEF PagesFresh, Fresh, Exists
<1>. QED  BY <1>8, <1>14, <1>15, <1>16, <1>17 DEF CacheInv

(* The text shows what the request has been through, and what is left of   *)
(* another one's.                                                          *)
LEMMA WriteKeeps == ASSUME NEW r \in Hits PROVE CacheInv /\ Write(r) => CacheInv'
<1> SUFFICES ASSUME CacheInv, Write(r) PROVE CacheInv'
  OBVIOUS
<1>1. PICK tail \in SUBSET html[PageOf(r)].shows :
         html' = [html EXCEPT ![PageOf(r)].mtime = now,
                    ![PageOf(r)].shows = tail \cup Linked(r) \X {hit[r].since}]
  BY DEF Write
<1> DEFINE w    == [hit[r] EXCEPT !.pc = "send"]
           text == Linked(r) \X {hit[r].since}
           old  == html[PageOf(r)]
           new  == [old EXCEPT !.mtime = now, !.shows = tail \cup text]
<1>2. /\ hit' = [hit EXCEPT ![r] = w] /\ UNCHANGED <<now, db, rrd, png>> /\ hit[r].pc = "write"
  BY DEF Write, Goto, At
<1>3. /\ Typed /\ Past /\ Own /\ PagesFresh /\ AtWork(r) /\ Ready(r) /\ hit[r] \in Process
      /\ now \in Nat /\ hit[r].since \in Nat /\ hit[r].since <= now /\ PageOf(r) \in Page
      /\ html[PageOf(r)] \in [mtime: Int, shows: SUBSET (File \X Nat)]
  BY Fields, Places DEF CacheInv, Past, Typed
<1>4. w \in Process
  BY <1>3 DEF Process, Steps
<1>5. w.since = hit[r].since /\ w.pc = "send"
  BY <1>3 DEF Process
<1>6. hit'[r] = w
  BY <1>2, <1>3 DEF Typed
<1>7. Linked(r) = Made(r) /\ Linked(r) \subseteq File
  <2>1. Linked(r) = Made(r)
    BY <1>2, <1>3 DEF Linked, Made, AtWork, Working
  <2>. QED  BY <1>3, <2>1, MadeFiles
<1>8. text \subseteq File \X Nat /\ \A shown \in text : shown[1] \in Made(r) /\ shown[2] = hit[r].since
  BY <1>3, <1>7
<1>9. html' = [html EXCEPT ![PageOf(r)] = new]
  BY <1>1
<1>10. /\ new \in [mtime: Int, shows: SUBSET (File \X Nat)] /\ new.mtime = now
       /\ new.shows \subseteq old.shows \cup text
  <2>1. old \in [mtime: Int, shows: SUBSET (File \X Nat)] /\ now \in Int /\ tail \subseteq old.shows
    BY <1>3
  <2> HIDE DEF old, text
  <2>2. tail \cup text \in SUBSET (File \X Nat)
    BY <1>8, <2>1
  <2>. QED  BY <2>1, <2>2
<1> HIDE DEF w, text, new
<1>11. html'[PageOf(r)] = new /\ \A p \in Page \ {PageOf(r)} : html'[p] = html[p]
  BY <1>3, <1>9 DEF Typed
<1>12. Typed'
  <2>1. hit' \in [Hits -> Process]
    BY <1>2, <1>3, <1>4 DEF Typed
  <2>2. html' \in [Page -> [mtime: Int, shows: SUBSET (File \X Nat)]]
    BY <1>3, <1>9, <1>10 DEF Typed
  <2>. QED  BY <1>2, <1>3, <2>1, <2>2 DEF Typed
<1>13. Later
  BY <1>2, <1>3, Fields DEF Later
<1>14. AtWork(r)' /\ w.pc \notin Working
  BY <1>5, <1>6 DEF AtWork, Working
<1>15. \A p \in Page : html'[p].mtime \in {html[p].mtime, now}
  BY <1>10, <1>11
<1>16. w.since <= now /\ html'[PageOf(r)].mtime >= 0 /\ html'[PageOf(r)].mtime >= w.since - MaxAge
  <2>1. html'[PageOf(r)].mtime = now /\ w.since \in Nat /\ w.since <= now
    BY <1>3, <1>5, <1>10, <1>11
  <2>. QED  BY <1>3, <2>1, Numbers
<1>17. Past' /\ \A q \in Hits : AnswerReady(q)'
  BY <1>2, <1>4, <1>12, <1>13, <1>15, <1>16, OthersKept
<1>18. \A q \in Hits : AtWork(q)' /\ Ready(q)'
  BY <1>2, <1>4, <1>12, <1>13, <1>14, <1>17, OneMoves
<1>19. Own'
  BY <1>2, <1>3 DEF Own
<1>20. PagesFresh'
  <2> SUFFICES ASSUME NEW p \in Page, NEW shown \in html'[p].shows PROVE Fresh(shown[1], p, shown[2])
    BY <1>2 DEF PagesFresh, Fresh, Exists
  <2>1. CASE shown \in html[p].shows
    BY <1>3, <2>1 DEF PagesFresh
  <2>2. CASE p = PageOf(r) /\ shown \in text
    BY <1>2, <1>3, <1>8, <2>2 DEF Ready, Working
  <2>. QED  BY <1>10, <1>11, <2>1, <2>2
<1>. QED  BY <1>12, <1>17, <1>18, <1>19, <1>20 DEF CacheInv

----------------------------------------------------------------------------
LEMMA InitCache == Init => CacheInv
<1> SUFFICES ASSUME Init PROVE CacheInv
  OBVIOUS
<1>1. \A r \in Hits : hit[r] = Idle
  BY DEF Init
<1>2. Typed
  <2>1. hit \in [Hits -> Process]
    BY IdleProcess DEF Init
  <2>2. NoRrd \in Database
    BY DEF NoRrd, Database
  <2>. QED  BY <2>1, <2>2, FS_EmptySet DEF Init, NoPage, Typed
<1>3. Past /\ Own /\ PagesFresh
  BY <1>1, IdleProcess DEF Init, NoRrd, NoPage, Past, Own, PagesFresh
<1>4. \A r \in Hits : hit[r].pc = "idle"
  BY <1>1, IdleProcess
<1>5. \A r \in Hits : AtWork(r) /\ Ready(r) /\ AnswerReady(r)
  BY <1>4 DEF AtWork, Ready, AnswerReady, Working
<1>. QED  BY <1>2, <1>3, <1>5 DEF CacheInv

LEMMA CacheStays == CacheInv /\ [Next]_vars => CacheInv'
<1> SUFFICES ASSUME CacheInv, [Next]_vars PROVE CacheInv'
  OBVIOUS
<1>1. ASSUME NEW r \in Hits, Serve(r) PROVE CacheInv'
  <2>1. ASSUME Send(r) \/ Fail(r) PROVE CacheInv'
    BY <2>1, GoneKeeps DEF Send, Fail
  <2>. QED
    BY <1>1, <2>1, StartKeeps, QueryKeeps, LookKeeps, CreateKeeps, UpdateKeeps, DrawKeeps, DrawnKeeps,
       OpenKeeps, KeepPageKeeps, WriteKeeps DEF Serve
<1>2. CASE UNCHANGED vars
  BY <1>2 DEF vars, CacheInv, Typed, Past, Own, PagesFresh, AtWork, Ready, AnswerReady, Made, Fresh, Exists
<1>. QED  BY <1>1, <1>2, TickKeeps, InsertKeeps DEF Next

LEMMA CacheAlways == Spec => []CacheInv
  BY InitCache, CacheStays, PTL DEF Spec

(* A page never shows a graph that is not drawn, is too old for the        *)
(* request whose text shows it or is of another file, with any number of   *)
(* processes at work (needs_regen, update_rrd and the write of the page in *)
(* the three scripts).                                                     *)
THEOREM PagesFreshEver == Spec => []PagesShowFreshGraphs
<1>1. CacheInv => PagesShowFreshGraphs
  <2> SUFFICES ASSUME CacheInv, NEW p \in Page, NEW shown \in html[p].shows, NEW g \in Shown(p)
               PROVE  /\ Exists(png[shown[1]][g]) /\ png[shown[1]][g].mtime >= shown[2] - MaxAge
                      /\ \A s \in png[shown[1]][g].recs : s[1] = shown[1]
    BY DEF PagesShowFreshGraphs, Shown
  <2>1. Fresh(shown[1], p, shown[2])
    BY DEF CacheInv, PagesFresh
  <2>2. shown[1] \in File /\ g \in Graph
    BY Fields, ShownGraphs DEF CacheInv
  <2>. QED  BY <2>1, <2>2 DEF Fresh, CacheInv, Own
<1>. QED  BY <1>1, CacheAlways, PTL

----------------------------------------------------------------------------
(* The requests that are at work. *)
Busy == {r \in Hits : hit[r].pc # "idle"}

(* One request is served after the other, where the set-up says so.        *)
OneAtATime == /\ IsFiniteSet(Busy)
              /\ setup.atOnce = 1 => \A q, r \in Busy : q = r

(* A database has a record of its last time, unless that is as far back as *)
(* its beginning, and, of requests that do not meet, one of every time up  *)
(* to it of which another fetch would find a sample, if rrd_age is not     *)
(* over for it.                                                            *)
Recent(s) == s[2] > now - FetchInt
Young(t)  == t > now - RrdAge
Has(f, t) == t \in Times(f, rrd[f].recs)
Whole(f)  ==
    /\ rrd[f].last <= now
    /\ rrd[f].made /\ Young(rrd[f].last) => Has(f, rrd[f].last)
    /\ rrd[f].made /\ setup.atOnce = 1 =>
          \A s \in db : s[1] = f /\ Recent(s) /\ Young(s[2]) /\ s[2] <= rrd[f].last => Has(f, s[2])

(* What was fetched: all that is recent and not later than the last of it. *)
(* The records of the files to do are left; of the others, and of what is  *)
(* behind the last record of a database, it has them.                      *)
Updating == {"next", "create", "update"}
Fetched(r) ==
    hit[r].pc \in Updating =>
       /\ hit[r].rows \subseteq hit[r].got /\ hit[r].got \subseteq db
       /\ \A s \in db : s[1] \in About(PageOf(r)) /\ Recent(s) /\ s \notin hit[r].got
             => \A q \in hit[r].got : q[2] <= s[2]
       /\ \A q \in hit[r].got : q[1] \in hit[r].todo => q \in hit[r].rows
       /\ hit[r].pc # "next" => hit[r].cur \notin hit[r].todo
       /\ hit[r].pc = "create" => \A q \in hit[r].got : q[1] = hit[r].cur => q \in hit[r].rows
InItsDatabase(r) ==
    hit[r].pc \in Updating =>
       /\ \A q \in hit[r].got :
             rrd[q[1]].made /\ Young(q[2]) /\ q[2] <= rrd[q[1]].last => Has(q[1], q[2])
       /\ hit[r].pc = "update" =>
             /\ rrd[hit[r].cur].made
             /\ \A q \in hit[r].got : q[1] = hit[r].cur /\ Young(q[2]) => q \in hit[r].rows \/ Has(q[1], q[2])

AloneInv == /\ OneAtATime
            /\ \A s \in db : s[2] <= now
            /\ \A f \in File : Whole(f)
            /\ \A r \in Hits : Fetched(r) /\ (setup.atOnce = 1 => InItsDatabase(r))

----------------------------------------------------------------------------
LEMMA RecordFields == \A s \in Records : s[1] \in File /\ s[2] \in Nat
  BY DEF Records

(* The times of more samples. *)
LEMMA MoreTimes ==
    ASSUME NEW few, NEW many, few \subseteq many, NEW f
    PROVE  /\ Times(f, few) \subseteq Times(f, many)
           /\ \A s \in many : s[1] = f => s[2] \in Times(f, many)
  BY DEF Times

LEMMA FetchIntNumber == FetchInt \in Nat
  BY PageAssumption

(* The set-up and the number of those at work. *)
LEMMA BusyMoves ==
    ASSUME OneAtATime, Typed, NEW r \in Hits, NEW w, hit' = [hit EXCEPT ![r] = w],
           UNCHANGED setup, r \in Busy \/ w.pc = "idle"
    PROVE  OneAtATime'
<1>1. Busy' \subseteq Busy
  BY DEF Busy, Typed
<1>. QED  BY <1>1, FS_Subset DEF OneAtATime

(* A step of one process that leaves the databases alone, and what it      *)
(* fetched.                                                                *)
LEMMA OnlyHitMoves ==
    ASSUME AloneInv, Typed, NEW r \in Hits, NEW w, hit' = [hit EXCEPT ![r] = w],
           UNCHANGED <<now, db, rrd, setup>>, r \in Busy \/ w.pc = "idle",
           Fetched(r)', setup.atOnce = 1 => InItsDatabase(r)'
    PROVE  AloneInv'
<1>1. OneAtATime'
  BY BusyMoves DEF AloneInv
<1>2. \A f \in File : Whole(f)'
  BY DEF AloneInv, Whole, Recent, Young, Has
<1>3. ASSUME NEW q \in Hits \ {r} PROVE Fetched(q)' /\ (setup'.atOnce = 1 => InItsDatabase(q)')
  <2>1. hit'[q] = hit[q]
    BY DEF Typed
  <2>2. Fetched(q)'
    BY <2>1 DEF AloneInv, Fetched, Recent, PageOf, About
  <2>3. setup.atOnce = 1 => InItsDatabase(q)'
    BY <2>1 DEF AloneInv, InItsDatabase, Young, Has
  <2>. QED  BY <2>2, <2>3
<1>. QED  BY <1>1, <1>2, <1>3 DEF AloneInv

LEMMA AloneTick == AloneInv /\ CacheInv /\ Tick => AloneInv'
<1> SUFFICES ASSUME AloneInv, CacheInv, Tick PROVE AloneInv'
  OBVIOUS
<1>1. UNCHANGED <<db, rrd, png, html, hit, setup>> /\ now' = now + 1 /\ now \in Nat /\ db \subseteq Records
  BY DEF Tick, CacheInv, Typed
<1>2. OneAtATime'
  BY <1>1 DEF AloneInv, OneAtATime, Busy
<1>3. \A s \in db : s[2] <= now' /\ (Recent(s)' => Recent(s))
  BY <1>1, RecordFields, FetchIntNumber DEF AloneInv, Recent
<1>3a. (\A t \in Int : Young(t)' => Young(t)) /\ \A f, t : Has(f, t)' <=> Has(f, t)
  BY <1>1, Numbers DEF Young, Has
<1>4. ASSUME NEW f \in File PROVE Whole(f)'
  <2>1. Whole(f) /\ rrd[f].last \in Int /\ \A s \in db : s[2] \in Int
    BY <1>1, RecordFields DEF AloneInv, CacheInv, Typed, Database
  <2>2. rrd'[f].last <= now'
    BY <1>1, <2>1 DEF Whole
  <2>. QED  BY <1>1, <1>3, <1>3a, <2>1, <2>2 DEF Whole
<1>5. ASSUME NEW r \in Hits PROVE Fetched(r)' /\ (setup'.atOnce = 1 => InItsDatabase(r)')
  <2>1. Fetched(r)'
    BY <1>1, <1>3 DEF AloneInv, Fetched, PageOf, About
  <2>2. hit[r].pc \in Updating => \A q \in hit[r].got : q[2] \in Int
    BY <1>1, RecordFields DEF AloneInv, Fetched
  <2>. QED  BY <1>1, <1>3a, <2>1, <2>2 DEF AloneInv, InItsDatabase
<1>. QED  BY <1>1, <1>2, <1>3, <1>4, <1>5 DEF AloneInv

LEMMA AloneInsert == ASSUME NEW f \in File PROVE AloneInv /\ CacheInv /\ Insert(f) => AloneInv'
<1> SUFFICES ASSUME AloneInv, CacheInv, Insert(f) PROVE AloneInv'
  OBVIOUS
<1>1. PICK n \in Nat : /\ UNCHANGED <<now, rrd, png, html, hit, setup>> /\ db' = db \cup {<<f, now, n>>}
                       /\ now \in Nat /\ db \subseteq Records
  BY Inserted DEF CacheInv, Typed
<1>2. OneAtATime'
  BY <1>1 DEF AloneInv, OneAtATime, Busy
<1>3. \A s \in db' : s[2] <= now'
  BY <1>1 DEF AloneInv
<1>4. ASSUME NEW g \in File PROVE Whole(g)'
  <2>1. Whole(g) /\ rrd[g].last \in Int
    BY <1>1 DEF AloneInv, CacheInv, Typed, Database
  <2>2. ASSUME rrd[g].made, Young(now), now <= rrd[g].last PROVE Has(g, now)
    <3>1. rrd[g].last = now
      BY <1>1, <2>1, <2>2 DEF Whole
    <3>. QED  BY <2>1, <2>2, <3>1 DEF Whole
  <2>3. \A s \in db' : s \in db \/ (s[1] = f /\ s[2] = now)
    BY <1>1
  <2>. QED  BY <1>1, <2>1, <2>2, <2>3 DEF Whole, Recent, Young, Has
<1>5. ASSUME NEW r \in Hits PROVE Fetched(r)' /\ (setup'.atOnce = 1 => InItsDatabase(r)')
  <2>1. \A q \in db : q[2] <= now
    BY DEF AloneInv
  <2>2. Fetched(r)'
    BY <1>1, <2>1 DEF AloneInv, Fetched, PageOf, About, Recent
  <2>. QED  BY <1>1, <2>2 DEF AloneInv, InItsDatabase, Young, Has
<1>. QED  BY <1>1, <1>2, <1>3, <1>4, <1>5 DEF AloneInv

(* A request that comes in, where one is served at a time, finds nobody.   *)
LEMMA AloneStart == ASSUME NEW r \in Hits PROVE AloneInv /\ CacheInv /\ Start(r) => AloneInv'
<1> SUFFICES ASSUME AloneInv, CacheInv, Start(r) PROVE AloneInv'
  OBVIOUS
<1> DEFINE old == IF Alone(r) THEN \E f \in About(PageOf(r)), g \in Graph : NeedsRegen(png[f][g])
                  ELSE NeedsRegen(html[PageOf(r)])
           w   == [Idle EXCEPT !.since = now,
                      !.pc = IF old THEN "query" ELSE IF Alone(r) THEN "page" ELSE "send"]
<1>1. hit' = [hit EXCEPT ![r] = w] /\ w.pc \in {"query", "page", "send"}
  <2>1. hit' = [hit EXCEPT ![r] = w]
    BY DEF Start
  <2>. QED  BY <2>1, IdleProcess DEF Idle
<1>. HIDE DEF w
<1>2. UNCHANGED <<now, db, rrd, png, html, setup>> /\ hit[r].pc = "idle" /\ Cardinality(Busy) < setup.atOnce
  BY DEF Start, At, Busy
<1>3. /\ \A q \in Hits \ {r} : hit'[q] = hit[q]
      /\ hit'[r].pc \in {"query", "page", "send"}
  BY <1>1 DEF CacheInv, Typed
<1>4. Busy' = Busy \cup {r}
  BY <1>2, <1>3 DEF Busy
<1>5. IsFiniteSet(Busy')
  BY <1>4, FS_AddElement DEF AloneInv, OneAtATime
<1>6. setup.atOnce = 1 => Busy = {}
  <2>1. IsFiniteSet(Busy) /\ Cardinality(Busy) \in Nat
    BY FS_CardinalityType DEF AloneInv, OneAtATime
  <2>. QED  BY <1>2, <2>1, FS_EmptySet
<1>7. OneAtATime'
  BY <1>2, <1>4, <1>5, <1>6 DEF OneAtATime
<1>8. \A f \in File : Whole(f)'
  BY <1>2 DEF AloneInv, Whole, Recent, Young, Has
<1>9. ASSUME NEW q \in Hits PROVE Fetched(q)' /\ (setup'.atOnce = 1 => InItsDatabase(q)')
  <2>1. CASE q = r
    BY <1>3, <2>1 DEF Fetched, InItsDatabase, Updating
  <2>2. CASE q # r
    BY <1>2, <1>3, <2>2 DEF AloneInv, Fetched, InItsDatabase, Recent, PageOf, About, Young, Has
  <2>. QED  BY <2>1, <2>2
<1>. QED  BY <1>2, <1>7, <1>8, <1>9 DEF AloneInv

(* What is fetched is all that is recent, so a database has its part of it *)
(* as far as it goes.                                                      *)
LEMMA AloneQuery == ASSUME NEW r \in Hits PROVE AloneInv /\ CacheInv /\ Query(r) => AloneInv'
<1> SUFFICES ASSUME AloneInv, CacheInv, Query(r) PROVE AloneInv'
  OBVIOUS
<1> DEFINE rows == {s \in db : s[1] \in About(PageOf(r)) /\ s[2] > now - FetchInt}
           with == {s[1] : s \in rows}
           w == [hit[r] EXCEPT !.got = rows, !.rows = rows, !.todo = with, !.shows = with,
                               !.pc = IF Alone(r) /\ with = {} THEN "failed" ELSE "next"]
<1>1. hit' = [hit EXCEPT ![r] = w] /\ UNCHANGED <<now, db, rrd, png, html, setup>> /\ r \in Busy
  BY DEF Query, At, Busy
<1>2. hit[r] \in Process /\ Typed /\ db \subseteq Records
  BY DEF CacheInv, Typed
<1>3. hit'[r] = w
  BY <1>1, <1>2 DEF Typed
<1>4. w.got = rows /\ w.rows = rows /\ w.pc \in {"failed", "next"}
  BY <1>2 DEF Process
<1>. HIDE DEF w
<1>5. Fetched(r)'
  <2>1. \A s \in db : s[1] \in About(PageOf(r)) /\ Recent(s) => s \in rows
    BY DEF Recent
  <2>2. UNCHANGED <<About(PageOf(r)), db>> /\ \A s : Recent(s)' = Recent(s)
    BY <1>1 DEF PageOf, About, Recent
  <2>. HIDE DEF rows
  <2>3. rows \subseteq db
    BY DEF rows
  <2>. QED  BY <1>3, <1>4, <2>1, <2>2, <2>3 DEF Fetched, Updating
<1>6. ASSUME setup.atOnce = 1 PROVE InItsDatabase(r)'
  <2>1. \A q \in rows : rrd[q[1]].made /\ Young(q[2]) /\ q[2] <= rrd[q[1]].last => Has(q[1], q[2])
    BY <1>2, <1>6, RecordFields DEF AloneInv, Whole, Recent
  <2>. QED  BY <1>1, <1>3, <1>4, <2>1 DEF InItsDatabase, Young, Has
<1>. QED  BY <1>1, <1>2, <1>5, <1>6, OnlyHitMoves

LEMMA AloneLook == ASSUME NEW r \in Hits, NEW f \in File PROVE AloneInv /\ CacheInv /\ Look(r, f) => AloneInv'
<1> SUFFICES ASSUME AloneInv, CacheInv, Look(r, f) PROVE AloneInv'
  OBVIOUS
<1> DEFINE step == IF setup.sameDir /\ rrd[f].made THEN "update" ELSE "create"
           w == [hit[r] EXCEPT !.cur = f, !.todo = @ \ {f}, !.pc = step]
<1>1. /\ hit' = [hit EXCEPT ![r] = w] /\ UNCHANGED <<now, db, rrd, png, html, setup>> /\ r \in Busy
      /\ hit[r].pc = "next" /\ f \in hit[r].todo
  BY DEF Look, At, Busy
<1>2. hit[r] \in Process /\ Typed
  BY DEF CacheInv, Typed
<1>3. hit'[r] = w
  BY <1>1, <1>2 DEF Typed
<1>4. /\ w.got = hit[r].got /\ w.rows = hit[r].rows /\ w.todo = hit[r].todo \ {f} /\ w.cur = f
      /\ w.pc \in {"create", "update"} /\ (w.pc = "update" => rrd[f].made)
  BY <1>2 DEF Process
<1>5. Fetched(r) /\ (setup.atOnce = 1 => InItsDatabase(r)) /\ hit[r].pc \in Updating
  BY <1>1 DEF AloneInv, Updating
<1>. HIDE DEF w
<1>6. Fetched(r)'
  BY <1>1, <1>3, <1>4, <1>5 DEF Fetched, Recent, PageOf, About
<1>7. ASSUME setup.atOnce = 1 PROVE InItsDatabase(r)'
  BY <1>1, <1>3, <1>4, <1>5, <1>7 DEF InItsDatabase, Fetched, Young, Has
<1>. QED  BY <1>1, <1>2, <1>6, <1>7, OnlyHitMoves

(* A process that does not update databases any more, or never did.        *)
LEMMA AloneElsewhere ==
    ASSUME AloneInv, Typed, NEW r \in Hits, NEW w, hit' = [hit EXCEPT ![r] = w],
           UNCHANGED <<now, db, rrd, setup>>, r \in Busy, w.pc \notin Updating
    PROVE  AloneInv'
<1>1. hit'[r] = w
  BY DEF Typed
<1>2. Fetched(r)' /\ InItsDatabase(r)'
  BY <1>1 DEF Fetched, InItsDatabase
<1>. QED  BY <1>2, OnlyHitMoves

LEMMA AloneDraw == ASSUME NEW r \in Hits PROVE AloneInv /\ CacheInv /\ Draw(r) => AloneInv'
<1> SUFFICES ASSUME AloneInv, CacheInv, Draw(r) PROVE AloneInv'
  OBVIOUS
<1> DEFINE w == [hit[r] EXCEPT !.pc = "next"]
<1>1. /\ hit' = [hit EXCEPT ![r] = w] /\ UNCHANGED <<now, db, rrd, html, setup>> /\ r \in Busy
      /\ hit[r].pc = "update"
  BY DEF Draw, At, Busy, Goto
<1>2. hit[r] \in Process /\ Typed
  BY DEF CacheInv, Typed
<1>3. hit'[r] = w
  BY <1>1, <1>2 DEF Typed
<1>4. /\ w.got = hit[r].got /\ w.rows = hit[r].rows /\ w.todo = hit[r].todo /\ w.pc = "next"
  BY <1>2 DEF Process
<1>5. Fetched(r) /\ (setup.atOnce = 1 => InItsDatabase(r)) /\ hit[r].pc \in Updating
  BY <1>1 DEF AloneInv, Updating
<1>. HIDE DEF w
<1>6. Fetched(r)'
  BY <1>1, <1>3, <1>4, <1>5 DEF Fetched, Recent, PageOf, About
<1>7. ASSUME setup.atOnce = 1 PROVE InItsDatabase(r)'
  BY <1>1, <1>3, <1>4, <1>5, <1>7 DEF InItsDatabase, Young, Has
<1>. QED  BY <1>1, <1>2, <1>6, <1>7, OnlyHitMoves

LEMMA AloneOther ==
    ASSUME NEW r \in Hits
    PROVE  AloneInv /\ CacheInv /\ (Drawn(r) \/ Open(r) \/ KeepPage(r) \/ Write(r) \/ Send(r) \/ Fail(r)) => AloneInv'
<1> SUFFICES ASSUME AloneInv, CacheInv, Drawn(r) \/ Open(r) \/ KeepPage(r) \/ Write(r) \/ Send(r) \/ Fail(r)
             PROVE  AloneInv'
  OBVIOUS
<1>1. Typed /\ hit[r] \in Process
  BY DEF CacheInv, Typed
<1>2. UNCHANGED <<now, db, rrd, setup>> /\ r \in Busy
  BY DEF Drawn, Open, KeepPage, Write, Send, Fail, At, Busy
<1>3. ASSUME NEW to \in {"page", "write", "send"}, Goto(r, to) PROVE AloneInv'
  <2>1. hit' = [hit EXCEPT ![r] = [hit[r] EXCEPT !.pc = to]]
    BY <1>3 DEF Goto
  <2>2. [hit[r] EXCEPT !.pc = to].pc \notin Updating
    BY <1>1 DEF Process, Updating
  <2>. QED  BY <1>1, <1>2, <2>1, <2>2, AloneElsewhere
<1>4. ASSUME hit' = [hit EXCEPT ![r] = Idle] PROVE AloneInv'
  <2>1. Idle.pc \notin Updating
    BY IdleProcess DEF Updating
  <2>. QED  BY <1>1, <1>2, <1>4, <2>1, AloneElsewhere
<1>. QED  BY <1>3, <1>4 DEF Drawn, Open, KeepPage, Write, Send, Fail

----------------------------------------------------------------------------
(* A new database is behind nothing. *)
LEMMA AloneCreate == ASSUME NEW r \in Hits PROVE AloneInv /\ CacheInv /\ Create(r) => AloneInv'
<1> SUFFICES ASSUME AloneInv, CacheInv, Create(r) PROVE AloneInv'
  OBVIOUS
<1> DEFINE w == [hit[r] EXCEPT !.pc = "update"]
           f == hit[r].cur
           empty == [made |-> TRUE, last |-> now - RrdAge, recs |-> {}]
<1>1. /\ hit' = [hit EXCEPT ![r] = w] /\ UNCHANGED <<now, db, png, html, setup>> /\ r \in Busy
      /\ hit[r].pc = "create" /\ rrd' = [rrd EXCEPT ![f] = empty]
  BY DEF Create, Goto, At, Busy
<1>2. Typed /\ hit[r] \in Process /\ now \in Nat /\ db \subseteq Records
  BY DEF CacheInv, Typed
<1>3. /\ w.got = hit[r].got /\ w.rows = hit[r].rows /\ w.todo = hit[r].todo /\ w.cur = f /\ w.pc = "update"
  BY <1>2 DEF Process
<1>3a. empty.made /\ empty.last = now - RrdAge /\ empty.last <= now /\ empty.last \in Int
  BY <1>2, Numbers
<1>. HIDE DEF w, empty
<1>4. hit'[r] = w /\ \A q \in Hits \ {r} : hit'[q] = hit[q]
  BY <1>1, <1>2 DEF Typed
<1>5. \A g \in File : rrd'[g] = IF g = f THEN empty ELSE rrd[g]
  BY <1>1, <1>2 DEF Typed
<1>6. Fetched(r) /\ hit[r].pc \in Updating /\ \A q \in Hits : Fetched(q)
  BY <1>1 DEF AloneInv, Updating
<1>7. \A q \in Hits : Fetched(q)'
  BY <1>1, <1>3, <1>4, <1>6 DEF Fetched, Recent, PageOf, About
<1>8. ASSUME NEW g \in File PROVE Whole(g)'
  <2>1. CASE g = f
    <3>1. rrd'[g] = empty /\ \A s \in db : s[2] \in Int
      BY <1>2, <1>5, <2>1, RecordFields
    <3>2. \A t \in Int : t <= empty.last => ~ Young(t)'
      BY <1>1, <1>2, <1>3a, Numbers DEF Young
    <3>. QED  BY <1>1, <1>2, <1>3a, <3>1, <3>2 DEF Whole
  <2>2. CASE g # f
    BY <1>1, <1>5, <2>2 DEF AloneInv, Whole, Recent, Young, Has
  <2>. QED  BY <2>1, <2>2
<1>8a. f \in File
  BY <1>1, <1>2, Fields DEF CacheInv, AtWork, Working
<1>9. ASSUME setup.atOnce = 1, NEW q \in Hits PROVE InItsDatabase(q)'
  <2>1. CASE q = r
    <3>1. \A s \in hit[r].got : s \in Records
      BY <1>2, <1>6 DEF Fetched
    <3>2. ASSUME NEW s \in hit[r].got, rrd'[s[1]].made, Young(s[2])', s[2] <= rrd'[s[1]].last
          PROVE  Has(s[1], s[2])'
      <4>1. s[1] \in File /\ s[2] \in Int
        BY <3>1, RecordFields
      <4>2. s[1] # f
        BY <1>1, <1>2, <1>3a, <1>5, <3>2, <4>1, Numbers DEF Young
      <4>. QED  BY <1>1, <1>5, <1>6, <1>9, <3>2, <4>1, <4>2 DEF AloneInv, InItsDatabase, Young, Has
    <3>3. \A s \in hit[r].got : s[1] = f => s \in hit[r].rows
      BY <1>1, <1>6 DEF Fetched
    <3>4. rrd'[f].made
      BY <1>3a, <1>5, <1>8a
    <3>. QED  BY <1>3, <1>4, <2>1, <3>2, <3>3, <3>4 DEF InItsDatabase
  <2>2. CASE q # r
    <3>1. r \in Busy' /\ (hit'[q].pc \in Updating => q \in Busy')
      BY <1>3, <1>4 DEF Busy, Updating
    <3>2. OneAtATime'
      BY <1>1, <1>2, BusyMoves DEF AloneInv
    <3>. QED  BY <1>1, <1>9, <2>2, <3>1, <3>2 DEF OneAtATime, InItsDatabase
  <2>. QED  BY <2>1, <2>2
<1>10. OneAtATime'
  BY <1>1, <1>2, BusyMoves DEF AloneInv
<1>. QED  BY <1>1, <1>7, <1>8, <1>9, <1>10 DEF AloneInv

(* The next record is the earliest that is left: everything before it is   *)
(* in the database.                                                        *)
LEMMA AloneUpdate == ASSUME NEW r \in Hits PROVE AloneInv /\ CacheInv /\ Update(r) => AloneInv'
<1> SUFFICES ASSUME AloneInv, CacheInv, Update(r) PROVE AloneInv'
  OBVIOUS
<1>1. PICK s \in NextRecord(r) :
           /\ rrd' = [rrd EXCEPT ![hit[r].cur] =
                        IF @.last < s[2] THEN [made |-> TRUE, last |-> s[2], recs |-> @.recs \cup {s}] ELSE @]
           /\ hit' = [hit EXCEPT ![r].rows = @ \ {s}]
  BY DEF Update
<1> DEFINE w == [hit[r] EXCEPT !.rows = @ \ {s}]
           f == hit[r].cur
           old == rrd[f]
           new == IF old.last < s[2] THEN [made |-> TRUE, last |-> s[2], recs |-> old.recs \cup {s}] ELSE old
<1>2. /\ hit' = [hit EXCEPT ![r] = w] /\ UNCHANGED <<now, db, png, html, setup>>
      /\ hit[r].pc = "update" /\ rrd' = [rrd EXCEPT ![f] = new] /\ r \in Busy
  BY <1>1 DEF Update, At, Busy
<1>3. Typed /\ AtWork(r) /\ hit[r] \in Process /\ db \subseteq Records /\ now \in Nat
  BY Fields DEF CacheInv, Typed
<1>4. /\ Fetched(r) /\ hit[r].pc \in Updating /\ (setup.atOnce = 1 => InItsDatabase(r))
      /\ hit[r].got \subseteq Records /\ hit[r].rows \subseteq hit[r].got /\ hit[r].got \subseteq db
  BY <1>2, <1>3 DEF AloneInv, Updating, Fetched
<1>5. /\ s \in hit[r].rows /\ s \in db /\ s \in Records /\ s[1] = f /\ s[2] \in Nat
      /\ s[2] <= now /\ \A q \in hit[r].rows : q[1] = f => s[2] <= q[2]
  BY <1>4, RecordFields DEF NextRecord, Left, AloneInv
<1>6. f \in File /\ f \in About(PageOf(r)) /\ f \notin hit[r].todo
  BY <1>2, <1>3, <1>4, Fields, Places DEF AtWork, Working, Fetched
<1>7. w.got = hit[r].got /\ w.rows = hit[r].rows \ {s} /\ w.todo = hit[r].todo /\ w.cur = f /\ w.pc = "update"
  BY <1>2, <1>3 DEF Process
<1>. HIDE DEF w
<1>8. hit'[r] = w /\ \A q \in Hits \ {r} : hit'[q] = hit[q]
  BY <1>2, <1>3 DEF Typed
<1>9. old \in Database /\ Whole(f) /\ old.last \in Int
  BY <1>3, <1>6 DEF Typed, AloneInv, Database
<1>10. /\ old.made => new.made
       /\ IF old.last < s[2] THEN new.last = s[2] /\ new.recs = old.recs \cup {s} ELSE new = old
  BY <1>5, <1>9, Recorded
<1>11. \A g \in File : rrd'[g] = IF g = f THEN new ELSE rrd[g]
  BY <1>2, <1>3, <1>6 DEF Typed
<1>. HIDE DEF new
<1>12. OneAtATime'
  BY <1>2, <1>3, BusyMoves DEF AloneInv
<1>13. ASSUME NEW q \in Hits PROVE Fetched(q)'
  <2>1. CASE q = r
    BY <1>2, <1>4, <1>5, <1>6, <1>7, <1>8, <2>1 DEF Fetched, Recent, PageOf, About
  <2>2. CASE q # r
    BY <1>2, <1>8, <2>2 DEF AloneInv, Fetched, Recent, PageOf, About
  <2>. QED  BY <2>1, <2>2
<1>14. /\ Times(f, old.recs) \subseteq Times(f, new.recs)
       /\ new.last \in Int /\ new.last <= now /\ s[2] <= new.last
       /\ setup.atOnce = 1 => new.made /\ old.made
       /\ setup.atOnce = 1 /\ Young(s[2]) => s[2] \in Times(f, new.recs)
  <2>1. old.recs \subseteq new.recs /\ (old.last < s[2] => s \in new.recs)
    BY <1>10
  <2>2. Times(f, old.recs) \subseteq Times(f, new.recs) /\ (old.last < s[2] => s[2] \in Times(f, new.recs))
    BY <1>5, <2>1, MoreTimes
  <2>3. new.last \in Int /\ new.last <= now /\ s[2] <= new.last
    BY <1>3, <1>5, <1>9, <1>10 DEF Whole
  <2>4. setup.atOnce = 1 => new.made /\ old.made
    BY <1>2, <1>4, <1>10 DEF InItsDatabase
  <2>5. ASSUME setup.atOnce = 1, Young(s[2]), ~ (old.last < s[2]) PROVE s[2] \in Times(f, old.recs)
    BY <1>4, <1>5, <1>9, <2>4, <2>5 DEF InItsDatabase, Has
  <2>. QED  BY <2>2, <2>3, <2>4, <2>5
<1>15. ASSUME setup.atOnce = 1, NEW q \in hit[r].got, q[1] = f, Young(q[2]), q[2] <= new.last
       PROVE  q[2] \in Times(f, new.recs)
  <2>1. q[2] \in Nat
    BY <1>4, RecordFields
  <2>2. CASE q[2] <= old.last
    BY <1>4, <1>14, <1>15, <2>2 DEF InItsDatabase, Has
  <2>3. CASE q \in hit[r].rows /\ ~ (q[2] <= old.last)
    <3>1. q[2] = s[2]
      BY <1>5, <1>9, <1>10, <1>15, <2>1, <2>3
    <3>. QED  BY <1>14, <1>15, <3>1
  <2>4. CASE q \notin hit[r].rows
    BY <1>2, <1>4, <1>14, <1>15, <2>4 DEF InItsDatabase, Has
  <2>. QED  BY <2>2, <2>3, <2>4
<1>16. ASSUME NEW g \in File PROVE Whole(g)'
  <2>1. CASE g = f
    <3>1. Young(new.last) /\ new.made => new.last \in Times(f, new.recs)
      <4>1. CASE old.last < s[2]
        BY <1>5, <1>10, <4>1, MoreTimes
      <4>2. CASE ~ (old.last < s[2])
        BY <1>9, <1>10, <4>2 DEF Whole, Has
      <4>. QED  BY <4>1, <4>2
    <3>2. ASSUME setup.atOnce = 1, NEW q \in db, q[1] = f, Recent(q), Young(q[2]), q[2] <= new.last
          PROVE  q[2] \in Times(f, new.recs)
      <4>1. q[2] \in Nat
        BY <1>3, RecordFields
      <4>2. CASE q \in hit[r].got
        BY <1>15, <3>2, <4>2
      <4>3. CASE q \notin hit[r].got
        <5>1. s[2] <= q[2]
          BY <1>4, <1>5, <1>6, <3>2, <4>3 DEF Fetched
        <5>2. CASE q[2] <= old.last
          BY <1>9, <1>14, <3>2, <5>2 DEF Whole, Has
        <5>3. CASE ~ (q[2] <= old.last)
          <6>1. q[2] = s[2]
            BY <1>5, <1>9, <1>10, <3>2, <4>1, <5>1, <5>3
          <6>. QED  BY <1>14, <3>2, <6>1
        <5>. QED  BY <5>2, <5>3
      <4>. QED  BY <4>2, <4>3
    <3>3. /\ \A q : Recent(q)' = Recent(q)
          /\ \A t : Young(t)' = Young(t)
          /\ \A t : Has(g, t)' <=> t \in Times(g, rrd'[g].recs)
      BY <1>2 DEF Recent, Young, Has
    <3>4. rrd'[g] = new
      BY <1>6, <1>11, <2>1
    <3>. QED  BY <1>2, <1>14, <2>1, <3>1, <3>2, <3>3, <3>4 DEF Whole
  <2>2. CASE g # f
    BY <1>2, <1>11, <2>2 DEF AloneInv, Whole, Recent, Young, Has
  <2>. QED  BY <2>1, <2>2
<1>17. ASSUME setup.atOnce = 1, NEW q \in Hits PROVE InItsDatabase(q)'
  <2>1. CASE q = r
    <3>1. \A x \in hit[r].got : x[1] \in File
      BY <1>4, RecordFields
    <3>2. /\ \A t : Young(t)' = Young(t)
          /\ \A g \in File : \A t : Has(g, t)' <=> t \in Times(g, rrd'[g].recs)
          /\ rrd'[f] = new /\ \A g \in File \ {f} : rrd'[g] = rrd[g]
      BY <1>2, <1>6, <1>11 DEF Young, Has
    <3>3. ASSUME NEW x \in hit[r].got, rrd'[x[1]].made, Young(x[2]), x[2] <= rrd'[x[1]].last
          PROVE  x[2] \in Times(x[1], rrd'[x[1]].recs)
      <4>1. CASE x[1] = f
        BY <1>15, <1>17, <3>2, <3>3, <4>1
      <4>2. CASE x[1] # f
        <5>1. rrd'[x[1]] = rrd[x[1]]
          BY <3>1, <3>2, <4>2
        <5>. QED  BY <1>4, <1>17, <3>3, <5>1 DEF InItsDatabase, Has
      <4>. QED  BY <4>1, <4>2
    <3>4. ASSUME NEW x \in hit[r].got, x[1] = f, Young(x[2])
          PROVE  x \in w.rows \/ x[2] \in Times(f, new.recs)
      <4>1. CASE x = s
        BY <1>14, <1>17, <3>4, <4>1
      <4>2. CASE x # s
        BY <1>2, <1>4, <1>7, <1>14, <1>17, <3>4, <4>2 DEF InItsDatabase, Has
      <4>. QED  BY <4>1, <4>2
    <3>5. new.made
      BY <1>14, <1>17
    <3>. QED  BY <1>7, <1>8, <2>1, <3>1, <3>2, <3>3, <3>4, <3>5 DEF InItsDatabase
  <2>2. CASE q # r
    <3>1. r \in Busy' /\ (hit'[q].pc \in Updating => q \in Busy')
      BY <1>7, <1>8 DEF Busy, Updating
    <3>. QED  BY <1>2, <1>12, <1>17, <2>2, <3>1 DEF OneAtATime, InItsDatabase
  <2>. QED  BY <2>1, <2>2
<1>. QED  BY <1>2, <1>12, <1>13, <1>16, <1>17 DEF AloneInv

----------------------------------------------------------------------------
LEMMA AloneInit == Init => AloneInv
<1> SUFFICES ASSUME Init PROVE AloneInv
  OBVIOUS
<1>1. hit = [r \in Hits |-> Idle] /\ rrd = [f \in File |-> NoRrd] /\ db = {} /\ now = 0
  BY DEF Init
<1>2. Busy = {}
  BY <1>1, IdleProcess DEF Busy
<1>3. \A f \in File : Whole(f)
  BY <1>1 DEF Whole, NoRrd
<1>4. \A r \in Hits : Fetched(r) /\ InItsDatabase(r)
  BY <1>1, IdleProcess DEF Fetched, InItsDatabase, Updating
<1>. QED  BY <1>1, <1>2, <1>3, <1>4, FS_EmptySet DEF AloneInv, OneAtATime

LEMMA AloneStays == AloneInv /\ CacheInv /\ [Next]_vars => AloneInv'
<1> SUFFICES ASSUME AloneInv, CacheInv, [Next]_vars PROVE AloneInv'
  OBVIOUS
<1>1. ASSUME NEW r \in Hits, Serve(r) PROVE AloneInv'
  BY <1>1, AloneStart, AloneQuery, AloneLook, AloneCreate, AloneUpdate, AloneDraw, AloneOther DEF Serve
<1>2. CASE UNCHANGED vars
  <2>1. UNCHANGED <<now, db, rrd, hit, setup>>
    BY <1>2 DEF vars
  <2>2. OneAtATime' /\ \A f \in File : Whole(f)'
    BY <2>1 DEF AloneInv, OneAtATime, Busy, Whole, Recent, Young, Has
  <2>3. \A r \in Hits : Fetched(r)' /\ (setup'.atOnce = 1 => InItsDatabase(r)')
    BY <2>1 DEF AloneInv, Fetched, InItsDatabase, Recent, PageOf, About, Young, Has
  <2>. QED  BY <2>1, <2>2, <2>3 DEF AloneInv
<1>. QED  BY <1>1, <1>2, AloneTick, AloneInsert DEF Next

(* Only a drawing goes on to the next file. *)
LEMMA OnlyDraws ==
    ASSUME CacheInv, [Next]_vars, NEW r \in Hits, hit[r].pc = "update", hit'[r].pc = "next"
    PROVE  Draw(r)
<1>1. hit \in [Hits -> Process]
  BY DEF CacheInv, Typed
<1>2. ASSUME NEW q \in Hits \ {r}, Serve(q) PROVE hit'[r] = hit[r]
  BY <1>1, <1>2 DEF Serve, Start, Query, Look, Create, Update, Draw, Drawn, Open, KeepPage, Write, Send, Fail, Goto
<1>3. ASSUME Serve(r) PROVE Draw(r) \/ Update(r)
  BY <1>3 DEF Serve, Start, Query, Look, Create, Drawn, Open, KeepPage, Write, Send, Fail, At
<1>4. ASSUME Update(r) PROVE hit'[r].pc = "update"
  <2>1. PICK s : hit' = [hit EXCEPT ![r].rows = @ \ {s}]
    BY <1>4 DEF Update
  <2>. QED  BY <1>1, <2>1 DEF Process
<1>5. (\E f \in File : Insert(f)) \/ Tick \/ UNCHANGED vars => UNCHANGED hit
  BY DEF Insert, Tick, vars
<1>. QED  BY <1>2, <1>3, <1>4, <1>5 DEF Next

LEMMA DrawsWhole ==
    ASSUME AloneInv, CacheInv, [Next]_vars
    PROVE  AloneDrawsWhatItFetched
<1> SUFFICES ASSUME setup.atOnce = 1, NEW r \in Hits, NEW f \in File, NEW g \in Graph,
                    hit[r].pc = "update", hit'[r].pc = "next", hit[r].cur = f, NeedsRegen(png[f][g]),
                    png'[f][g].mtime = now
             PROVE  \A t \in Times(f, hit[r].got) : Young(t) => t \in Times(f, png'[f][g].recs)
  BY DEF AloneDrawsWhatItFetched, DrawsWhatItFetched, At, Young
<1>1. Draw(r)
  BY OnlyDraws
<1>2. Typed /\ png[f][g].mtime \in Int /\ now \in Nat
  BY Fields DEF CacheInv
<1>3. png'[f][g] = IF g \in Due(r, f) THEN [mtime |-> now, recs |-> rrd[f].recs] ELSE png[f][g]
  BY <1>1, <1>2 DEF Draw, Typed
<1>4. g \in Due(r, f)
  <2>1. CASE ~Exists(png[f][g])
    BY <1>2, <1>3, <2>1 DEF Exists
  <2>2. CASE now - png[f][g].mtime > MaxAge
    BY <1>2, <1>3, <2>2, Numbers
  <2>. QED  BY <2>1, <2>2 DEF NeedsRegen
<1>5. Fetched(r) /\ InItsDatabase(r) /\ hit[r].pc \in Updating /\ Left(r) = {}
  BY <1>1 DEF AloneInv, Updating, Draw
<1>6. \A q \in hit[r].got : q[1] = f /\ Young(q[2]) => q[2] \in Times(f, rrd[f].recs)
  BY <1>5 DEF InItsDatabase, Left, Has
<1>7. \A t \in Times(f, hit[r].got) : Young(t) => t \in Times(f, rrd[f].recs)
  BY <1>6 DEF Times
<1>. QED  BY <1>3, <1>4, <1>7

----------------------------------------------------------------------------
(* The pages among the scripts.                                            *)
ServesInv == Serves => CacheInv /\ AloneInv

LEMMA ServesAlways == StdevSpec => []ServesInv
<1>1. StdevInit => ServesInv
  BY InitCache, AloneInit DEF StdevInit, ServesInv, Serves, Lands
<1>2. ServesInv /\ [StdevNext]_allVars => ServesInv'
  <2> SUFFICES ASSUME ServesInv, [StdevNext]_allVars, Serves' PROVE CacheInv' /\ AloneInv'
    BY DEF ServesInv
  <2>1. Serves /\ CacheInv /\ AloneInv /\ [Next]_vars
    BY DEF StdevNext, allVars, ofPages, ofLanding, vars, ServesInv, Serves, Lands
  <2>. QED  BY <2>1, CacheStays, AloneStays
<1>. QED  BY <1>1, <1>2, PTL DEF StdevSpec

(* No answer is older than max_age at the time its request came in,        *)
(* whoever made the page in the meantime (the last lines of the scripts).  *)
THEOREM AnswersFreshEver == StdevSpec => AnswersAreFresh
<1>1. ServesInv => (Serves => FreshAnswer)
  BY DEF ServesInv, CacheInv, AnswerReady, FreshAnswer, At
<1>. QED  BY <1>1, ServesAlways, PTL DEF AnswersAreFresh

(* Where requests are served one at a time, a graph shows a sample of      *)
(* every time the request fetched one of, unless rrd_age is over for it:   *)
(* update_rrd is refused no record but of a second that the database has   *)
(* or that is before its beginning, whether it is found or made anew       *)
(* (nsutil.py:106).                                                        *)
THEOREM AloneGraphsEver == StdevSpec => AloneGraphsShowTheirUpdate
<1>1. ServesInv /\ [StdevNext]_allVars => (Serves => AloneDrawsWhatItFetched)
  <2> SUFFICES ASSUME ServesInv, [StdevNext]_allVars, Serves PROVE AloneDrawsWhatItFetched
    OBVIOUS
  <2>1. [Next]_vars
    BY DEF StdevNext, allVars, ofPages, ofLanding, vars, Serves, Lands
  <2>. QED  BY <2>1, DrawsWhole DEF ServesInv
<1>. QED  BY <1>1, ServesAlways, PTL DEF StdevSpec, AloneGraphsShowTheirUpdate

----------------------------------------------------------------------------
(* The landing page.  Its loops over lists are folds: that a fold is what  *)
(* the loop computes, step by step, is an induction over the number of     *)
(* elements, for the set of the numbers for which it holds.                *)

(* Induction over the natural numbers, for a set of them. *)
LEMMA NaturalsFrom ==
    ASSUME NEW A, 0 \in A, \A n \in Nat : n \in A => n + 1 \in A PROVE \A n \in Nat : n \in A
<1> DEFINE Below == {p \in Nat \X Nat : p[1] < p[2]}
           T == {n \in Nat : n \notin A}
<1>1. IsWellFoundedOn(Below, Nat)
  BY NatLessThanWellFounded, Zenon DEF OpToRel
<1>2. SUFFICES ASSUME T # {} PROVE FALSE
  OBVIOUS
<1>3. T \subseteq Nat
  OBVIOUS
<1>4. PICK x \in T : \A y \in T : ~ (<<y, x>> \in Below)
  <2> HIDE DEF T, Below
  <2> QED
    BY <1>1, <1>2, <1>3, WFMin, Zenon
<1>5. x \in Nat /\ x # 0
  OBVIOUS
<1>6. x - 1 \in Nat /\ x - 1 < x
  BY <1>5
<1>7. <<x - 1, x>> \in Below
  BY <1>5, <1>6
<1>8. x - 1 \in A
  BY <1>4, <1>6, <1>7
<1>9. (x - 1) + 1 = x
  BY <1>5
<1> QED
  BY <1>5, <1>6, <1>8, <1>9

(* What a fold over a finite set starts from, and the fold itself: ch says *)
(* which element is taken next, st what it does.                           *)
Foldable(S, ch, X, b, st) ==
    IsFiniteSet(S) /\ (\A s \in SUBSET S : s # {} => ch[s] \in s) /\ b \in X /\ st \in [S -> [X -> X]]
FoldOf(g, S, ch, b, st) ==
    \A s \in SUBSET S : g[s] = IF s = {} THEN b ELSE st[ch[s]][g[s \ {ch[s]}]]

(* A fold over a finite set is defined, whichever element is taken next.   *)
LEMMA FoldExists ==
    ASSUME NEW S, NEW ch, NEW X, NEW b, NEW st, Foldable(S, ch, X, b, st)
    PROVE  \E g \in [SUBSET S -> X] : FoldOf(g, S, ch, b, st)
<1>0. IsFiniteSet(S) /\ (\A s \in SUBSET S : s # {} => ch[s] \in s) /\ b \in X /\ st \in [S -> [X -> X]]
  BY DEF Foldable
<1> DEFINE Taken(g, s) == IF s = {} THEN b ELSE st[ch[s]][g[s \ {ch[s]}]]
           A == {n \in Nat : \E g \in [SUBSET S -> X] : \A s \in SUBSET S : Cardinality(s) <= n => g[s] = Taken(g, s)}
<1>1. \A s \in SUBSET S : IsFiniteSet(s) /\ Cardinality(s) \in Nat /\ (Cardinality(s) = 0 <=> s = {})
  BY <1>0, FS_Subset, FS_CardinalityType, FS_EmptySet
<1>2. \A g \in [SUBSET S -> X], s \in SUBSET S : Taken(g, s) \in X
  <2> SUFFICES ASSUME NEW g \in [SUBSET S -> X], NEW s \in SUBSET S PROVE Taken(g, s) \in X
    OBVIOUS
  <2>1. CASE s = {}
    BY <1>0, <2>1
  <2>2. CASE s # {}
    <3>1. ch[s] \in S /\ s \ {ch[s]} \in SUBSET S
      BY <1>0, <2>2
    <3>2. st[ch[s]] \in [X -> X] /\ g[s \ {ch[s]}] \in X
      BY <1>0, <3>1
    <3> QED
      BY <2>2, <3>2
  <2> QED
    BY <2>1, <2>2
<1>3. 0 \in A
  <2> DEFINE g == [s \in SUBSET S |-> b]
  <2>1. g \in [SUBSET S -> X]
    BY <1>0
  <2>2. \A s \in SUBSET S : Cardinality(s) <= 0 => g[s] = Taken(g, s)
    BY <1>1
  <2> HIDE DEF g
  <2> QED
    BY <2>1, <2>2
<1>4. ASSUME NEW n \in Nat, n \in A PROVE n + 1 \in A
  <2>1. PICK g \in [SUBSET S -> X] : \A s \in SUBSET S : Cardinality(s) <= n => g[s] = Taken(g, s)
    BY <1>4
  <2> DEFINE h == [s \in SUBSET S |-> Taken(g, s)]
  <2>2. h \in [SUBSET S -> X]
    BY <1>2
  <2>3. ASSUME NEW s \in SUBSET S, Cardinality(s) <= n + 1 PROVE h[s] = Taken(h, s)
    <3>1. CASE s = {}
      BY <3>1
    <3>2. CASE s # {}
      <4>1. s \ {ch[s]} \in SUBSET S /\ ch[s] \in s
        BY <1>0, <3>2
      <4>2. Cardinality(s \ {ch[s]}) = Cardinality(s) - 1
        BY <1>1, <4>1, FS_RemoveElement
      <4>3. Cardinality(s \ {ch[s]}) <= n
        BY <1>1, <2>3, <4>2
      <4>4. h[s \ {ch[s]}] = g[s \ {ch[s]}]
        BY <2>1, <4>1, <4>3
      <4>5. h[s] = Taken(g, s)
        OBVIOUS
      <4> HIDE DEF h
      <4> QED
        BY <3>2, <4>4, <4>5
    <3> QED
      BY <3>1, <3>2
  <2> HIDE DEF h, Taken
  <2> QED
    BY <2>2, <2>3
<1>5. Cardinality(S) \in A
  <2> HIDE DEF A
  <2> QED
    BY <1>1, <1>3, <1>4, NaturalsFrom
<1>6. PICK g \in [SUBSET S -> X] : \A s \in SUBSET S : Cardinality(s) <= Cardinality(S) => g[s] = Taken(g, s)
  BY <1>5
<1>7. \A s \in SUBSET S : Cardinality(s) <= Cardinality(S)
  BY <1>0, FS_Subset
<1> QED
  BY <1>6, <1>7 DEF FoldOf

(* The last of the places of a list. *)
LEMMA LastPlace ==
    ASSUME NEW n \in Nat
    PROVE  /\ \A s \in SUBSET (1 .. n) : s # {} => Landing!Max(s) \in s
           /\ \A k \in 1 .. n : /\ Landing!Max(1 .. k) = k /\ (1 .. k) \ {k} = 1 .. k - 1
                                /\ 1 .. k \in SUBSET (1 .. n) /\ 1 .. k # {}
<1> DEFINE A == {m \in Nat : \A s \in SUBSET (1 .. m) : s # {} => \E x \in s : \A y \in s : x >= y}
<1>1. 0 \in A
  <2>1. 1 .. 0 = {}
    OBVIOUS
  <2> QED
    BY <2>1
<1>2. ASSUME NEW m \in Nat, m \in A PROVE m + 1 \in A
  <2> SUFFICES ASSUME NEW s \in SUBSET (1 .. m + 1), s # {} PROVE \E x \in s : \A y \in s : x >= y
    OBVIOUS
  <2>1. CASE m + 1 \in s
    BY <2>1
  <2>2. CASE m + 1 \notin s
    <3>1. s \in SUBSET (1 .. m)
      BY <2>2
    <3> QED
      BY <1>2, <3>1
  <2> QED
    BY <2>1, <2>2
<1>3. n \in A
  <2> HIDE DEF A
  <2> QED
    BY <1>1, <1>2, NaturalsFrom
<1>4. \A s \in SUBSET (1 .. n) : s # {} => \E x \in s : \A y \in s : x >= y
  BY <1>3
<1>5. \A s \in SUBSET (1 .. n) : s # {} => Landing!Max(s) \in s /\ \A y \in s : Landing!Max(s) >= y
  BY <1>4, Zenon DEF Landing!Max
<1>6. ASSUME NEW k \in 1 .. n PROVE /\ Landing!Max(1 .. k) = k /\ (1 .. k) \ {k} = 1 .. k - 1
                                    /\ 1 .. k \in SUBSET (1 .. n) /\ 1 .. k # {}
  <2>1. k \in 1 .. k /\ 1 .. k \in SUBSET (1 .. n) /\ 1 .. k # {} /\ (1 .. k) \ {k} = 1 .. k - 1
    OBVIOUS
  <2>2. Landing!Max(1 .. k) \in 1 .. k /\ Landing!Max(1 .. k) >= k
    BY <1>5, <2>1
  <2> QED
    BY <2>1, <2>2
<1> QED
  BY <1>5, <1>6

(* The choice of the last of the places.                                   *)
LastOf(n) == [s \in SUBSET (1 .. n) |-> Landing!Max(s)]

(* The results of a loop over a list, one after the other.                 *)
LEMMA LoopExists ==
    ASSUME NEW n \in Nat, NEW X, NEW b \in X, NEW st \in [1 .. n -> [X -> X]]
    PROVE  \E g \in [SUBSET (1 .. n) -> X] : FoldOf(g, 1 .. n, LastOf(n), b, st)
<1>1. \A s \in SUBSET (1 .. n) : s # {} => LastOf(n)[s] \in s
  BY LastPlace DEF LastOf
<1>2. Foldable(1 .. n, LastOf(n), X, b, st)
  BY <1>1, FS_Interval DEF Foldable
<1> QED
  BY <1>2, FoldExists, Zenon

(* Those of a list, appended one after the other.                          *)
LEMMA ThoseSteps ==
    ASSUME NEW T, NEW list \in Seq(T), NEW S
    PROVE  \E f : /\ f[0] = <<>> /\ f[Len(list)] = Landing!Those(list, S)
                  /\ \A k \in 1 .. Len(list) :
                        f[k] = IF list[k] \in S THEN Append(f[k - 1], list[k]) ELSE f[k - 1]
<1> DEFINE n == Len(list)
           st == [i \in 1 .. n |-> [x \in Seq(T) |-> IF list[i] \in S THEN Append(x, list[i]) ELSE x]]
           Body(g) == [s \in SUBSET DOMAIN list |->
                          IF s = {} THEN <<>>
                          ELSE LET i == Landing!Max(s)
                               IN  IF list[i] \in S THEN Append(g[s \ {i}], list[i]) ELSE g[s \ {i}]]
           iter == CHOOSE g : g = Body(g)
<1>1. n \in Nat /\ DOMAIN list = 1 .. n /\ \A i \in 1 .. n : list[i] \in T
  OBVIOUS
<1>2. st \in [1 .. n -> [Seq(T) -> Seq(T)]] /\ <<>> \in Seq(T)
  BY <1>1
<1>3. \E g : g = Body(g)
  <2>1. PICK g \in [SUBSET (1 .. n) -> Seq(T)] : FoldOf(g, 1 .. n, LastOf(n), <<>>, st)
    <3> HIDE DEF n, st
    <3> QED
      BY <1>1, <1>2, LoopExists
  <2>2. \A s \in SUBSET (1 .. n) :
           /\ g[s] = IF s = {} THEN <<>> ELSE st[Landing!Max(s)][g[s \ {Landing!Max(s)}]]
           /\ s # {} => Landing!Max(s) \in 1 .. n /\ s \ {Landing!Max(s)} \in SUBSET (1 .. n)
    <3> HIDE DEF n, st
    <3> QED
      BY <1>1, <2>1, LastPlace DEF FoldOf, LastOf
  <2>3. ASSUME NEW s \in SUBSET (1 .. n), s # {}, NEW i, i = Landing!Max(s)
        PROVE  g[s] = IF list[i] \in S THEN Append(g[s \ {i}], list[i]) ELSE g[s \ {i}]
    <3>1. i \in 1 .. n /\ s \ {i} \in SUBSET (1 .. n)
      BY <2>2, <2>3
    <3>2. g[s \ {i}] \in Seq(T)
      BY <2>1, <3>1
    <3>3. g[s] = st[i][g[s \ {i}]]
      BY <2>2, <2>3
    <3> QED
      BY <3>1, <3>2, <3>3
  <2>4. g = [s \in SUBSET (1 .. n) |-> g[s]] /\ g[{}] = <<>>
    BY <2>1, <2>2
  <2>5. \A s \in SUBSET (1 .. n) : g[s] = Body(g)[s]
    BY <1>1, <2>3, <2>4
  <2>6. Body(g) = [s \in SUBSET (1 .. n) |-> Body(g)[s]]
    BY <1>1
  <2> HIDE DEF Body
  <2> QED
    BY <2>4, <2>5, <2>6
<1>4. iter = Body(iter)
  <2> HIDE DEF Body
  <2> QED
    BY <1>3
<1>5. Landing!Those(list, S) = iter[DOMAIN list]
  BY DEF Landing!Those, Landing!FoldLeft, Landing!MapThenFoldSet
<1> DEFINE f == [k \in 0 .. n |-> iter[1 .. k]]
<1> HIDE DEF iter
<1>6. f[0] = <<>>
  <2>1. 1 .. 0 = {} /\ 0 \in 0 .. n
    BY <1>1
  <2>2. iter[{}] = <<>>
    BY <1>4
  <2> QED
    BY <2>1, <2>2
<1>7. f[n] = Landing!Those(list, S)
  BY <1>1, <1>5
<1>8. ASSUME NEW k \in 1 .. n PROVE f[k] = IF list[k] \in S THEN Append(f[k - 1], list[k]) ELSE f[k - 1]
  <2>1. Landing!Max(1 .. k) = k /\ (1 .. k) \ {k} = 1 .. k - 1 /\ 1 .. k \in SUBSET (1 .. n) /\ 1 .. k # {}
    BY <1>1, LastPlace
  <2>2. k \in 0 .. n /\ k - 1 \in 0 .. n
    BY <1>1
  <2>3. iter[1 .. k] = IF list[k] \in S THEN Append(iter[(1 .. k) \ {k}], list[k]) ELSE iter[(1 .. k) \ {k}]
    <3>1. iter[1 .. k] = Body(iter)[1 .. k]
      BY <1>4, Zenon
    <3> QED
      BY <1>1, <2>1, <3>1
  <2> QED
    BY <2>1, <2>2, <2>3
<1> HIDE DEF f, n
<1> QED
  BY <1>6, <1>7, <1>8 DEF n

(* picked holds samples of the first n of a list, as e says, in their order *)
(* and all of them of S.                                                   *)
PickedBy(e, picked, list, S, n) ==
    /\ e \in [1 .. Len(picked) -> 1 .. n]
    /\ \A i, j \in 1 .. Len(picked) : i < j => e[i] < e[j]
    /\ \A i \in 1 .. Len(picked) : picked[i] = list[e[i]] /\ picked[i] \in S

LEMMA OneMorePicked ==
    ASSUME NEW T, NEW picked \in Seq(T), NEW list, NEW S, NEW n \in Nat, NEW e, PickedBy(e, picked, list, S, n)
    PROVE  /\ PickedBy(e, picked, list, S, n + 1)
           /\ list[n + 1] \in S => \E d : PickedBy(d, Append(picked, list[n + 1]), list, S, n + 1)
<1> DEFINE m == Len(picked)
           one == list[n + 1]
           d == [i \in 1 .. m + 1 |-> IF i = m + 1 THEN n + 1 ELSE e[i]]
<1>1. m \in Nat /\ \A i \in 1 .. m : e[i] \in 1 .. n
  BY DEF PickedBy
<1>2. PickedBy(e, picked, list, S, n + 1)
  BY <1>1 DEF PickedBy
<1>3. ASSUME one \in S PROVE PickedBy(d, Append(picked, one), list, S, n + 1)
  <2>1. Len(Append(picked, one)) = m + 1 /\ Append(picked, one)[m + 1] = one
        /\ \A i \in 1 .. m : Append(picked, one)[i] = picked[i]
    OBVIOUS
  <2> HIDE DEF m
  <2>2. d \in [1 .. m + 1 -> 1 .. n + 1]
    BY <1>1
  <2>3. ASSUME NEW i \in 1 .. m + 1, NEW j \in 1 .. m + 1, i < j PROVE d[i] < d[j]
    <3>1. i \in 1 .. m /\ d[i] = e[i] /\ e[i] <= n
      BY <1>1, <2>3
    <3>2. CASE j = m + 1
      BY <1>1, <3>1, <3>2
    <3>3. CASE j # m + 1
      <4>1. j \in 1 .. m /\ d[j] = e[j]
        BY <1>1, <3>3
      <4> QED
        BY <2>3, <3>1, <4>1 DEF PickedBy, m
    <3> QED
      BY <3>2, <3>3
  <2>4. ASSUME NEW i \in 1 .. m + 1 PROVE Append(picked, one)[i] = list[d[i]] /\ Append(picked, one)[i] \in S
    <3>1. CASE i = m + 1
      BY <1>3, <2>1, <3>1
    <3>2. CASE i # m + 1
      <4>1. i \in 1 .. m /\ d[i] = e[i]
        BY <1>1, <3>2
      <4>2. picked[i] = list[e[i]] /\ picked[i] \in S
        BY <4>1 DEF PickedBy, m
      <4> QED
        BY <2>1, <4>1, <4>2
    <3> QED
      BY <3>1, <3>2
  <2> HIDE DEF d, one
  <2> QED
    BY <2>1, <2>2, <2>3, <2>4 DEF PickedBy
<1> QED
  BY <1>2, <1>3

LEMMA ThosePicked ==
    ASSUME NEW T, NEW list \in Seq(T), NEW S
    PROVE  Landing!Those(list, S) \in Seq(T) /\ \E e : PickedBy(e, Landing!Those(list, S), list, S, Len(list))
<1>1. PICK f : /\ f[0] = <<>> /\ f[Len(list)] = Landing!Those(list, S)
               /\ \A k \in 1 .. Len(list) :
                     f[k] = IF list[k] \in S THEN Append(f[k - 1], list[k]) ELSE f[k - 1]
  BY ThoseSteps
<1> DEFINE Good(k) == f[k] \in Seq(T) /\ \E e : PickedBy(e, f[k], list, S, k)
           A == {k \in Nat : k <= Len(list) => Good(k)}
<1>2. 0 \in A
  <2>1. f[0] \in Seq(T) /\ Len(f[0]) = 0
    BY <1>1
  <2>2. PickedBy(<<>>, f[0], list, S, 0)
    BY <2>1 DEF PickedBy
  <2> QED
    BY <2>1, <2>2
<1>3. ASSUME NEW k \in Nat, k \in A PROVE k + 1 \in A
  <2> SUFFICES ASSUME k + 1 <= Len(list) PROVE Good(k + 1)
    OBVIOUS
  <2>1. k <= Len(list) /\ k + 1 \in 1 .. Len(list) /\ (k + 1) - 1 = k /\ list[k + 1] \in T
    OBVIOUS
  <2>2. f[k + 1] = IF list[k + 1] \in S THEN Append(f[k], list[k + 1]) ELSE f[k]
    BY <1>1, <2>1
  <2>3. Good(k)
    BY <1>3, <2>1
  <2>4. PICK e : PickedBy(e, f[k], list, S, k)
    BY <2>3
  <2>5. /\ PickedBy(e, f[k], list, S, k + 1)
        /\ list[k + 1] \in S => \E d : PickedBy(d, Append(f[k], list[k + 1]), list, S, k + 1)
    BY <2>3, <2>4, OneMorePicked
  <2>6. CASE list[k + 1] \in S
    BY <2>1, <2>2, <2>3, <2>5, <2>6
  <2>7. CASE list[k + 1] \notin S
    BY <2>2, <2>3, <2>5, <2>7
  <2> QED
    BY <2>6, <2>7
<1>4. Len(list) \in A
  <2>1. Len(list) \in Nat
    OBVIOUS
  <2> HIDE DEF A
  <2> QED
    BY <1>2, <1>3, <2>1, NaturalsFrom
<1> QED
  BY <1>1, <1>4

(* A sum and the sums before it.                                           *)
LEMMA TotalSteps ==
    ASSUME NEW n \in Nat, NEW numbers \in [1 .. n -> Int]
    PROVE  \E f \in [0 .. n -> Int] : /\ f[0] = 0 /\ f[n] = Landing!Total(numbers)
                                      /\ \A k \in 1 .. n : f[k] = f[k - 1] + numbers[k]
<1> DEFINE st == [i \in 1 .. n |-> [x \in Int |-> x + numbers[i]]]
           Body(g) == [s \in SUBSET DOMAIN numbers |->
                          IF s = {} THEN 0 ELSE LET i == Landing!Max(s) IN g[s \ {i}] + numbers[i]]
           iter == CHOOSE g : g = Body(g)
<1>1. DOMAIN numbers = 1 .. n /\ st \in [1 .. n -> [Int -> Int]] /\ 0 \in Int
  OBVIOUS
<1>2. PICK g \in [SUBSET (1 .. n) -> Int] : FoldOf(g, 1 .. n, LastOf(n), 0, st)
  <2> HIDE DEF st
  <2> QED
    BY <1>1, LoopExists
<1>3. g = Body(g)
  <2>1. \A s \in SUBSET (1 .. n) :
           /\ g[s] = IF s = {} THEN 0 ELSE st[Landing!Max(s)][g[s \ {Landing!Max(s)}]]
           /\ s # {} => Landing!Max(s) \in 1 .. n /\ s \ {Landing!Max(s)} \in SUBSET (1 .. n)
    <3> HIDE DEF st
    <3> QED
      BY <1>1, <1>2, LastPlace DEF FoldOf, LastOf
  <2>2. ASSUME NEW s \in SUBSET (1 .. n), s # {}, NEW i, i = Landing!Max(s)
        PROVE  g[s] = g[s \ {i}] + numbers[i]
    <3>1. i \in 1 .. n /\ s \ {i} \in SUBSET (1 .. n)
      BY <2>1, <2>2
    <3>2. g[s \ {i}] \in Int
      BY <1>2, <3>1
    <3>3. g[s] = st[i][g[s \ {i}]]
      BY <2>1, <2>2
    <3> QED
      BY <3>1, <3>2, <3>3
  <2>3. g = [s \in SUBSET (1 .. n) |-> g[s]] /\ g[{}] = 0
    BY <1>2, <2>1
  <2>4. \A s \in SUBSET (1 .. n) : g[s] = Body(g)[s]
    BY <1>1, <2>2, <2>3
  <2>5. Body(g) = [s \in SUBSET (1 .. n) |-> Body(g)[s]]
    BY <1>1
  <2> HIDE DEF Body
  <2> QED
    BY <2>3, <2>4, <2>5
<1>4. iter = Body(iter)
  <2> HIDE DEF Body
  <2> QED
    BY <1>3
<1>5. Landing!Total(numbers) = iter[DOMAIN numbers]
  BY DEF Landing!Total, Landing!FoldLeft, Landing!MapThenFoldSet
<1> DEFINE f == [k \in 0 .. n |-> iter[1 .. k]]
<1> HIDE DEF iter
<1>6. f[0] = 0
  <2>1. 1 .. 0 = {} /\ 0 \in 0 .. n
    OBVIOUS
  <2>2. iter[{}] = 0
    BY <1>4
  <2> QED
    BY <2>1, <2>2
<1>7. f[n] = Landing!Total(numbers)
  BY <1>1, <1>5
<1>8. ASSUME NEW k \in 1 .. n PROVE f[k] = f[k - 1] + numbers[k]
  <2>1. Landing!Max(1 .. k) = k /\ (1 .. k) \ {k} = 1 .. k - 1 /\ 1 .. k \in SUBSET (1 .. n) /\ 1 .. k # {}
    BY LastPlace
  <2>2. k \in 0 .. n /\ k - 1 \in 0 .. n
    OBVIOUS
  <2>3. iter[1 .. k] = iter[(1 .. k) \ {k}] + numbers[k]
    <3>1. iter[1 .. k] = Body(iter)[1 .. k]
      BY <1>4, Zenon
    <3> QED
      BY <1>1, <2>1, <3>1
  <2> QED
    BY <2>1, <2>2, <2>3
<1>9. f \in [0 .. n -> Int]
  <2> DEFINE A == {k \in Nat : k <= n => f[k] \in Int}
  <2>1. 0 \in A
    BY <1>6
  <2>2. ASSUME NEW k \in Nat, k \in A PROVE k + 1 \in A
    <3> SUFFICES ASSUME k + 1 <= n PROVE f[k + 1] \in Int
      OBVIOUS
    <3>1. k \in 0 .. n /\ k + 1 \in 1 .. n /\ (k + 1) - 1 = k
      OBVIOUS
    <3> HIDE DEF f
    <3>2. f[k + 1] = f[k] + numbers[k + 1] /\ numbers[k + 1] \in Int /\ f[k] \in Int
      BY <1>8, <2>2, <3>1
    <3> QED
      BY <3>2
  <2>3. \A k \in Nat : k \in A
    <3> HIDE DEF A
    <3> QED
      BY <2>1, <2>2, NaturalsFrom
  <2>4. \A k \in 0 .. n : f[k] \in Int
    <3> HIDE DEF f
    <3> QED
      BY <2>3
  <2> QED
    BY <2>4
<1> HIDE DEF f
<1> QED
  BY <1>6, <1>7, <1>8, <1>9

(* The square of the distance of c times x from a; and the sum of such     *)
(* squares for k numbers x of sum s and of squares of sum q.               *)
Apart(c, a, x)        == (c * x - a) * (c * x - a)
Spread(c, a, s, q, k) == ((c * c) * q - 2 * ((c * a) * s)) + k * (a * a)

LEMMA ApartIsNoLess == ASSUME NEW c \in Int, NEW a \in Int, NEW x \in Int
                       PROVE  Apart(c, a, x) \in Int /\ Apart(c, a, x) >= 0
<1>1. ASSUME NEW y \in Int PROVE y * y \in Int /\ y * y >= 0
  <2>1. CASE y >= 0
    BY <2>1
  <2>2. CASE y < 0
    BY <2>2
  <2> QED
    BY <2>1, <2>2
<1>2. c * x - a \in Int
  OBVIOUS
<1> QED
  BY <1>1, <1>2, Zenon DEF Apart

(* A sum of numbers none of which is below zero is as great as each.       *)
LEMMA SumIsAsGreat ==
    ASSUME NEW n \in Nat, NEW d \in [1 .. n -> Int], NEW G \in [0 .. n -> Int], G[0] = 0,
           \A k \in 1 .. n : d[k] >= 0 /\ G[k] = G[k - 1] + d[k]
    PROVE  \A i \in 1 .. n : G[n] >= d[i]
<1> DEFINE A == {k \in Nat : k <= n => G[k] >= 0 /\ \A i \in 1 .. k : G[k] >= d[i]}
<1>1. 0 \in A
  OBVIOUS
<1>2. ASSUME NEW k \in Nat, k \in A PROVE k + 1 \in A
  <2> SUFFICES ASSUME k + 1 <= n PROVE G[k + 1] >= 0 /\ \A i \in 1 .. k + 1 : G[k + 1] >= d[i]
    OBVIOUS
  <2>1. k \in 0 .. n /\ k + 1 \in 0 .. n /\ k + 1 \in 1 .. n /\ (k + 1) - 1 = k
    OBVIOUS
  <2>2. G[k + 1] = G[k] + d[k + 1] /\ d[k + 1] >= 0 /\ d[k + 1] \in Int /\ G[k] \in Int
    BY <2>1
  <2>3. G[k] >= 0 /\ \A i \in 1 .. k : G[k] >= d[i]
    BY <1>2, <2>1
  <2>4. ASSUME NEW i \in 1 .. k + 1 PROVE G[k + 1] >= d[i]
    <3>1. CASE i = k + 1
      BY <2>2, <2>3, <3>1
    <3>2. CASE i # k + 1
      <4>1. i \in 1 .. k /\ d[i] \in Int
        BY <2>1, <3>2
      <4> QED
        BY <2>2, <2>3, <4>1
    <3> QED
      BY <3>1, <3>2
  <2> QED
    BY <2>2, <2>3, <2>4
<1>3. n \in A
  <2> HIDE DEF A
  <2> QED
    BY <1>1, <1>2, NaturalsFrom
<1> QED
  BY <1>3

(* None of the numbers is further from a than all of them together.        *)
LEMMA DistancesAddUp ==
    ASSUME NEW n \in Nat, NEW numbers \in [1 .. n -> Int], NEW c \in Int, NEW a \in Int,
           NEW S \in [0 .. n -> Int], S[0] = 0, \A k \in 1 .. n : S[k] = S[k - 1] + numbers[k],
           NEW Q \in [0 .. n -> Int], Q[0] = 0, \A k \in 1 .. n : Q[k] = Q[k - 1] + numbers[k] * numbers[k]
    PROVE  \A i \in 1 .. n : Spread(c, a, S[n], Q[n], n) >= Apart(c, a, numbers[i])
<1> DEFINE G == [k \in 0 .. n |-> Spread(c, a, S[k], Q[k], k)]
           d == [i \in 1 .. n |-> Apart(c, a, numbers[i])]
<1>1. ASSUME NEW k \in 0 .. n PROVE Spread(c, a, S[k], Q[k], k) \in Int
  <2>1. S[k] \in Int /\ Q[k] \in Int /\ k \in Int
    OBVIOUS
  <2> QED
    BY <2>1 DEF Spread
<1>2. \A i \in 1 .. n : Apart(c, a, numbers[i]) \in Int /\ Apart(c, a, numbers[i]) >= 0
  BY ApartIsNoLess
<1>3. Spread(c, a, 0, 0, 0) = 0
  BY DEF Spread
<1>4. ASSUME NEW k \in 1 .. n
      PROVE  Spread(c, a, S[k], Q[k], k) = Spread(c, a, S[k - 1], Q[k - 1], k - 1) + Apart(c, a, numbers[k])
  <2> DEFINE x == numbers[k]
             s == S[k - 1]
             q == Q[k - 1]
             m == k - 1
  <2>1. x \in Int /\ s \in Int /\ q \in Int /\ m \in Int /\ k = m + 1
    OBVIOUS
  <2>2. S[k] = s + x /\ Q[k] = q + x * x
    OBVIOUS
  <2>3. Spread(c, a, s + x, q + x * x, m + 1) = Spread(c, a, s, q, m) + Apart(c, a, x)
    <3> HIDE DEF x, s, q, m
    <3>1. ((c * c) * (q + x * x) - 2 * ((c * a) * (s + x))) + (m + 1) * (a * a)
            = (((c * c) * q - 2 * ((c * a) * s)) + m * (a * a)) + (c * x - a) * (c * x - a)
      BY <2>1
    <3> QED
      BY <3>1, Zenon DEF Spread, Apart
  <2>4. Spread(c, a, S[k], Q[k], k) = Spread(c, a, s, q, m) + Apart(c, a, x)
    <3> HIDE DEF x, s, q, m
    <3> QED
      BY <2>1, <2>2, <2>3, Zenon
  <2> QED
    BY <2>4
<1>5. G \in [0 .. n -> Int] /\ d \in [1 .. n -> Int] /\ G[0] = 0
  <2>1. G[0] = Spread(c, a, 0, 0, 0)
    OBVIOUS
  <2> QED
    BY <1>1, <1>2, <1>3, <2>1
<1>6. ASSUME NEW k \in 1 .. n PROVE d[k] >= 0 /\ G[k] = G[k - 1] + d[k]
  <2>1. k \in 0 .. n /\ k - 1 \in 0 .. n
    OBVIOUS
  <2>2. G[k] = Spread(c, a, S[k], Q[k], k) /\ G[k - 1] = Spread(c, a, S[k - 1], Q[k - 1], k - 1)
        /\ d[k] = Apart(c, a, numbers[k])
    BY <2>1, Zenon
  <2> QED
    BY <1>2, <1>4, <2>2, Zenon
<1>7. \A i \in 1 .. n : G[n] >= d[i]
  <2> HIDE DEF G, d
  <2> QED
    BY <1>5, <1>6, SumIsAsGreat
<1>8. G[n] = Spread(c, a, S[n], Q[n], n) /\ \A i \in 1 .. n : d[i] = Apart(c, a, numbers[i])
  OBVIOUS
<1> QED
  BY <1>7, <1>8, Zenon

----------------------------------------------------------------------------
(* What is odd among a few samples.                                        *)
Sample == [host : Hosts, prop : Props, data : Int, ctime : Nat]

LEMMA SampleFields == \A r \in Sample : r.host \in Hosts /\ r.prop \in Props /\ r.data \in Int /\ r.ctime \in Nat
BY DEF Sample

LEMMA SeriesFields ==
    ASSUME NEW series \in Seq(Sample)
    PROVE  /\ Len(series) \in Nat /\ DOMAIN series = 1 .. Len(series)
           /\ \A i \in 1 .. Len(series) : /\ series[i] \in Sample
                                          /\ series[i].host \in Hosts /\ series[i].prop \in Props
                                          /\ series[i].data \in Int /\ series[i].ctime \in Nat
<1>1. Len(series) \in Nat /\ DOMAIN series = 1 .. Len(series) /\ \A i \in 1 .. Len(series) : series[i] \in Sample
  OBVIOUS
<1> QED
  BY <1>1, SampleFields, Zenon

LEMMA MoreThanTimes ==
    ASSUME NEW b \in Int, NEW n \in Int, NEW v \in Int, NEW d \in Int, n >= 1, d >= 0, b * v < d, n * v >= d
    PROVE  b < n
<1>1. v >= 0
  <2>1. SUFFICES ASSUME v <= -1 PROVE FALSE
    OBVIOUS
  <2>2. n * v <= -n
    BY <2>1
  <2> QED
    BY <2>2
<1>2. SUFFICES ASSUME b >= n PROVE FALSE
  OBVIOUS
<1>3. b - n \in Int /\ b - n >= 0 /\ (b - n) * v >= 0
  BY <1>1, <1>2
<1>4. b * v = n * v + (b - n) * v
  OBVIOUS
<1> QED
  BY <1>3, <1>4

LEMMA SamplesAdded ==
    ASSUME NEW series \in Seq(Sample)
    PROVE  LET n == Len(series)
               t == Landing!Total(Landing!Data(series))
               q == Landing!Total(Landing!Squares(series))
           IN  t \in Int /\ q \in Int /\ \A i \in 1 .. n : Spread(n, t, t, q, n) >= Apart(n, t, series[i].data)
<1> DEFINE n == Len(series)
           numbers == Landing!Data(series)
           squares == Landing!Squares(series)
<1>1. n \in Nat /\ DOMAIN series = 1 .. n /\ \A i \in 1 .. n : series[i].data \in Int
  BY SeriesFields
<1>2. numbers \in [1 .. n -> Int] /\ \A i \in 1 .. n : numbers[i] = series[i].data
  BY <1>1 DEF Landing!Data
<1>3. squares \in [1 .. n -> Int] /\ \A i \in 1 .. n : squares[i] = numbers[i] * numbers[i]
  BY <1>1, <1>2 DEF Landing!Squares, Landing!Square
<1> HIDE DEF n, numbers, squares
<1>4. PICK S \in [0 .. n -> Int] : S[0] = 0 /\ S[n] = Landing!Total(numbers)
                                   /\ \A k \in 1 .. n : S[k] = S[k - 1] + numbers[k]
  BY <1>1, <1>2, TotalSteps
<1>5. PICK Q \in [0 .. n -> Int] : Q[0] = 0 /\ Q[n] = Landing!Total(squares)
                                   /\ \A k \in 1 .. n : Q[k] = Q[k - 1] + squares[k]
  BY <1>1, <1>3, TotalSteps
<1>6. \A k \in 1 .. n : Q[k] = Q[k - 1] + numbers[k] * numbers[k]
  BY <1>3, <1>5
<1>7. n \in Int /\ S[n] \in Int /\ Q[n] \in Int
  BY <1>1
<1>8. \A i \in 1 .. n : Spread(n, S[n], S[n], Q[n], n) >= Apart(n, S[n], numbers[i])
  <2> DEFINE a == S[n]
  <2> HIDE DEF a
  <2>1. a \in Int
    BY <1>7 DEF a
  <2>2. \A i \in 1 .. n : Spread(n, a, S[n], Q[n], n) >= Apart(n, a, numbers[i])
    BY <1>1, <1>2, <1>4, <1>5, <1>6, <1>7, <2>1, DistancesAddUp
  <2> QED
    BY <2>2 DEF a
<1> QED
  BY <1>2, <1>4, <1>5, <1>7, <1>8 DEF n, numbers, squares

(* No sample of a series is further from the mean, in standard deviations, *)
(* than the root of the length of the series.                              *)
LEMMA OddAmongMany ==
    ASSUME NEW series \in Seq(Sample), NEW i \in 1 .. Len(series), Bound \in Nat,
           Landing!IsOdd(series[i].data, series)
    PROVE  Len(series) > Bound * Bound
<1> DEFINE n == Len(series)
           x == series[i].data
           t == Landing!Total(Landing!Data(series))
           q == Landing!Total(Landing!Squares(series))
           v == n * q - t * t
<1>1. n \in Int /\ n >= 1 /\ x \in Int
  <2> HIDE DEF x
  <2>1. x \in Int
    BY SeriesFields, Zenon DEF x
  <2> QED
    BY <2>1, SeriesFields
<1>2. t \in Int /\ q \in Int /\ Spread(n, t, t, q, n) >= Apart(n, t, x)
  BY SamplesAdded
<1>3. (Bound * Bound) * v < Landing!Abs(n * x - t) * Landing!Abs(n * x - t)
  BY DEF Landing!IsOdd, Landing!Variance, Landing!Deviation, Landing!Square, Landing!Count
<1> HIDE DEF n, x, t, q
<1>4. Landing!Abs(n * x - t) * Landing!Abs(n * x - t) = Apart(n, t, x)
  <2> DEFINE y == n * x - t
  <2>1. y \in Int
    BY <1>1, <1>2
  <2>2. Landing!Abs(y) * Landing!Abs(y) = y * y
    <3> HIDE DEF y
    <3> QED
      BY <2>1 DEF Landing!Abs
  <2> QED
    BY <2>2, Zenon DEF Apart
<1>5. Spread(n, t, t, q, n) = n * v
  BY <1>1, <1>2 DEF Spread
<1>6. v \in Int /\ Bound * Bound \in Int
  BY <1>1, <1>2
<1>7. Apart(n, t, x) \in Int /\ Apart(n, t, x) >= 0
  BY <1>1, <1>2, ApartIsNoLess
<1>8. (Bound * Bound) * v < Apart(n, t, x) /\ n * v >= Apart(n, t, x)
  BY <1>2, <1>3, <1>4, <1>5
<1> DEFINE b == Bound * Bound
           d == Apart(n, t, x)
<1>9. b < n
  <2>1. b \in Int /\ d \in Int /\ d >= 0 /\ b * v < d /\ n * v >= d
    BY <1>6, <1>7, <1>8
  <2> HIDE DEF b, v, d
  <2> QED
    BY <1>1, <1>6, <2>1, MoreThanTimes
<1> QED
  BY <1>1, <1>6, <1>9 DEF n

(* What the analysis of a series notes.                                    *)
Odds == [odd : BOOLEAN, host : Hosts, prop : Props, max : Int, dev : Int, series : Seq(Sample)]

LEMMA OddsFields ==
    \A a \in Odds : /\ a.odd \in BOOLEAN /\ a.host \in Hosts /\ a.prop \in Props
                    /\ a.max \in Int /\ a.dev \in Int /\ a.series \in Seq(Sample)
BY DEF Odds

LEMMA NoteKept ==
    ASSUME NEW a \in Odds, NEW x \in Int, NEW series \in Seq(Sample)
    PROVE  /\ Landing!Note(a, x, series) \in Odds
           /\ Landing!Note(a, x, series).host = a.host
           /\ Landing!Note(a, x, series).prop = a.prop
           /\ Landing!Note(a, x, series).series = a.series
           /\ Landing!Note(a, x, series).odd => a.odd \/ Landing!IsOdd(x, series)
<1> DEFINE d == Landing!Deviation(x, series)
           T == Seq(Sample)
<1>1. d \in Int
  <2> DEFINE n == Len(series)
             t == Landing!Total(Landing!Data(series))
  <2>1. n \in Int /\ t \in Int
    BY SamplesAdded
  <2> HIDE DEF n, t
  <2>2. Landing!Abs(n * x - t) \in Int
    BY <2>1 DEF Landing!Abs
  <2> QED
    BY <2>2 DEF n, t, Landing!Deviation, Landing!Count
<1> HIDE DEF T
<1>2. a \in [odd : BOOLEAN, host : Hosts, prop : Props, max : Int, dev : Int, series : T]
  BY DEF Odds, T
<1>3. Landing!Note(a, x, series)
        = IF ~ Landing!IsOdd(x, series) THEN a
          ELSE IF Landing!Count(series) * a.max < d THEN [a EXCEPT !.odd = TRUE, !.max = x, !.dev = d]
               ELSE [a EXCEPT !.odd = TRUE]
  BY DEF Landing!Note
<1> HIDE DEF d
<1>4. CASE ~ Landing!IsOdd(x, series)
  BY <1>3, <1>4
<1>5. CASE Landing!IsOdd(x, series) /\ Landing!Count(series) * a.max < d
  BY <1>1, <1>2, <1>3, <1>5 DEF Odds, T
<1>6. CASE Landing!IsOdd(x, series) /\ ~ (Landing!Count(series) * a.max < d)
  BY <1>2, <1>3, <1>6 DEF Odds, T
<1> QED
  BY <1>4, <1>5, <1>6

(* The analysis of a series: one note after the other.                     *)
LEMMA AnalyzeSteps ==
    ASSUME NEW host \in Hosts, NEW prop \in Props, NEW series \in Seq(Sample)
    PROVE  \E f : /\ f[0] = Landing!NotOdd(host, prop, series)
                  /\ f[Len(series)] = Landing!Analyze(host, prop, series)
                  /\ \A k \in 1 .. Len(series) : f[k] = Landing!Note(f[k - 1], series[k].data, series)
<1> DEFINE n == Len(series)
           b == Landing!NotOdd(host, prop, series)
           st == [i \in 1 .. n |-> [x \in Odds |-> Landing!Note(x, series[i].data, series)]]
           Body(g) == [s \in SUBSET DOMAIN series |->
                          IF s = {} THEN b
                          ELSE LET i == Landing!Max(s) IN Landing!Note(g[s \ {i}], series[i].data, series)]
           iter == CHOOSE g : g = Body(g)
<1>1. n \in Nat /\ DOMAIN series = 1 .. n /\ \A i \in 1 .. n : series[i].data \in Int
  BY SeriesFields
<1>2. st \in [1 .. n -> [Odds -> Odds]]
  BY <1>1, NoteKept
<1>3. b \in Odds
  BY DEF Odds, Landing!NotOdd
<1> HIDE DEF b
<1>4. PICK g \in [SUBSET (1 .. n) -> Odds] : FoldOf(g, 1 .. n, LastOf(n), b, st)
  <2> HIDE DEF st, n
  <2> QED
    BY <1>1, <1>2, <1>3, LoopExists
<1>5. g = Body(g)
  <2>1. \A s \in SUBSET (1 .. n) :
           /\ g[s] = IF s = {} THEN b ELSE st[Landing!Max(s)][g[s \ {Landing!Max(s)}]]
           /\ s # {} => Landing!Max(s) \in 1 .. n /\ s \ {Landing!Max(s)} \in SUBSET (1 .. n)
    <3> HIDE DEF st, n
    <3> QED
      BY <1>1, <1>4, LastPlace DEF FoldOf, LastOf
  <2>2. ASSUME NEW s \in SUBSET (1 .. n), s # {}, NEW i, i = Landing!Max(s)
        PROVE  g[s] = Landing!Note(g[s \ {i}], series[i].data, series)
    <3>1. i \in 1 .. n /\ s \ {i} \in SUBSET (1 .. n)
      BY <2>1, <2>2
    <3>2. g[s \ {i}] \in Odds
      BY <1>4, <3>1
    <3>3. g[s] = st[i][g[s \ {i}]]
      BY <2>1, <2>2
    <3> QED
      BY <3>1, <3>2, <3>3
  <2>3. g = [s \in SUBSET (1 .. n) |-> g[s]] /\ g[{}] = b
    BY <1>4, <2>1
  <2>4. \A s \in SUBSET (1 .. n) : g[s] = Body(g)[s]
    BY <1>1, <2>2, <2>3
  <2>5. Body(g) = [s \in SUBSET (1 .. n) |-> Body(g)[s]]
    BY <1>1
  <2> HIDE DEF Body
  <2> QED
    BY <2>3, <2>4, <2>5
<1>6. iter = Body(iter)
  <2> HIDE DEF Body
  <2> QED
    BY <1>5
<1>7. Landing!Analyze(host, prop, series) = iter[DOMAIN series]
  BY DEF b, Landing!Analyze, Landing!FoldLeft, Landing!MapThenFoldSet
<1> DEFINE f == [k \in 0 .. n |-> iter[1 .. k]]
<1> HIDE DEF iter
<1>8. f[0] = b
  <2>1. 1 .. 0 = {} /\ 0 \in 0 .. n
    BY <1>1
  <2>2. iter[{}] = b
    BY <1>6
  <2> QED
    BY <2>1, <2>2
<1>9. f[n] = Landing!Analyze(host, prop, series)
  BY <1>1, <1>7
<1>10. ASSUME NEW k \in 1 .. n PROVE f[k] = Landing!Note(f[k - 1], series[k].data, series)
  <2>1. Landing!Max(1 .. k) = k /\ (1 .. k) \ {k} = 1 .. k - 1 /\ 1 .. k \in SUBSET (1 .. n) /\ 1 .. k # {}
    BY <1>1, LastPlace
  <2>2. k \in 0 .. n /\ k - 1 \in 0 .. n
    BY <1>1
  <2>3. iter[1 .. k] = Landing!Note(iter[(1 .. k) \ {k}], series[k].data, series)
    <3>1. iter[1 .. k] = Body(iter)[1 .. k]
      BY <1>6, Zenon
    <3> QED
      BY <1>1, <2>1, <3>1
  <2> QED
    BY <2>1, <2>2, <2>3
<1> HIDE DEF f, n
<1> QED
  BY <1>8, <1>9, <1>10 DEF b, n

(* What is noted of a series is noted under its own names, and that it is  *)
(* odd only if one of its samples is.                                      *)
LEMMA AnalyzeNotes ==
    ASSUME NEW host \in Hosts, NEW prop \in Props, NEW series \in Seq(Sample)
    PROVE  /\ Landing!Analyze(host, prop, series) \in Odds
           /\ Landing!Analyze(host, prop, series).host = host
           /\ Landing!Analyze(host, prop, series).prop = prop
           /\ Landing!Analyze(host, prop, series).series = series
           /\ Landing!Analyze(host, prop, series).odd
                => \E i \in 1 .. Len(series) : Landing!IsOdd(series[i].data, series)
<1>1. PICK f : /\ f[0] = Landing!NotOdd(host, prop, series)
               /\ f[Len(series)] = Landing!Analyze(host, prop, series)
               /\ \A k \in 1 .. Len(series) : f[k] = Landing!Note(f[k - 1], series[k].data, series)
  BY AnalyzeSteps
<1> DEFINE Good(a) == /\ a \in Odds /\ a.host = host /\ a.prop = prop /\ a.series = series
                      /\ a.odd => \E i \in 1 .. Len(series) : Landing!IsOdd(series[i].data, series)
           A == {k \in Nat : k <= Len(series) => Good(f[k])}
<1>2. 0 \in A
  <2>1. Good(Landing!NotOdd(host, prop, series))
    BY DEF Odds, Landing!NotOdd
  <2> QED
    BY <1>1, <2>1
<1>3. ASSUME NEW k \in Nat, k \in A PROVE k + 1 \in A
  <2> SUFFICES ASSUME k + 1 <= Len(series) PROVE Good(f[k + 1])
    OBVIOUS
  <2>1. Len(series) \in Nat /\ k + 1 \in 1 .. Len(series) /\ (k + 1) - 1 = k /\ k <= Len(series)
    BY SeriesFields
  <2>2. f[k + 1] = Landing!Note(f[k], series[k + 1].data, series)
    BY <1>1, <2>1
  <2>3. series[k + 1].data \in Int /\ Good(f[k])
    BY <1>3, <2>1, SeriesFields
  <2> DEFINE a == f[k]
             x == series[k + 1].data
  <2>4. a \in Odds /\ x \in Int
    BY <2>3
  <2>5. /\ Landing!Note(a, x, series) \in Odds
        /\ Landing!Note(a, x, series).host = a.host
        /\ Landing!Note(a, x, series).prop = a.prop
        /\ Landing!Note(a, x, series).series = a.series
        /\ Landing!Note(a, x, series).odd => a.odd \/ Landing!IsOdd(x, series)
    <3> HIDE DEF a, x, Good, A
    <3> QED
      BY <2>4, NoteKept
  <2> QED
    BY <2>1, <2>2, <2>3, <2>5
<1>4. Len(series) \in A
  <2>1. Len(series) \in Nat
    BY SeriesFields
  <2> HIDE DEF A
  <2> QED
    BY <1>2, <1>3, <2>1, NaturalsFrom
<1> QED
  BY <1>1, <1>4

----------------------------------------------------------------------------
(* What is fetched for a property, and what is found in it.                *)
InTime(s)         == \A i, j \in 1 .. Len(s) : i < j => s[i].ctime < s[j].ctime
SeriesOf(s, h, p) == /\ s \in Seq(Sample) /\ InTime(s)
                     /\ \A i \in 1 .. Len(s) : s[i].host = h /\ s[i].prop = p

Tabled == table \in Seq(Sample) /\ \A i \in 1 .. Len(table) : table[i].ctime = i

LEMMA ThoseInTime ==
    ASSUME NEW list \in Seq(Sample), InTime(list), NEW S
    PROVE  /\ Landing!Those(list, S) \in Seq(Sample) /\ InTime(Landing!Those(list, S))
           /\ \A i \in 1 .. Len(Landing!Those(list, S)) :
                 /\ Landing!Those(list, S)[i] \in S
                 /\ \E j \in 1 .. Len(list) : Landing!Those(list, S)[i] = list[j]
<1> DEFINE those == Landing!Those(list, S)
<1>1. those \in Seq(Sample) /\ \E e : PickedBy(e, those, list, S, Len(list))
  BY ThosePicked
<1> HIDE DEF those
<1>2. PICK e : PickedBy(e, those, list, S, Len(list))
  BY <1>1
<1>3. \A i \in 1 .. Len(those) : e[i] \in 1 .. Len(list) /\ those[i] = list[e[i]] /\ those[i] \in S
  BY <1>2 DEF PickedBy
<1>4. InTime(those)
  <2> SUFFICES ASSUME NEW i \in 1 .. Len(those), NEW j \in 1 .. Len(those), i < j
               PROVE  those[i].ctime < those[j].ctime
    BY DEF InTime
  <2>1. e[i] < e[j]
    BY <1>2 DEF PickedBy
  <2>2. list[e[i]].ctime < list[e[j]].ctime
    BY <1>3, <2>1 DEF InTime
  <2> QED
    BY <1>3, <2>2
<1> QED
  BY <1>1, <1>3, <1>4 DEF those

LEMMA RecentInTime ==
    ASSUME Tabled, NEW prop \in Props
    PROVE  /\ Landing!Recent(prop) \in Seq(Sample) /\ InTime(Landing!Recent(prop))
           /\ \A i \in 1 .. Len(Landing!Recent(prop)) : Landing!Recent(prop)[i].prop = prop
<1>1. table \in Seq(Sample) /\ InTime(table)
  BY DEF Tabled, InTime
<1> DEFINE S == {r \in Landing!ToSet(table) : r.prop = prop /\ r.ctime > Len(table) - Window}
<1>2. Landing!Recent(prop) = Landing!Those(table, S)
  BY Zenon DEF Landing!Recent
<1>3. \A r \in S : r.prop = prop
  OBVIOUS
<1> HIDE DEF S
<1> QED
  BY <1>1, <1>2, <1>3, ThoseInTime

LEMMA FetchedShape ==
    ASSUME Tabled, NEW prop \in Props
    PROVE  /\ DOMAIN Landing!PropData(prop) \subseteq Hosts /\ IsFiniteSet(DOMAIN Landing!PropData(prop))
           /\ \A h \in DOMAIN Landing!PropData(prop) : SeriesOf(Landing!PropData(prop)[h], h, prop)
<1> DEFINE recent == Landing!Recent(prop)
           H == { r.host : r \in Landing!ToSet(recent) }
<1>1. recent \in Seq(Sample) /\ InTime(recent) /\ \A i \in 1 .. Len(recent) : recent[i].prop = prop
  BY RecentInTime
<1>2. DOMAIN Landing!PropData(prop) = H
      /\ \A h \in H : Landing!PropData(prop)[h] = Landing!Those(recent, {r \in Landing!ToSet(table) : r.host = h})
  BY DEF Landing!PropData
<1> HIDE DEF recent
<1>3. Len(recent) \in Nat /\ DOMAIN recent = 1 .. Len(recent)
      /\ \A i \in 1 .. Len(recent) : recent[i].host \in Hosts
  BY <1>1, SeriesFields
<1>4. H = { recent[i].host : i \in 1 .. Len(recent) }
  BY <1>3 DEF Landing!ToSet
<1>5. H \subseteq Hosts
  BY <1>3, <1>4
<1>6. IsFiniteSet(H)
  <2>1. IsFiniteSet(1 .. Len(recent))
    BY <1>3, FS_Interval
  <2> DEFINE of == [i \in 1 .. Len(recent) |-> recent[i].host]
  <2>2. of \in Surjection(1 .. Len(recent), H)
    BY <1>4 DEF Surjection
  <2> HIDE DEF of, H
  <2> QED
    BY <2>1, <2>2, FS_Surjection
<1>7. ASSUME NEW h \in H PROVE SeriesOf(Landing!PropData(prop)[h], h, prop)
  <2> DEFINE S == {r \in Landing!ToSet(table) : r.host = h}
             those == Landing!Those(recent, S)
  <2>1. \A r \in S : r.host = h
    OBVIOUS
  <2>2. Landing!PropData(prop)[h] = those
    BY <1>2
  <2> HIDE DEF S
  <2>3. /\ those \in Seq(Sample) /\ InTime(those)
        /\ \A i \in 1 .. Len(those) : those[i] \in S /\ \E j \in 1 .. Len(recent) : those[i] = recent[j]
    BY <1>1, ThoseInTime
  <2> HIDE DEF those
  <2> QED
    BY <1>1, <2>1, <2>2, <2>3 DEF SeriesOf
<1> HIDE DEF H
<1> QED
  BY <1>2, <1>5, <1>6, <1>7

(* An anomaly is found in the samples of its own host and property, and    *)
(* there are enough of them for one of them to be odd.                     *)
Found(a) == SeriesOf(a.series, a.host, a.prop) /\ Len(a.series) > Bound * Bound

LEMMA ListOfSet ==
    ASSUME NEW S, IsFiniteSet(S), NEW s \in Landing!SetToSeqs(S)
    PROVE  /\ s \in Seq(S) /\ DOMAIN s = 1 .. Len(s) /\ Len(s) \in Nat
           /\ \A i \in 1 .. Len(s) : s[i] \in S
           /\ \A i, j \in 1 .. Len(s) : s[i] = s[j] => i = j
<1>1. \A T : Landing!Cardinality(T) = Cardinality(T)
  BY DEF Cardinality, Landing!Cardinality
<1> DEFINE n == Cardinality(S)
<1>2. n \in Nat
  BY FS_CardinalityType
<1>3. s \in [1 .. n -> S] /\ \A i, j \in 1 .. n : i # j => s[i] # s[j]
  BY <1>1 DEF Landing!SetToSeqs
<1> HIDE DEF n
<1>4. s \in Seq(S) /\ Len(s) = n
  BY <1>2, <1>3
<1> QED
  BY <1>2, <1>3, <1>4

LEMMA MultiFinds ==
    ASSUME Bound \in Nat, NEW prop \in Props, NEW data, DOMAIN data \subseteq Hosts, IsFiniteSet(DOMAIN data),
           \A h \in DOMAIN data : SeriesOf(data[h], h, prop),
           NEW hosts \in Landing!SetToSeqs(DOMAIN data)
    PROVE  LET found == Landing!AnalyzeMulti(prop, data, hosts)
           IN  /\ found \in Seq(Odds)
               /\ \A i \in 1 .. Len(found) : Found(found[i]) /\ found[i].prop = prop /\ found[i].host \in DOMAIN data
               /\ \A i, j \in 1 .. Len(found) : found[i].host = found[j].host => i = j
<1> DEFINE results == [i \in DOMAIN hosts |-> Landing!Analyze(hosts[i], prop, data[hosts[i]])]
           S == {a \in Landing!ToSet(results) : a.odd}
           found == Landing!Those(results, S)
           n == Len(hosts)
<1>1. n \in Nat /\ DOMAIN hosts = 1 .. n /\ (\A i \in 1 .. n : hosts[i] \in DOMAIN data)
      /\ \A i, j \in 1 .. n : hosts[i] = hosts[j] => i = j
  BY ListOfSet
<1> HIDE DEF n
<1>2. \A i \in 1 .. n : /\ results[i] \in Odds /\ results[i].host = hosts[i] /\ results[i].prop = prop
                        /\ SeriesOf(results[i].series, hosts[i], prop)
                        /\ results[i].odd => Len(results[i].series) > Bound * Bound
  <2> SUFFICES ASSUME NEW i \in 1 .. n
               PROVE  /\ results[i] \in Odds /\ results[i].host = hosts[i] /\ results[i].prop = prop
                      /\ SeriesOf(results[i].series, hosts[i], prop)
                      /\ results[i].odd => Len(results[i].series) > Bound * Bound
    OBVIOUS
  <2> DEFINE h == hosts[i]
             series == data[h]
  <2>1. h \in Hosts /\ SeriesOf(series, h, prop)
    BY <1>1
  <2>2. results[i] = Landing!Analyze(h, prop, series)
    BY <1>1
  <2> HIDE DEF h, series, results
  <2>3. series \in Seq(Sample)
    BY <2>1 DEF SeriesOf
  <2>4. /\ results[i] \in Odds /\ results[i].host = h /\ results[i].prop = prop /\ results[i].series = series
        /\ results[i].odd => \E k \in 1 .. Len(series) : Landing!IsOdd(series[k].data, series)
    BY <2>1, <2>2, <2>3, AnalyzeNotes
  <2>5. results[i].odd => Len(series) > Bound * Bound
    BY <2>3, <2>4, OddAmongMany
  <2> QED
    BY <2>1, <2>4, <2>5 DEF h
<1>3. results \in Seq(Odds) /\ Len(results) = n
  <2>1. results \in [1 .. n -> Odds]
    BY <1>1, <1>2
  <2> HIDE DEF results
  <2> QED
    BY <1>1, <2>1
<1>4. Landing!AnalyzeMulti(prop, data, hosts) = found
  BY Zenon DEF Landing!AnalyzeMulti
<1>5. \A a \in S : a.odd
  OBVIOUS
<1> HIDE DEF S, results
<1>6. found \in Seq(Odds) /\ \E e : PickedBy(e, found, results, S, n)
  BY <1>3, ThosePicked
<1> HIDE DEF found
<1>7. PICK e : PickedBy(e, found, results, S, n)
  BY <1>6
<1>8. Len(found) \in Nat
  BY <1>6
<1>9. ASSUME NEW i \in 1 .. Len(found)
      PROVE  /\ e[i] \in 1 .. n /\ found[i] = results[e[i]] /\ found[i].odd
             /\ found[i].host = hosts[e[i]] /\ found[i].prop = prop /\ found[i].host \in DOMAIN data
             /\ Found(found[i])
  <2>1. e[i] \in 1 .. n /\ found[i] = results[e[i]] /\ found[i].odd
    BY <1>5, <1>7 DEF PickedBy
  <2> QED
    BY <1>1, <1>2, <2>1 DEF Found
<1>10. ASSUME NEW i \in 1 .. Len(found), NEW j \in 1 .. Len(found), found[i].host = found[j].host PROVE i = j
  <2>1. e[i] = e[j]
    BY <1>1, <1>9, <1>10
  <2>2. /\ i < j => e[i] < e[j]
        /\ j < i => e[j] < e[i]
    BY <1>7 DEF PickedBy
  <2>3. e[i] \in Int /\ e[j] \in Int
    BY <1>9
  <2> QED
    BY <1>8, <2>1, <2>2, <2>3
<1> QED
  BY <1>4, <1>6, <1>9, <1>10

----------------------------------------------------------------------------
(* What holds at every step of the landing page: the samples stand in the  *)
(* order of their times; no property is fetched twice, and nothing was     *)
(* found yet of one that is still to come; what is held of a host is one   *)
(* series; what was found was found in a series of its own.                *)
TodoOnce  == todo \in Seq(Props) /\ \A i, j \in 1 .. Len(todo) : todo[i] = todo[j] => i = j
OneSeries == \A h \in DOMAIN propData : \E p \in Props : SeriesOf(propData[h], h, p)
OddFound  == /\ anomalies \in Seq(Odds)
             /\ \A i \in 1 .. Len(anomalies) : Found(anomalies[i]) /\ anomalies[i].host \in DOMAIN propData
OddOnce   == \A i, j \in 1 .. Len(anomalies) :
                anomalies[i].host = anomalies[j].host /\ anomalies[i].prop = anomalies[j].prop => i = j
NotYetOdd == /\ pc = "idle" => anomalies = <<>>
             /\ \A i \in 1 .. Len(anomalies), j \in 1 .. Len(todo) : anomalies[i].prop # todo[j]
DrawnFrom == /\ page \in Seq(Odds)
             /\ \A k \in DOMAIN rrd : \E p \in Props : SeriesOf(rrd[k], k[1], p)

LandInv == Tabled /\ TodoOnce /\ OneSeries /\ OddFound /\ OddOnce /\ NotYetOdd /\ DrawnFrom

LandingFacts == /\ Bound \in Nat /\ Window \in Nat /\ Values \subseteq Int
                /\ \A t \in Tables : t \in Seq(Sample) /\ \A i \in DOMAIN t : t[i].ctime = i

LEMMA LandingAssumed == LandingFacts
<1> DEFINE T == [host : Hosts, prop : Props, data : Int, ctime : Nat]
<1>1. /\ Bound \in Nat /\ Window \in Nat /\ Values \subseteq Int
      /\ \A t \in Tables : t \in Seq(T) /\ \A i \in DOMAIN t : t[i].ctime = i
  BY StdevConstants DEF Landing!LandingConstants
<1>2. T = Sample
  BY DEF Sample
<1> HIDE DEF T
<1> QED
  BY <1>1, <1>2 DEF LandingFacts

LEMMA EmptyList == \A T : <<>> \in Seq(T) /\ Len(<<>>) = 0 /\ 1 .. 0 = {} /\ DOMAIN <<>> = {}
OBVIOUS

LEMMA LandsSo == ASSUME Landing!Init PROVE LandInv
<1>1. table \in Seq(Sample) /\ \A i \in DOMAIN table : table[i].ctime = i
  BY LandingAssumed DEF LandingFacts, Landing!Init
<1>2. todo = <<>> /\ propData = <<>> /\ anomalies = <<>> /\ rrd = <<>> /\ page = <<>>
  BY DEF Landing!Init
<1>3. Tabled
  BY <1>1, SeriesFields DEF Tabled
<1>4. TodoOnce /\ OneSeries /\ OddFound /\ OddOnce /\ NotYetOdd /\ DrawnFrom
  BY <1>2, EmptyList, Zenon DEF TodoOnce, OneSeries, OddFound, OddOnce, NotYetOdd, DrawnFrom
<1> QED
  BY <1>3, <1>4 DEF LandInv

LEMMA Unchanged ==
    /\ Tabled /\ table' = table => Tabled'
    /\ TodoOnce /\ todo' = todo => TodoOnce'
    /\ OneSeries /\ propData' = propData => OneSeries'
    /\ OddFound /\ anomalies' = anomalies /\ propData' = propData => OddFound'
    /\ OddOnce /\ anomalies' = anomalies => OddOnce'
    /\ NotYetOdd /\ pc' = pc /\ anomalies' = anomalies /\ todo' = todo => NotYetOdd'
    /\ DrawnFrom /\ page' = page /\ rrd' = rrd => DrawnFrom'
<1>1. Tabled /\ table' = table => Tabled'
  BY DEF Tabled
<1>2. TodoOnce /\ todo' = todo => TodoOnce'
  BY DEF TodoOnce
<1>3. OneSeries /\ propData' = propData => OneSeries'
  BY DEF OneSeries
<1>4. OddFound /\ anomalies' = anomalies /\ propData' = propData => OddFound'
  BY DEF OddFound, Found
<1>5. OddOnce /\ anomalies' = anomalies => OddOnce'
  BY DEF OddOnce
<1>6. NotYetOdd /\ pc' = pc /\ anomalies' = anomalies /\ todo' = todo => NotYetOdd'
  BY DEF NotYetOdd
<1>7. DrawnFrom /\ page' = page /\ rrd' = rrd => DrawnFrom'
  BY DEF DrawnFrom
<1> QED
  BY <1>1, <1>2, <1>3, <1>4, <1>5, <1>6, <1>7

LEMMA StoreKeeps == ASSUME LandInv, Landing!Store PROVE LandInv'
<1>1. PICK h \in Hosts, p \in Props, v \in Values :
         table' = Append(table, [host |-> h, prop |-> p, data |-> v, ctime |-> Len(table) + 1])
  BY DEF Landing!Store
<1> DEFINE r == [host |-> h, prop |-> p, data |-> v, ctime |-> Len(table) + 1]
<1>2. table \in Seq(Sample) /\ Len(table) \in Nat /\ \A i \in 1 .. Len(table) : table[i].ctime = i
  BY SeriesFields DEF LandInv, Tabled
<1>3. r \in Sample /\ r.ctime = Len(table) + 1
  BY <1>2, LandingAssumed DEF LandingFacts, Sample
<1> HIDE DEF r
<1>4. table' = Append(table, r)
  BY <1>1 DEF r
<1>5. Tabled'
  BY <1>2, <1>3, <1>4 DEF Tabled
<1>6. UNCHANGED <<pc, todo, propData, anomalies, rrd, page>>
  BY DEF Landing!Store
<1> QED
  BY <1>5, <1>6, Unchanged DEF LandInv

LEMMA BeginKeeps == ASSUME LandInv, Landing!Begin PROVE LandInv'
<1> DEFINE P == { table[i].prop : i \in DOMAIN table }
<1>1. table \in Seq(Sample) /\ Len(table) \in Nat /\ DOMAIN table = 1 .. Len(table)
      /\ \A i \in 1 .. Len(table) : table[i].prop \in Props
  BY SeriesFields DEF LandInv, Tabled
<1>2. P \subseteq Props
  BY <1>1
<1>3. IsFiniteSet(P)
  <2>1. IsFiniteSet(1 .. Len(table))
    BY <1>1, FS_Interval
  <2> DEFINE of == [i \in 1 .. Len(table) |-> table[i].prop]
  <2>2. of \in Surjection(1 .. Len(table), P)
    BY <1>1 DEF Surjection
  <2> HIDE DEF of, P
  <2> QED
    BY <2>1, <2>2, FS_Surjection
<1>4. todo' \in Landing!SetToSeqs(P) /\ anomalies = <<>> /\ pc' = "fetch"
      /\ UNCHANGED <<table, propData, anomalies, rrd, page>>
  BY DEF Landing!Begin, LandInv, NotYetOdd
<1> HIDE DEF P
<1>5. todo' \in Seq(P) /\ \A i, j \in 1 .. Len(todo') : todo'[i] = todo'[j] => i = j
  BY <1>3, <1>4, ListOfSet
<1>6. TodoOnce'
  <2>1. todo' \in Seq(Props)
    BY <1>2, <1>5
  <2> QED
    BY <1>5, <2>1 DEF TodoOnce
<1>7. NotYetOdd'
  <2>1. Len(anomalies') = 0
    BY <1>4, EmptyList
  <2> QED
    BY <1>4, <2>1 DEF NotYetOdd
<1>8. Tabled' /\ OneSeries' /\ OddFound' /\ OddOnce' /\ DrawnFrom'
  BY <1>4, Unchanged DEF LandInv
<1> QED
  BY <1>6, <1>7, <1>8 DEF LandInv

(* A list behind another one.                                              *)
Behind(s, t) == s \o t

LEMMA BehindElements ==
    ASSUME NEW T, NEW s \in Seq(T), NEW t \in Seq(T)
    PROVE  /\ Behind(s, t) \in Seq(T)
           /\ \A i \in 1 .. Len(Behind(s, t)) :
                 \/ i \in 1 .. Len(s) /\ Behind(s, t)[i] = s[i]
                 \/ i > Len(s) /\ i - Len(s) \in 1 .. Len(t) /\ Behind(s, t)[i] = t[i - Len(s)]
BY DEF Behind

LEMMA TodoTail ==
    ASSUME TodoOnce, todo # <<>>
    PROVE  /\ Head(todo) \in Props /\ Tail(todo) \in Seq(Props) /\ 1 \in 1 .. Len(todo) /\ Head(todo) = todo[1]
           /\ \A i \in 1 .. Len(Tail(todo)) : i + 1 \in 1 .. Len(todo) /\ Tail(todo)[i] = todo[i + 1]
BY DEF TodoOnce

LEMMA FetchKeeps == ASSUME LandInv, Landing!Fetch PROVE LandInv'
<1>1. TodoOnce /\ todo # <<>> /\ UNCHANGED <<table, stored, rrd, page>> /\ pc = "fetch"
  BY DEF LandInv, Landing!Fetch
<1>2. Tabled' /\ DrawnFrom'
  BY <1>1, Unchanged DEF LandInv
<1> DEFINE prop == Head(todo)
           data == Landing!PropData(prop)
<1>3. CASE pc' = "failed" /\ UNCHANGED <<todo, propData, anomalies>>
  <2>1. NotYetOdd'
    BY <1>3 DEF LandInv, NotYetOdd
  <2>2. TodoOnce' /\ OneSeries' /\ OddFound' /\ OddOnce'
    BY <1>3, Unchanged DEF LandInv
  <2> QED
    BY <1>2, <2>1, <2>2 DEF LandInv
<1>4. CASE /\ \E hosts \in Landing!SetToSeqs(DOMAIN data) :
                 anomalies' = anomalies \o Landing!AnalyzeMulti(prop, data, hosts)
           /\ propData' = Landing!Over(data, propData)
           /\ todo' = Tail(todo) /\ UNCHANGED pc
  <2>1. prop \in Props
    BY <1>1, TodoTail
  <2>2. /\ DOMAIN data \subseteq Hosts /\ IsFiniteSet(DOMAIN data)
        /\ \A h \in DOMAIN data : SeriesOf(data[h], h, prop)
    BY <2>1, FetchedShape DEF LandInv
  <2>3. PICK hosts \in Landing!SetToSeqs(DOMAIN data) :
           anomalies' = Behind(anomalies, Landing!AnalyzeMulti(prop, data, hosts))
    BY <1>4, Zenon DEF Behind
  <2> DEFINE found == Landing!AnalyzeMulti(prop, data, hosts)
  <2>4. /\ found \in Seq(Odds)
        /\ \A i \in 1 .. Len(found) : Found(found[i]) /\ found[i].prop = prop /\ found[i].host \in DOMAIN data
        /\ \A i, j \in 1 .. Len(found) : found[i].host = found[j].host => i = j
    <3> HIDE DEF data, prop
    <3> QED
      BY <2>1, <2>2, LandingAssumed, MultiFinds DEF LandingFacts
  <2>5. anomalies' = Behind(anomalies, found) /\ propData' = Landing!Over(data, propData) /\ todo' = Tail(todo)
    BY <1>4, <2>3
  <2>6. prop = todo[1] /\ 1 \in 1 .. Len(todo)
    BY <1>1, TodoTail
  <2> HIDE DEF found, data, prop
  <2>7. OneSeries'
    <3>1. ASSUME NEW h \in DOMAIN propData' PROVE \E p \in Props : SeriesOf(propData'[h], h, p)
      <4>1. CASE h \in DOMAIN data
        <5>1. propData'[h] = data[h]
          BY <2>5, <4>1 DEF Landing!Over
        <5> QED
          BY <2>1, <2>2, <4>1, <5>1
      <4>2. CASE h \notin DOMAIN data
        <5>1. DOMAIN propData' = DOMAIN data \cup DOMAIN propData
          BY <2>5 DEF Landing!Over
        <5>2. h \in DOMAIN propData
          BY <4>2, <5>1
        <5>3. propData'[h] = propData[h]
          BY <2>5, <4>2, <5>2 DEF Landing!Over
        <5> QED
          BY <5>2, <5>3 DEF LandInv, OneSeries
      <4> QED
        BY <4>1, <4>2
    <3> QED
      BY <3>1 DEF OneSeries
  <2>8. anomalies \in Seq(Odds) /\ Len(anomalies) \in Nat
        /\ \A i \in 1 .. Len(anomalies) : Found(anomalies[i]) /\ anomalies[i].host \in DOMAIN propData
                                          /\ anomalies[i].prop # prop
    BY <2>6 DEF LandInv, OddFound, NotYetOdd
  <2>9. /\ anomalies' \in Seq(Odds)
        /\ \A i \in 1 .. Len(anomalies') :
              \/ i \in 1 .. Len(anomalies) /\ anomalies'[i] = anomalies[i]
              \/ i > Len(anomalies) /\ i - Len(anomalies) \in 1 .. Len(found)
                 /\ anomalies'[i] = found[i - Len(anomalies)]
    BY <2>4, <2>5, <2>8, BehindElements
  <2>10. OddFound'
    <3>1. ASSUME NEW i \in 1 .. Len(anomalies')
          PROVE  Found(anomalies'[i]) /\ anomalies'[i].host \in DOMAIN propData'
      <4>1. DOMAIN propData' = DOMAIN data \cup DOMAIN propData
        BY <2>5 DEF Landing!Over
      <4> QED
        BY <2>4, <2>8, <2>9, <4>1
    <3> QED
      BY <2>9, <3>1 DEF OddFound, Found
  <2>11. OddOnce'
    <3>1. ASSUME NEW i \in 1 .. Len(anomalies'), NEW j \in 1 .. Len(anomalies'),
                 anomalies'[i].host = anomalies'[j].host, anomalies'[i].prop = anomalies'[j].prop
          PROVE  i = j
      <4>1. CASE i \in 1 .. Len(anomalies) /\ anomalies'[i] = anomalies[i]
        <5>1. anomalies'[j].prop # prop
          BY <2>8, <3>1, <4>1
        <5>2. j \in 1 .. Len(anomalies) /\ anomalies'[j] = anomalies[j]
          BY <2>4, <2>9, <5>1
        <5> QED
          BY <3>1, <4>1, <5>2 DEF LandInv, OddOnce
      <4>2. CASE i > Len(anomalies) /\ i - Len(anomalies) \in 1 .. Len(found)
                 /\ anomalies'[i] = found[i - Len(anomalies)]
        <5>1. anomalies'[j].prop = prop
          BY <2>4, <3>1, <4>2
        <5>2. j > Len(anomalies) /\ j - Len(anomalies) \in 1 .. Len(found)
                 /\ anomalies'[j] = found[j - Len(anomalies)]
          BY <2>8, <2>9, <5>1
        <5>3. i - Len(anomalies) = j - Len(anomalies)
          BY <2>4, <3>1, <4>2, <5>2
        <5> QED
          BY <2>8, <5>3
      <4> QED
        BY <2>9, <4>1, <4>2
    <3> QED
      BY <3>1 DEF OddOnce
  <2>12. TodoOnce'
    <3>1. ASSUME NEW i \in 1 .. Len(todo'), NEW j \in 1 .. Len(todo'), todo'[i] = todo'[j] PROVE i = j
      <4>1. i + 1 \in 1 .. Len(todo) /\ j + 1 \in 1 .. Len(todo) /\ todo[i + 1] = todo[j + 1]
        BY <1>1, <2>5, <3>1, TodoTail
      <4>2. i + 1 = j + 1
        BY <1>1, <4>1 DEF TodoOnce
      <4> QED
        BY <4>2
    <3>2. todo' \in Seq(Props)
      BY <1>1, <2>5, TodoTail
    <3> QED
      BY <3>1, <3>2 DEF TodoOnce
  <2>13. NotYetOdd'
    <3>1. pc' # "idle"
      BY <1>1, <1>4
    <3>2. ASSUME NEW i \in 1 .. Len(anomalies'), NEW j \in 1 .. Len(todo') PROVE anomalies'[i].prop # todo'[j]
      <4>1. j + 1 \in 1 .. Len(todo) /\ todo'[j] = todo[j + 1] /\ j \in 1 .. Len(Tail(todo))
        BY <1>1, <2>5, TodoTail
      <4>2. todo[j + 1] # prop
        <5>1. j + 1 # 1
          BY <4>1
        <5> QED
          BY <1>1, <2>6, <4>1, <5>1 DEF TodoOnce
      <4>3. CASE i \in 1 .. Len(anomalies) /\ anomalies'[i] = anomalies[i]
        BY <4>1, <4>3 DEF LandInv, NotYetOdd
      <4>4. CASE i > Len(anomalies) /\ i - Len(anomalies) \in 1 .. Len(found)
                 /\ anomalies'[i] = found[i - Len(anomalies)]
        BY <2>4, <4>1, <4>2, <4>4
      <4> QED
        BY <2>9, <4>3, <4>4
    <3> QED
      BY <3>1, <3>2 DEF NotYetOdd
  <2> QED
    BY <1>2, <2>7, <2>10, <2>11, <2>12, <2>13 DEF LandInv
<1> QED
  BY <1>3, <1>4 DEF Landing!Fetch, Landing!Merged, Landing!Analyzed

LEMMA OpenPageKeeps == ASSUME LandInv, Landing!OpenPage PROVE LandInv'
<1>1. /\ \E order \in Landing!SortedBySigs(anomalies) : anomalies' = [i \in DOMAIN order |-> anomalies[order[i]]]
      /\ page' = <<>> /\ pc' = "page" /\ todo = <<>> /\ UNCHANGED <<table, stored, todo, propData, rrd>>
  BY DEF Landing!OpenPage
<1>2. PICK order \in Landing!SetToSeqs(DOMAIN anomalies) : anomalies' = [i \in DOMAIN order |-> anomalies[order[i]]]
  BY <1>1 DEF Landing!SortedBySigs
<1>3. anomalies \in Seq(Odds) /\ Len(anomalies) \in Nat /\ DOMAIN anomalies = 1 .. Len(anomalies)
      /\ \A i \in 1 .. Len(anomalies) : anomalies[i] \in Odds
  BY DEF LandInv, OddFound
<1>4. IsFiniteSet(DOMAIN anomalies)
  BY <1>3, FS_Interval
<1>5. /\ DOMAIN order = 1 .. Len(order) /\ Len(order) \in Nat
      /\ \A i \in 1 .. Len(order) : order[i] \in 1 .. Len(anomalies)
      /\ \A i, j \in 1 .. Len(order) : order[i] = order[j] => i = j
  BY <1>3, <1>4, ListOfSet
<1>6. anomalies' \in [1 .. Len(order) -> Odds] /\ \A i \in 1 .. Len(order) : anomalies'[i] = anomalies[order[i]]
  BY <1>2, <1>3, <1>5
<1>7. anomalies' \in Seq(Odds) /\ Len(anomalies') = Len(order)
  BY <1>5, <1>6
<1>8. OddFound'
  <2>1. \A i \in 1 .. Len(anomalies') : Found(anomalies'[i]) /\ anomalies'[i].host \in DOMAIN propData
    BY <1>5, <1>6, <1>7 DEF LandInv, OddFound
  <2> QED
    BY <1>1, <1>7, <2>1 DEF OddFound, Found
<1>9. OddOnce'
  BY <1>5, <1>6, <1>7 DEF LandInv, OddOnce
<1>10. NotYetOdd'
  BY <1>1, EmptyList DEF NotYetOdd
<1>11. DrawnFrom'
  BY <1>1, EmptyList DEF LandInv, DrawnFrom
<1>12. Tabled' /\ TodoOnce' /\ OneSeries'
  <2>1. UNCHANGED <<table, todo, propData>>
    BY <1>1
  <2> QED
    BY <2>1, Unchanged DEF LandInv
<1> QED
  BY <1>8, <1>9, <1>10, <1>11, <1>12 DEF LandInv

LEMMA ShowKeeps == ASSUME LandInv, Landing!Show PROVE LandInv'
<1> DEFINE a == anomalies[Len(page) + 1]
           k == <<a.host, a.prop>>
           new == [q \in {k} |-> propData[a.host]]
<1>1. /\ Len(page) < Len(anomalies) /\ rrd' = Landing!Over(new, rrd) /\ page' = Append(page, a)
      /\ UNCHANGED <<table, stored, pc, todo, propData, anomalies>>
  BY DEF Landing!Show
<1>2. page \in Seq(Odds) /\ Len(page) \in Nat /\ anomalies \in Seq(Odds) /\ Len(anomalies) \in Nat
  BY DEF LandInv, DrawnFrom, OddFound
<1>3. Len(page) + 1 \in 1 .. Len(anomalies)
  BY <1>1, <1>2
<1>4. a \in Odds /\ a.host \in DOMAIN propData
  BY <1>2, <1>3 DEF LandInv, OddFound
<1>5. k[1] = a.host /\ DOMAIN new = {k} /\ new[k] = propData[a.host]
  <2> HIDE DEF a
  <2>1. k[1] = a.host
    OBVIOUS
  <2> HIDE DEF k
  <2> QED
    BY <2>1
<1> HIDE DEF a, k, new
<1>6. page' \in Seq(Odds)
  BY <1>1, <1>2, <1>4
<1>7. ASSUME NEW q \in DOMAIN rrd' PROVE \E p \in Props : SeriesOf(rrd'[q], q[1], p)
  <2>1. DOMAIN rrd' = {k} \cup DOMAIN rrd
    BY <1>1, <1>5 DEF Landing!Over
  <2>2. CASE q = k
    <3>1. rrd'[q] = propData[a.host] /\ q[1] = a.host
      BY <1>1, <1>5, <2>2 DEF Landing!Over
    <3> QED
      BY <1>4, <3>1 DEF LandInv, OneSeries
  <2>3. CASE q # k
    <3>1. q \in DOMAIN rrd
      BY <2>1, <2>3
    <3>2. rrd'[q] = rrd[q]
      BY <1>1, <1>5, <2>3, <3>1 DEF Landing!Over
    <3> QED
      BY <3>1, <3>2 DEF LandInv, DrawnFrom
  <2> QED
    BY <2>2, <2>3
<1>8. DrawnFrom'
  BY <1>6, <1>7 DEF DrawnFrom
<1>9. Tabled' /\ TodoOnce' /\ OneSeries' /\ OddFound' /\ OddOnce' /\ NotYetOdd'
  BY <1>1, Unchanged DEF LandInv
<1> QED
  BY <1>8, <1>9 DEF LandInv

LEMMA CloseKeeps == ASSUME LandInv, Landing!Close PROVE LandInv'
<1>1. pc' = "done" /\ UNCHANGED <<table, stored, todo, propData, anomalies, rrd, page>>
  BY DEF Landing!Close
<1>2. NotYetOdd'
  BY <1>1 DEF LandInv, NotYetOdd
<1>3. Tabled' /\ TodoOnce' /\ OneSeries' /\ OddFound' /\ OddOnce' /\ DrawnFrom'
  BY <1>1, Unchanged DEF LandInv
<1> QED
  BY <1>2, <1>3 DEF LandInv

----------------------------------------------------------------------------
LandsInv == Lands => LandInv

LEMMA LandsAlways == StdevSpec => []LandsInv
<1>1. StdevInit => LandsInv
  BY LandsSo DEF StdevInit, LandsInv, Serves, Lands
<1>2. LandsInv /\ [StdevNext]_allVars => LandsInv'
  <2> SUFFICES ASSUME LandsInv, [StdevNext]_allVars, Lands' PROVE LandInv'
    BY DEF LandsInv
  <2>1. CASE UNCHANGED allVars
    <3>1. Lands /\ UNCHANGED <<table, stored, pc, todo, propData, anomalies, rrd, page>>
      BY <2>1 DEF allVars, ofLanding, Lands
    <3> QED
      BY <3>1, Unchanged DEF LandsInv, LandInv
  <2>2. CASE StdevNext
    <3>1. LandInv /\ Landing!Next
      BY <2>2 DEF StdevNext, LandsInv, Lands, Serves
    <3> QED
      BY <3>1, StoreKeeps, BeginKeeps, FetchKeeps, OpenPageKeeps, ShowKeeps, CloseKeeps DEF Landing!Next
  <2> QED
    BY <2>1, <2>2
<1> QED
  BY <1>1, <1>2, PTL DEF StdevSpec

(* No host is said to be odd of so few samples that none could be, and     *)
(* whatever they are: of n samples none deviates from the mean by more     *)
(* than the root of n standard deviations (stdev.py:72).                   *)
THEOREM FewOddNeverEver == StdevSpec => []FewOddNever
<1>1. LandsInv => FewOddNever
  BY DEF LandsInv, LandInv, OddFound, Found, FewOddNever, Landing!FewAreNeverOdd, Landing!ToSet
<1> QED
  BY <1>1, LandsAlways, PTL

(* What the page says of a host and a property was found in the samples of *)
(* just these, whatever was stored while the properties were fetched, and  *)
(* it says it once (landing.py:31).                                        *)
THEOREM AnomaliesEver == StdevSpec => []AnomaliesOfTheirOwn
<1>1. LandsInv => AnomaliesOfTheirOwn
  <2> SUFFICES ASSUME LandInv PROVE Landing!AnomaliesAreTheirOwn
    BY DEF LandsInv, AnomaliesOfTheirOwn
  <2>1. DOMAIN anomalies = 1 .. Len(anomalies)
    BY DEF LandInv, OddFound
  <2>2. \A a \in Landing!ToSet(anomalies) : \A r \in Landing!ToSet(a.series) : r.host = a.host /\ r.prop = a.prop
    <3> SUFFICES ASSUME NEW i \in 1 .. Len(anomalies), NEW r \in Landing!ToSet(anomalies[i].series)
                 PROVE  r.host = anomalies[i].host /\ r.prop = anomalies[i].prop
      BY <2>1 DEF Landing!ToSet
    <3>1. SeriesOf(anomalies[i].series, anomalies[i].host, anomalies[i].prop)
      BY DEF LandInv, OddFound, Found
    <3> QED
      BY <3>1 DEF SeriesOf, Landing!ToSet
  <2> QED
    BY <2>1, <2>2 DEF LandInv, OddOnce, Landing!AnomaliesAreTheirOwn
<1> QED
  BY <1>1, LandsAlways, PTL

(* The samples a graph is drawn from are those of one property, and of the *)
(* host the graph is named for, in the order of their times                *)
(* (landing.py:27): it need not be the property it is named for.           *)
THEOREM RrdEver == StdevSpec => []RrdOfOneSeries
<1>1. LandsInv => RrdOfOneSeries
  <2> SUFFICES ASSUME LandInv, NEW k \in DOMAIN rrd
               PROVE  /\ \A r \in Landing!ToSet(rrd[k]) : r.host = k[1]
                      /\ \A i, j \in DOMAIN rrd[k] : i < j => /\ rrd[k][i].prop = rrd[k][j].prop
                                                              /\ rrd[k][i].ctime < rrd[k][j].ctime
    BY DEF LandsInv, RrdOfOneSeries, Landing!RrdIsOneSeries
  <2>1. PICK p \in Props : SeriesOf(rrd[k], k[1], p)
    BY DEF LandInv, DrawnFrom
  <2>2. DOMAIN rrd[k] = 1 .. Len(rrd[k])
    BY <2>1 DEF SeriesOf
  <2> QED
    BY <2>1, <2>2 DEF SeriesOf, InTime, Landing!ToSet
<1> QED
  BY <1>1, LandsAlways, PTL
=============================================================================
