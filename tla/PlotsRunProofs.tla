--------------------------- MODULE PlotsRunProofs ---------------------------
(***************************************************************************)
(* Proofs about PlotsRun for any hosts, groups, samples and number of      *)
(* runs: what a file has, what empties it, and what becomes of an alarm,   *)
(* with processes of a pool that fail and runs that are killed anywhere.   *)
(***************************************************************************)
EXTENDS PlotsRun, SequenceTheorems, TLAPS

Busy == pc \in {"single", "pool"}

IsWorker(w) ==
    /\ w = [at |-> w.at, series |-> w.series, averages |-> w.averages, alarms |-> w.alarms]
    /\ w.at \in {"new", "open", "returned", "failed"} /\ w.series \in Series

(* The files: what is missing was never written. *)
Files == /\ dat \in [Keys -> Seq(Means) \cup {NoFile}]
         /\ given \in [Keys -> Seq(Means)]
         /\ \A k \in Keys : dat[k] = NoFile => given[k] = <<>>

(* The place of the run: processes are of the pair at hand, and a host on  *)
(* its own is the only one.                                                *)
Place == /\ pc \in {"idle", "hosts", "groups", "single", "pool", "done", "died"} /\ job \in Nat \ {0}
         /\ ~Busy => DOMAIN workers = {}
         /\ pc = "single" => \A g, h \in DOMAIN workers : g = h
         /\ \A h \in DOMAIN workers : IsWorker(workers[h]) /\ Key(h) \in Keys
         /\ lists = [hosts |-> lists.hosts, stats |-> lists.stats, alarms |-> lists.alarms]

(* A process that has emptied its file has the averages that belong in it. *)
OpenFor(w, k) ==
    w.at = "open" => /\ dat[k] = <<>>
                     /\ w.averages \in Seq(Means) /\ Len(w.averages) \in 1 .. IndexHist
                     /\ w.averages = Lasts(Append(given[k], Last(w.averages)))

Opened == \A h \in DOMAIN workers : OpenFor(workers[h], Key(h))

(* A process that failed is known, and an alarm is on its way.             *)
Broken == \A h \in DOMAIN workers : workers[h].at = "failed" => <<pc, job>> \in broken

OnItsWay(r) == \E h \in DOMAIN workers : /\ workers[h].at \in {"open", "returned"}
                                         /\ r[1] = pc /\ r[2] = job /\ r[3] \in workers[h].alarms

Raised == pc \notin {"idle", "died"} =>
            \A r \in raised : r[3] \in lists.alarms \/ <<r[1], r[2]>> \in broken \/ OnItsWay(r)

PlotsInv == Files /\ Place /\ Opened /\ Broken /\ Raised /\ HistoryIsOfItsRuns /\ OnlyAKillEmpties

----------------------------------------------------------------------------
(* The last elements of a sequence, and how many they are. *)
LEMMA LastsAre ==
    ASSUME NEW S, NEW s \in Seq(S)
    PROVE  /\ Lasts(s) \in Seq(S)
           /\ Len(s) < IndexHist => Lasts(s) = s
           /\ Len(s) >= IndexHist =>
                 /\ Len(Lasts(s)) = IndexHist
                 /\ \A i \in 1 .. IndexHist : Lasts(s)[i] = s[Len(s) - IndexHist + i]
<1>1. IndexHist \in Nat \ {0} /\ Len(s) \in Nat /\ \A i \in 1 .. Len(s) : s[i] \in S
  BY PlotsAssumption, LenProperties
<1>2. CASE Len(s) < IndexHist
  <2>1. Lasts(s) = SubSeq(s, 1, Len(s))
    BY <1>2 DEF Lasts
  <2>2. /\ SubSeq(s, 1, Len(s)) \in Seq(S)
        /\ Len(SubSeq(s, 1, Len(s))) = Len(s)
        /\ \A i \in 1 .. Len(s) : SubSeq(s, 1, Len(s))[i] = s[i]
    BY <1>1, SubSeqProperties
  <2>3. SubSeq(s, 1, Len(s)) = s
    BY <2>2, SeqEqual
  <2>4. ~(Len(s) >= IndexHist)
    BY <1>1, <1>2
  <2>5. Lasts(s) = s
    BY <2>1, <2>3
  <2>. QED  BY <2>4, <2>5, Zenon
<1>3. CASE Len(s) >= IndexHist
  <2> DEFINE from == Len(s) - IndexHist + 1
  <2>1. from \in Int /\ from \in 1 .. Len(s) /\ Len(s) - from + 1 = IndexHist
    BY <1>1, <1>3
  <2>2. Lasts(s) = SubSeq(s, from, Len(s))
    BY <1>1, <1>3, ~(Len(s) < IndexHist) DEF Lasts
  <2>3. \A i \in from .. Len(s) : s[i] \in S
    BY <1>1, <2>1
  <2>4. \A i \in 1 .. IndexHist : from + i - 1 = Len(s) - IndexHist + i
    BY <1>1
  <2>5. /\ Lasts(s) \in Seq(S)
        /\ Len(Lasts(s)) = IndexHist
        /\ \A i \in 1 .. IndexHist : Lasts(s)[i] = s[from + i - 1]
    <3> HIDE DEF from
    <3>. QED  BY <1>1, <2>1, <2>2, <2>3, SubSeqProperties
  <2> HIDE DEF from
  <2>6. \A i \in 1 .. IndexHist : Lasts(s)[i] = s[Len(s) - IndexHist + i]
    BY <2>4, <2>5
  <2>7. ~(Len(s) < IndexHist)
    BY <1>1, <1>3
  <2>. QED  BY <2>5, <2>6, <2>7
<1>. QED  BY <1>1, <1>2, <1>3

(* The last of a sequence and one more are those of its last and one more. *)
LEMMA LastsAppend ==
    ASSUME NEW S, NEW g \in Seq(S), NEW m \in S
    PROVE  /\ Lasts(g) \in Seq(S)
           /\ Lasts(Append(Lasts(g), m)) = Lasts(Append(g, m))
           /\ Lasts(Append(g, m)) \in Seq(S)
           /\ Len(Lasts(Append(g, m))) \in 1 .. IndexHist
           /\ Last(Lasts(Append(g, m))) = m
<1> DEFINE l  == Lasts(g)
           gm == Append(g, m)
           lm == Append(l, m)
<1>1. IndexHist \in Nat \ {0} /\ Len(g) \in Nat
  BY PlotsAssumption, LenProperties
<1>2. l \in Seq(S)
  BY LastsAre
<1>3. /\ gm \in Seq(S) /\ Len(gm) = Len(g) + 1 /\ gm[Len(g) + 1] = m
      /\ \A i \in 1 .. Len(g) : gm[i] = g[i]
  BY AppendProperties
<1>4. lm \in Seq(S) /\ Len(lm) = Len(l) + 1 /\ lm[Len(l) + 1] = m
      /\ \A i \in 1 .. Len(l) : lm[i] = l[i]
  <2> HIDE DEF l
  <2>. QED  BY <1>2, AppendProperties
<1>5. Lasts(gm) \in Seq(S) /\ Lasts(lm) \in Seq(S)
  <2> HIDE DEF gm, lm
  <2>. QED  BY <1>3, <1>4, LastsAre
<1>6. Lasts(lm) = Lasts(gm)
  <2>1. CASE Len(g) < IndexHist
    <3>1. l = g
      BY <2>1, LastsAre
    <3>. QED  BY <3>1
  <2>2. CASE Len(g) >= IndexHist
    <3>1. Len(l) = IndexHist /\ \A i \in 1 .. IndexHist : l[i] = g[Len(g) - IndexHist + i]
      BY <2>2, LastsAre
    <3> HIDE DEF l, gm, lm
    <3>2. /\ Len(Lasts(gm)) = IndexHist /\ Len(Lasts(lm)) = IndexHist
          /\ \A i \in 1 .. IndexHist : Lasts(gm)[i] = gm[Len(gm) - IndexHist + i]
          /\ \A i \in 1 .. IndexHist : Lasts(lm)[i] = lm[Len(lm) - IndexHist + i]
      <4>1. Len(gm) >= IndexHist /\ Len(lm) >= IndexHist
        BY <1>1, <1>3, <1>4, <2>2, <3>1
      <4>. QED  BY <1>3, <1>4, <4>1, LastsAre
    <3>3. ASSUME NEW i \in 1 .. IndexHist PROVE Lasts(gm)[i] = Lasts(lm)[i]
      <4>1. Len(gm) - IndexHist + i = Len(g) + 1 - IndexHist + i /\ Len(lm) - IndexHist + i = i + 1
        BY <1>1, <1>3, <1>4, <3>1
      <4>2. Lasts(gm)[i] = gm[Len(g) + 1 - IndexHist + i] /\ Lasts(lm)[i] = lm[i + 1]
        BY <3>2, <4>1
      <4>3. CASE i = IndexHist
        <5>1. Len(g) + 1 - IndexHist + i = Len(g) + 1 /\ i + 1 = Len(l) + 1
          BY <1>1, <3>1, <4>3
        <5>. QED  BY <1>3, <1>4, <4>2, <5>1, Zenon
      <4>4. CASE i < IndexHist
        <5>1. /\ i + 1 \in 1 .. IndexHist /\ Len(g) + 1 - IndexHist + i \in 1 .. Len(g)
              /\ Len(g) + 1 - IndexHist + i = Len(g) - IndexHist + (i + 1)
          BY <1>1, <2>2, <4>4
        <5>2. lm[i + 1] = l[i + 1] /\ l[i + 1] = g[Len(g) - IndexHist + (i + 1)]
          BY <1>4, <3>1, <5>1
        <5>3. gm[Len(g) + 1 - IndexHist + i] = g[Len(g) + 1 - IndexHist + i]
          BY <1>3, <5>1
        <5>. QED  BY <4>2, <5>1, <5>2, <5>3
      <4>. QED  BY <1>1, <4>3, <4>4
    <3>. QED  BY <1>5, <3>2, <3>3, SeqEqual
  <2>. QED  BY <1>1, <2>1, <2>2
<1> HIDE DEF l, gm, lm
<1>7. Len(Lasts(gm)) \in 1 .. IndexHist /\ Last(Lasts(gm)) = m
  <2>1. CASE Len(gm) < IndexHist
    <3>1. Lasts(gm) = gm
      BY <1>3, <2>1, LastsAre
    <3>. QED  BY <1>1, <1>3, <2>1, <3>1 DEF Last
  <2>2. CASE Len(gm) >= IndexHist
    <3>1. Len(Lasts(gm)) = IndexHist /\ Lasts(gm)[IndexHist] = gm[Len(gm) - IndexHist + IndexHist]
      <4>1. IndexHist \in 1 .. IndexHist
        BY <1>1
      <4>. QED  BY <1>3, <2>2, <4>1, LastsAre
    <3>2. Len(gm) - IndexHist + IndexHist = Len(g) + 1
      BY <1>1, <1>3
    <3>. QED  BY <1>1, <1>3, <3>1, <3>2 DEF Last
  <2>. QED  BY <1>1, <1>3, <2>1, <2>2
<1>. QED  BY <1>2, <1>5, <1>6, <1>7 DEF l, gm, lm

LEMMA LastsEmpty == Lasts(<<>>) = <<>>
<1>1. 0 < IndexHist
  BY PlotsAssumption
<1>. QED  BY <1>1 DEF Lasts

(* A file that is missing is told from one with averages. *)
LEMMA NoFileNoSeq == ASSUME NEW s \in Seq(Means), Len(s) \in 0 .. IndexHist PROVE s # NoFile
<1>1. s \in [1 .. Len(s) -> Means]
  BY LenProperties
<1>. QED  BY <1>1, NoFileAssumption

----------------------------------------------------------------------------
(* Processes of another pair have another key. *)
LEMMA KeysDiffer == \A g, h : Key(g) = Key(h) => g = h
  BY DEF Key

(* A step that leaves files, processes and pair alone. *)
LEMMA PlaceMoves ==
    ASSUME PlotsInv, ~Busy, ~Busy', DOMAIN workers' = {}, UNCHANGED <<dat, given>>, killed => killed',
           pc' \in {"idle", "hosts", "groups", "done", "died"}, job' \in Nat \ {0},
           lists' = [hosts |-> lists'.hosts, stats |-> lists'.stats, alarms |-> lists'.alarms],
           \/ UNCHANGED <<lists.alarms, raised, broken>> /\ pc \notin {"idle", "died"}
           \/ raised' = {}
    PROVE  PlotsInv'
<1>1. DOMAIN workers = {}
  BY DEF PlotsInv, Place
<1>2. Files' /\ HistoryIsOfItsRuns'
  BY DEF PlotsInv, Files, HistoryIsOfItsRuns
<1>3. Place' /\ Opened' /\ Broken'
  BY DEF PlotsInv, Place, Busy, Opened, Broken
<1>4. OnlyAKillEmpties'
  BY <1>1 DEF PlotsInv, OnlyAKillEmpties
<1>5. Raised'
  BY <1>1 DEF PlotsInv, Raised, OnItsWay
<1>. QED  BY <1>2, <1>3, <1>4, <1>5 DEF PlotsInv

(* The timer starts a run; one is killed. *)
LEMMA BeginKeeps == PlotsInv /\ Begin => PlotsInv'
<1> SUFFICES ASSUME PlotsInv, Begin PROVE PlotsInv'
  OBVIOUS
<1>1. /\ pc \in {"idle", "done", "died"} /\ pc' = "hosts" /\ job' = 1 /\ workers' = <<>>
      /\ lists' = Nothing /\ raised' = {} /\ UNCHANGED <<dat, given, killed>>
  BY DEF Begin
<1>. QED  BY <1>1, PlaceMoves DEF Busy, Nothing

LEMMA KillKeeps == PlotsInv /\ Kill => PlotsInv'
<1> SUFFICES ASSUME PlotsInv, Kill PROVE PlotsInv'
  OBVIOUS
<1>1. /\ pc' = "died" /\ workers' = <<>> /\ killed' = TRUE
      /\ UNCHANGED <<dat, given, job, lists>>
  BY DEF Kill
<1>. QED  BY <1>1 DEF PlotsInv, Files, HistoryIsOfItsRuns, Place, Busy, Opened, Broken, OnlyAKillEmpties, Raised

(* The single hosts are done; the pages are written. *)
LEMMA TurnKeeps == PlotsInv /\ (HostsTaken \/ WritePages) => PlotsInv'
<1> SUFFICES ASSUME PlotsInv, HostsTaken \/ WritePages PROVE PlotsInv'
  OBVIOUS
<1>1. /\ pc \in {"hosts", "groups"} /\ pc' \in {"groups", "done"} /\ workers' = workers
      /\ UNCHANGED <<dat, given, killed, lists, raised, broken>>
      /\ job' = 1 \/ job' = job
  BY DEF HostsTaken, WritePages
<1>2. /\ job' \in Nat \ {0} /\ DOMAIN workers = {}
      /\ lists' = [hosts |-> lists'.hosts, stats |-> lists'.stats, alarms |-> lists'.alarms]
  BY <1>1 DEF PlotsInv, Place, Busy
<1>. QED  BY <1>1, <1>2, PlaceMoves DEF Busy

(* A new process, and what was there before stays. *)
LEMMA Fresh ==
    ASSUME PlotsInv, ~Busy, Busy', UNCHANGED <<dat, given, killed, raised, broken, job>>, pc \notin {"idle", "died"},
           lists' = [hosts |-> lists'.hosts, stats |-> lists'.stats, alarms |-> lists.alarms],
           pc' = "single" => \A g, h \in DOMAIN workers' : g = h,
           \A h \in DOMAIN workers' : /\ \E s \in Series : workers'[h] = New(s)
                                      /\ Key(h)' \in Keys
    PROVE  PlotsInv'
<1>1. DOMAIN workers = {}
  BY DEF PlotsInv, Place
<1>2. \A h \in DOMAIN workers' : IsWorker(workers'[h]) /\ workers'[h].at = "new"
  BY DEF New, Process, IsWorker
<1>3. Files' /\ HistoryIsOfItsRuns'
  BY DEF PlotsInv, Files, HistoryIsOfItsRuns
<1>4. Place'
  BY <1>2 DEF PlotsInv, Place, Busy, IsWorker
<1>5. Opened' /\ Broken' /\ OnlyAKillEmpties'
  BY <1>1, <1>2 DEF PlotsInv, Opened, OpenFor, Broken, OnlyAKillEmpties
<1>6. Raised'
  <2>1. lists'.alarms = lists.alarms
    OBVIOUS
  <2>. QED  BY <1>1, <2>1 DEF PlotsInv, Raised, OnItsWay
<1>. QED  BY <1>3, <1>4, <1>5, <1>6 DEF PlotsInv

(* The next host on its own, with samples or without. *)
LEMMA TakeHostKeeps == PlotsInv /\ TakeHost => PlotsInv'
<1> SUFFICES ASSUME PlotsInv, TakeHost PROVE PlotsInv'
  OBVIOUS
<1>1. /\ pc = "hosts" /\ job <= Len(Singles) /\ UNCHANGED <<dat, job, lists, given, killed, raised, broken>>
      /\ job \in Nat \ {0} /\ DOMAIN workers = {}
  BY DEF TakeHost, PlotsInv, Place, Busy
<1>2. PICK s \in Series : \/ pc' = "died" /\ UNCHANGED workers
                          \/ workers' = [h \in {Singles[job][1]} |-> New(s)] /\ pc' = "single"
  BY DEF TakeHost
<1>3. CASE pc' = "died" /\ UNCHANGED workers
  <2>1. lists' = [hosts |-> lists'.hosts, stats |-> lists'.stats, alarms |-> lists'.alarms]
    BY <1>1 DEF PlotsInv, Place
  <2>. QED  BY <1>1, <1>3, <2>1, PlaceMoves DEF Busy
<1>4. CASE workers' = [h \in {Singles[job][1]} |-> New(s)] /\ pc' = "single"
  <2> DEFINE h == Singles[job][1]
  <2>1. DOMAIN workers' = {h} /\ workers'[h] = New(s)
    BY <1>4
  <2>2. job \in DOMAIN Singles
    <3>1. Len(Singles) \in Nat /\ DOMAIN Singles = 1 .. Len(Singles)
      BY PlotsAssumption, LenProperties, Zenon
    <3>. QED  BY <1>1, <3>1
  <2>3. Singles[job] \in ToSet(Singles) /\ Singles[job] = <<h, Singles[job][2]>>
    BY <2>2, PlotsAssumption DEF ToSet
  <2>4. Key(h)' = Singles[job]
    BY <1>1, <1>4, <2>3 DEF Key, Stat
  <2>5. Key(h)' \in Keys
    BY <2>2, <2>4 DEF Keys
  <2>6. lists = [hosts |-> lists.hosts, stats |-> lists.stats, alarms |-> lists.alarms]
    BY DEF PlotsInv, Place
  <2>. QED  BY <1>1, <1>4, <2>1, <2>5, <2>6, Fresh DEF Busy
<1>. QED  BY <1>2, <1>3, <1>4

(* To list hosts leaves the alarms alone. *)
LEMMA ListedAre ==
    ASSUME NEW ls, NEW hosts, NEW stat
    PROVE  LET l == Listed(ls, hosts, stat)
           IN  l = [hosts |-> l.hosts, stats |-> l.stats, alarms |-> l.alarms] /\ l.alarms = ls.alarms
<1>1. \E a, b : Listed(ls, hosts, stat) = [hosts |-> a, stats |-> b, alarms |-> ls.alarms]
  BY Zenon DEF Listed
<1>. QED  BY <1>1

(* The hosts of the next group. *)
LEMMA TakeGroupKeeps == PlotsInv /\ TakeGroup => PlotsInv'
<1> SUFFICES ASSUME PlotsInv, TakeGroup PROVE PlotsInv'
  OBVIOUS
<1>1. /\ pc = "groups" /\ job <= Len(Grouped) /\ UNCHANGED <<dat, given, killed, raised, broken>>
      /\ job \in Nat \ {0} /\ DOMAIN workers = {}
      /\ lists = [hosts |-> lists.hosts, stats |-> lists.stats, alarms |-> lists.alarms]
  BY DEF TakeGroup, PlotsInv, Place, Busy
<1> DEFINE group == Grouped[job][1]
           stat  == Grouped[job][2]
<1>2. PICK series \in [Members[group] -> Series] :
        LET hosts == { h \in DOMAIN series : series[h] # <<>> }
        IN  /\ \E order \in SetToSeqs(hosts) : lists' = Listed(lists, order, stat)
            /\ workers' = [h \in hosts |-> New(series[h])]
            /\ IF hosts = {} THEN pc' = pc /\ job' = job + 1 ELSE pc' = "pool" /\ UNCHANGED job
  BY DEF TakeGroup
<1> DEFINE hosts == { h \in DOMAIN series : series[h] # <<>> }
<1>3. /\ lists' = [hosts |-> lists'.hosts, stats |-> lists'.stats, alarms |-> lists.alarms]
      /\ lists' = [hosts |-> lists'.hosts, stats |-> lists'.stats, alarms |-> lists'.alarms]
      /\ lists'.alarms = lists.alarms
  <2>1. PICK order \in SetToSeqs(hosts) : lists' = Listed(lists, order, stat)
    BY <1>2
  <2>. QED  BY <2>1, ListedAre
<1>4. CASE hosts = {}
  <2>1. pc' = "groups" /\ job' = job + 1 /\ DOMAIN workers' = {}
    BY <1>1, <1>2, <1>4
  <2>2. job' \in Nat \ {0}
    BY <1>1, <2>1
  <2>. QED  BY <1>1, <1>3, <2>1, <2>2, PlaceMoves DEF Busy
<1>5. CASE hosts # {}
  <2>1. pc' = "pool" /\ job' = job /\ workers' = [h \in hosts |-> New(series[h])]
    BY <1>2, <1>5
  <2>2. ASSUME NEW h \in DOMAIN workers'
        PROVE  (\E s \in Series : workers'[h] = New(s)) /\ Key(h)' \in Keys
    <3>1. h \in Members[group] /\ workers'[h] = New(series[h])
      BY <2>1
    <3>2. Key(h)' = <<h, stat>>
      BY <2>1 DEF Key, Stat
    <3>3. job \in DOMAIN Grouped
      <4>1. Len(Grouped) \in Nat /\ DOMAIN Grouped = 1 .. Len(Grouped)
        BY PlotsAssumption, LenProperties, Zenon
      <4>. QED  BY <1>1, <4>1
    <3>4. <<h, stat>> \in Members[group] \X {stat}
      BY <3>1
    <3>5. <<h, stat>> \in Keys
      BY <3>3, <3>4 DEF Keys
    <3>. QED  BY <3>1, <3>2, <3>5
  <2>. QED  BY <1>1, <1>3, <2>1, <2>2, Fresh DEF Busy
<1>. QED  BY <1>4, <1>5

(* One process moves: the others, and their files, are left alone. *)
LEMMA WorkerMoves ==
    ASSUME PlotsInv, Busy, UNCHANGED <<pc, job, lists, killed>>, NEW h \in DOMAIN workers,
           NEW w, workers' = [workers EXCEPT ![h] = w], IsWorker(w),
           NEW d \in Seq(Means) \cup {NoFile}, dat' = [dat EXCEPT ![Key(h)] = d],
           NEW v \in Seq(Means), given' = [given EXCEPT ![Key(h)] = v],
           d = NoFile => v = <<>>,
           d \in {NoFile, <<>>} \/ d = Lasts(v),
           d = <<>> => killed \/ w.at = "open",
           w.at = "open" => /\ d = <<>> /\ w.averages \in Seq(Means) /\ Len(w.averages) \in 1 .. IndexHist
                            /\ w.averages = Lasts(Append(v, Last(w.averages))),
           broken \subseteq broken', w.at = "failed" => <<pc, job>> \in broken',
           workers[h].at \in {"open", "returned"} =>
              w.at \in {"open", "returned"} /\ w.alarms = workers[h].alarms,
           \A r \in raised' \ raised : r[1] = pc /\ r[2] = job /\ r[3] \in w.alarms /\ w.at = "open"
    PROVE  PlotsInv'
<1>1. DOMAIN workers' = DOMAIN workers /\ workers'[h] = w /\ \A g \in DOMAIN workers \ {h} : workers'[g] = workers[g]
  OBVIOUS
<1>2. \A g : Key(g)' = Key(g)
  BY DEF Key, Stat
<1>3. Key(h) \in Keys /\ dat \in [Keys -> Seq(Means) \cup {NoFile}] /\ given \in [Keys -> Seq(Means)]
  BY DEF PlotsInv, Place, Files
<1>4. /\ dat'[Key(h)] = d /\ given'[Key(h)] = v
      /\ \A k \in Keys \ {Key(h)} : dat'[k] = dat[k] /\ given'[k] = given[k]
  BY <1>3
<1>5. dat' \in [Keys -> Seq(Means) \cup {NoFile}] /\ given' \in [Keys -> Seq(Means)]
  BY <1>3
<1>6. Files'
  BY <1>4, <1>5 DEF PlotsInv, Files
<1>7. HistoryIsOfItsRuns'
  <2>1. \A s : Lasts(s)' = Lasts(s)
    BY DEF Lasts
  <2>. QED  BY <1>4, <2>1 DEF PlotsInv, HistoryIsOfItsRuns, Lasts
<1>8. Place'
  BY <1>1, <1>2 DEF PlotsInv, Place, Busy, IsWorker
<1>9. Opened'
  <2> SUFFICES ASSUME NEW g \in DOMAIN workers PROVE OpenFor(workers[g], Key(g))'
    BY <1>1 DEF Opened
  <2>1. CASE g = h
    BY <1>1, <1>2, <1>4, <2>1 DEF OpenFor, Lasts
  <2>2. CASE g # h
    <3>1. Key(g) \in Keys \ {Key(h)}
      BY <2>2, KeysDiffer DEF PlotsInv, Place
    <3>2. OpenFor(workers[g], Key(g))
      BY DEF PlotsInv, Opened
    <3>. QED  BY <1>1, <1>2, <1>4, <2>2, <3>1, <3>2 DEF OpenFor, Lasts
  <2>. QED  BY <2>1, <2>2
<1>10. Broken'
  BY <1>1 DEF PlotsInv, Broken
<1>11. OnlyAKillEmpties'
  <2> SUFFICES ASSUME NEW k \in Keys, dat'[k] = <<>>, ~killed
               PROVE  \E g \in DOMAIN workers : workers'[g].at = "open" /\ Key(g) = k
    BY <1>1, <1>2 DEF OnlyAKillEmpties
  <2>1. CASE k = Key(h)
    BY <1>1, <1>4, <2>1
  <2>2. CASE k # Key(h)
    BY <1>1, <1>4, <2>2 DEF PlotsInv, OnlyAKillEmpties
  <2>. QED  BY <2>1, <2>2
<1>12. Raised'
  <2> SUFFICES ASSUME NEW r \in raised', pc \notin {"idle", "died"}
               PROVE  r[3] \in lists.alarms \/ <<r[1], r[2]>> \in broken' \/ OnItsWay(r)'
    BY DEF Raised
  <2>1. CASE r \in raised' \ raised
    BY <1>1, <2>1 DEF OnItsWay
  <2>2. CASE r \in raised
    <3>1. r[3] \in lists.alarms \/ <<r[1], r[2]>> \in broken \/ OnItsWay(r)
      BY <2>2 DEF PlotsInv, Raised
    <3>2. ASSUME OnItsWay(r) PROVE OnItsWay(r)'
      <4>1. PICK g \in DOMAIN workers : /\ workers[g].at \in {"open", "returned"}
                                        /\ r[1] = pc /\ r[2] = job /\ r[3] \in workers[g].alarms
        BY <3>2 DEF OnItsWay
      <4>2. workers'[g].at \in {"open", "returned"} /\ r[3] \in workers'[g].alarms
        BY <1>1, <4>1
      <4>. QED  BY <1>1, <4>1, <4>2 DEF OnItsWay
    <3>. QED  BY <3>1, <3>2
  <2>. QED  BY <2>1, <2>2
<1>. QED  BY <1>6, <1>7, <1>8, <1>9, <1>10, <1>11, <1>12 DEF PlotsInv

(* A process comes to its file, or fails before. *)
LEMMA AverageKeeps == ASSUME PlotsInv, NEW h \in DOMAIN workers, Average(h) PROVE PlotsInv'
<1> DEFINE o == workers[h]
           k == Key(h)
<1>1. /\ Busy /\ o.at = "new" /\ UNCHANGED <<pc, job, lists, given, killed>>
      /\ o = [at |-> "new", series |-> o.series, averages |-> o.averages, alarms |-> o.alarms]
      /\ o.series \in Series /\ k \in Keys
  BY DEF Average, Busy, PlotsInv, Place, IsWorker
<1>2. /\ dat \in [Keys -> Seq(Means) \cup {NoFile}] /\ given \in [Keys -> Seq(Means)]
      /\ dat[k] = NoFile => given[k] = <<>>
      /\ dat[k] \in {NoFile, <<>>} \/ dat[k] = Lasts(given[k])
  BY <1>1 DEF PlotsInv, Files, HistoryIsOfItsRuns
<1>3. given' = [given EXCEPT ![k] = given[k]] /\ given[k] \in Seq(Means)
  BY <1>1, <1>2
<1>4. CASE Fails(h)
  <2> DEFINE w == Process("failed", o.series, <<>>, {})
  <2>1. dat' = dat /\ workers' = [workers EXCEPT ![h] = w] /\ broken' = broken \cup {<<pc, job>>}
        /\ raised' = raised
    BY <1>4 DEF Average, Left
  <2>3. dat' = [dat EXCEPT ![k] = dat[k]] /\ dat[k] \in Seq(Means) \cup {NoFile}
    BY <1>1, <1>2, <2>1
  <2>4. IsWorker(w) /\ w.at = "failed"
    BY <1>1 DEF IsWorker, Process
  <2>5. dat[k] = <<>> => killed
    <3>1. ASSUME dat[k] = <<>>, NEW g \in DOMAIN workers, workers[g].at = "open", Key(g) = k PROVE FALSE
      BY <1>1, <3>1, KeysDiffer
    <3>. QED  BY <1>1, <3>1 DEF PlotsInv, OnlyAKillEmpties
  <2> DEFINE d == dat[k]
             v == given[k]
  <2>6. d = <<>> => killed
    BY <2>5
  <2>7. d \in {NoFile, <<>>} \/ d = Lasts(v)
    BY <1>2
  <2>8. d = NoFile => v = <<>>
    BY <1>2
  <2>9. broken \subseteq broken' /\ <<pc, job>> \in broken' /\ raised' \ raised = {}
    BY <2>1
  <2> HIDE DEF w, d, v, o
  <2>. QED  BY <1>1, <1>3, <2>1, <2>3, <2>4, <2>6, <2>7, <2>8, <2>9, WorkerMoves DEF d, v, o
<1>5. CASE ~Fails(h)
  <2> DEFINE m == Mean(Numbers(o.series))
             V == Kept(Append(Old(h), m))
             w == Process("open", o.series, V, Alarms(h))
  <2>1. /\ dat' = [dat EXCEPT ![k] = <<>>] /\ broken' = broken
        /\ workers' = [workers EXCEPT ![h] = w]
        /\ raised' = raised \cup { <<pc, job, a>> : a \in Alarms(h) }
    BY <1>5 DEF Average, Left
  <2>2. Numbers(o.series) # <<>> /\ dat[k] # <<>>
    BY <1>5 DEF Fails
  <2>3. m \in Means
    BY <1>1, <2>2, Zenon DEF Means
  <2>4. Old(h) = Lasts(given[k])
    <3>1. CASE dat[k] = NoFile
      <4>1. Lasts(<<>>) = <<>>
        BY LastsEmpty
      <4>. QED  BY <1>2, <3>1, <4>1 DEF Old
    <3>2. CASE dat[k] # NoFile
      BY <1>2, <2>2, <3>2 DEF Old
    <3>. QED  BY <3>1, <3>2
  <2> HIDE DEF m
  <2>5. /\ V = Lasts(Append(given[k], m)) /\ V \in Seq(Means) /\ Len(V) \in 1 .. IndexHist /\ Last(V) = m
    <3>1. V = Lasts(Append(Lasts(given[k]), m))
      BY <2>4 DEF Kept, Lasts
    <3> HIDE DEF V
    <3>. QED  BY <1>3, <2>3, <3>1, LastsAppend
  <2> DEFINE A == Alarms(h)
  <2> HIDE DEF V, A
  <2>7. IsWorker(w) /\ w.at = "open" /\ w.averages = V /\ w.alarms = A
    BY <1>1, <2>5 DEF IsWorker, A, Process
  <2>8. \A r \in raised' \ raised : r[1] = pc /\ r[2] = job /\ r[3] \in A
    BY <2>1 DEF A
  <2>9. <<>> \in Seq(Means)
    OBVIOUS
  <2>10. NoFile # <<>>
    <3>1. IndexHist \in Nat
      BY PlotsAssumption
    <3>2. Len(<<>>) \in 0 .. IndexHist
      BY <3>1
    <3>. QED  BY <2>9, <3>2, NoFileNoSeq
  <2> DEFINE d == <<>>
             v == given[k]
  <2>11. d = NoFile => v = <<>>
    BY <2>10
  <2>12. w.averages = Lasts(Append(v, Last(w.averages)))
    BY <2>5, <2>7
  <2>13. broken \subseteq broken'
    BY <2>1
  <2>14. d \in Seq(Means) \cup {NoFile} /\ v \in Seq(Means)
    BY <1>3, <2>9
  <2>15. workers[h].at \in {"open", "returned"} => w.at \in {"open", "returned"} /\ w.alarms = workers[h].alarms
    BY <1>1
  <2>16. w.at # "failed" /\ w.averages \in Seq(Means) /\ Len(w.averages) \in 1 .. IndexHist
    BY <2>5, <2>7
  <2>17. /\ d = <<>> /\ dat' = [dat EXCEPT ![Key(h)] = d]
         /\ given' = [given EXCEPT ![Key(h)] = v] /\ workers' = [workers EXCEPT ![h] = w]
    BY <1>1, <1>3, <2>1
  <2> HIDE DEF w, o, d, v
  <2>. QED  BY <1>1, <2>7, <2>8, <2>11, <2>12, <2>13, <2>14, <2>15, <2>16, <2>17, WorkerMoves
<1>. QED  BY <1>4, <1>5

(* The file gets what was written. *)
LEMMA ReturnKeeps == ASSUME PlotsInv, NEW h \in DOMAIN workers, Return(h) PROVE PlotsInv'
<1> DEFINE o == workers[h]
           k == Key(h)
           v == Append(given[k], Last(o.averages))
           w == Process("returned", o.series, o.averages, o.alarms)
<1>1. /\ o.at = "open" /\ UNCHANGED <<pc, job, lists, killed, raised, broken>>
      /\ dat' = [dat EXCEPT ![k] = o.averages] /\ given' = [given EXCEPT ![k] = Append(@, Last(o.averages))]
      /\ workers' = [workers EXCEPT ![h] = w]
  BY DEF Return
<1>2. /\ o = [at |-> o.at, series |-> o.series, averages |-> o.averages, alarms |-> o.alarms]
      /\ o.series \in Series /\ k \in Keys /\ Busy /\ given \in [Keys -> Seq(Means)]
  BY DEF PlotsInv, Place, IsWorker, Files
<1>3. OpenFor(o, k)
  BY DEF PlotsInv, Opened
<1>4. /\ o.averages \in Seq(Means) /\ Len(o.averages) \in 1 .. IndexHist /\ o.averages = Lasts(v)
      /\ Last(o.averages) \in Means
  <2>1. o.averages \in Seq(Means) /\ Len(o.averages) \in 1 .. IndexHist /\ o.averages = Lasts(v)
    BY <1>1, <1>3 DEF OpenFor
  <2>2. Last(o.averages) \in Means
    <3>1. IndexHist \in Nat
      BY PlotsAssumption
    <3>. QED  BY <2>1, <3>1 DEF Last
  <2>. QED  BY <2>1, <2>2
<1>5. v \in Seq(Means) /\ given' = [given EXCEPT ![k] = v]
  BY <1>1, <1>2, <1>4
<1>7. IsWorker(w) /\ w.at = "returned" /\ w.alarms = o.alarms
  BY <1>2, <1>4 DEF IsWorker, Process
<1>8. o.averages # NoFile /\ o.averages # <<>>
  <2>1. o.averages # <<>>
    BY <1>4
  <2>2. Len(o.averages) \in 0 .. IndexHist
    BY <1>4
  <2>. QED  BY <1>4, <2>1, <2>2, NoFileNoSeq
<1> DEFINE d == o.averages
<1>9. d = NoFile => v = <<>>
  BY <1>8
<1>10. d \in Seq(Means) \cup {NoFile} /\ d = Lasts(v) /\ d # <<>>
  BY <1>4, <1>8
<1>11. /\ dat' = [dat EXCEPT ![k] = d] /\ workers' = [workers EXCEPT ![h] = w]
       /\ UNCHANGED <<pc, job, lists, killed>> /\ broken \subseteq broken' /\ raised' \ raised = {}
  BY <1>1
<1> HIDE DEF v, w, d, o
<1>. QED  BY <1>2, <1>5, <1>7, <1>9, <1>10, <1>11, WorkerMoves DEF o

(* A host on its own is done, or has failed and ends the run. *)
LEMMA NextHostKeeps == PlotsInv /\ NextHost => PlotsInv'
<1> SUFFICES ASSUME PlotsInv, NextHost PROVE PlotsInv'
  OBVIOUS
<1>1. /\ pc = "single" /\ workers' = <<>> /\ UNCHANGED <<dat, given, killed, raised, broken>>
      /\ job \in Nat \ {0}
      /\ lists = [hosts |-> lists.hosts, stats |-> lists.stats, alarms |-> lists.alarms]
  BY DEF NextHost, PlotsInv, Place
<1>2. PICK h \in DOMAIN workers :
        \/ /\ workers[h].at = "failed"
           /\ pc' = "died" /\ UNCHANGED <<job, lists>>
        \/ /\ workers[h].at = "returned"
           /\ lists' = [Listed(lists, <<h>>, Stat) EXCEPT !.alarms = @ \cup workers[h].alarms]
           /\ pc' = "hosts" /\ job' = job + 1
  BY DEF NextHost, Returned
<1>3. \A g \in DOMAIN workers : g = h
  BY <1>1 DEF PlotsInv, Place
<1>4. job' \in Nat \ {0} /\ pc' \in {"hosts", "died"} /\ DOMAIN workers' = {}
  BY <1>1, <1>2
<1>5. Files' /\ HistoryIsOfItsRuns'
  BY <1>1 DEF PlotsInv, Files, HistoryIsOfItsRuns
<1>6. OnlyAKillEmpties'
  BY <1>1, <1>2, <1>3 DEF PlotsInv, OnlyAKillEmpties
<1>7. Opened' /\ Broken'
  BY <1>4 DEF Opened, Broken
<1>8. CASE workers[h].at = "failed" /\ pc' = "died" /\ UNCHANGED <<job, lists>>
  BY <1>1, <1>4, <1>5, <1>6, <1>7, <1>8 DEF PlotsInv, Place, Busy, Raised
<1>9. CASE workers[h].at = "returned" /\ pc' = "hosts"
           /\ lists' = [Listed(lists, <<h>>, Stat) EXCEPT !.alarms = @ \cup workers[h].alarms]
  <2> DEFINE l == Listed(lists, <<h>>, Stat)
  <2>1. l = [hosts |-> l.hosts, stats |-> l.stats, alarms |-> lists.alarms] /\ l.alarms = lists.alarms
    BY ListedAre
  <2> HIDE DEF l
  <2>2. lists' = [hosts |-> l.hosts, stats |-> l.stats, alarms |-> lists.alarms \cup workers[h].alarms]
    BY <1>9, <2>1 DEF l
  <2>3. /\ lists' = [hosts |-> lists'.hosts, stats |-> lists'.stats, alarms |-> lists'.alarms]
        /\ lists'.alarms = lists.alarms \cup workers[h].alarms
    BY <2>2
  <2>4. Place'
    BY <1>4, <2>3 DEF Place, Busy
  <2>5. Raised'
    <3> SUFFICES ASSUME NEW r \in raised
                 PROVE  r[3] \in lists'.alarms \/ <<r[1], r[2]>> \in broken
      BY <1>1 DEF Raised
    <3>1. r[3] \in lists.alarms \/ <<r[1], r[2]>> \in broken \/ OnItsWay(r)
      BY <1>1 DEF PlotsInv, Raised
    <3>2. OnItsWay(r) => r[3] \in workers[h].alarms
      BY <1>3 DEF OnItsWay
    <3>. QED  BY <2>3, <3>1, <3>2
  <2>. QED  BY <1>5, <1>6, <1>7, <2>4, <2>5 DEF PlotsInv
<1>. QED  BY <1>2, <1>8, <1>9

(* All processes of a group are done; one that failed is known. *)
LEMMA NextGroupKeeps == PlotsInv /\ NextGroup => PlotsInv'
<1> SUFFICES ASSUME PlotsInv, NextGroup PROVE PlotsInv'
  OBVIOUS
<1>1. /\ pc = "pool" /\ Ended /\ pc' = "groups" /\ workers' = <<>> /\ job' = job + 1
      /\ UNCHANGED <<dat, given, killed, raised, broken>>
      /\ lists' = [lists EXCEPT !.alarms = Gathered] /\ job \in Nat \ {0}
      /\ lists = [hosts |-> lists.hosts, stats |-> lists.stats, alarms |-> lists.alarms]
  BY DEF NextGroup, PlotsInv, Place
<1> DEFINE A == Gathered
<1> HIDE DEF A
<1>2. lists' = [hosts |-> lists.hosts, stats |-> lists.stats, alarms |-> A]
  BY <1>1 DEF A
<1>3. /\ lists' = [hosts |-> lists'.hosts, stats |-> lists'.stats, alarms |-> lists'.alarms]
      /\ lists'.alarms = A
  BY <1>2
<1>4. Files' /\ HistoryIsOfItsRuns'
  BY <1>1 DEF PlotsInv, Files, HistoryIsOfItsRuns
<1>5. OnlyAKillEmpties'
  BY <1>1 DEF PlotsInv, OnlyAKillEmpties, Ended
<1>6. Place' /\ Opened' /\ Broken'
  BY <1>1, <1>3 DEF Place, Busy, Opened, Broken
<1>7. Raised'
  <2> SUFFICES ASSUME NEW r \in raised
               PROVE  r[3] \in A \/ <<r[1], r[2]>> \in broken
    BY <1>1, <1>3 DEF Raised
  <2>1. r[3] \in lists.alarms \/ <<r[1], r[2]>> \in broken \/ OnItsWay(r)
    BY <1>1 DEF PlotsInv, Raised
  <2>2. lists.alarms \subseteq A
    BY DEF A, Gathered
  <2>3. CASE OnItsWay(r)
    <3>1. CASE \A h \in DOMAIN workers : Returned(h)
      BY <2>3, <3>1 DEF OnItsWay, A, Gathered
    <3>2. CASE \E h \in DOMAIN workers : ~Returned(h)
      <4>1. <<pc, job>> \in broken
        BY <1>1, <3>2 DEF Ended, Returned, PlotsInv, Broken
      <4>. QED  BY <2>3, <4>1 DEF OnItsWay
    <3>. QED  BY <3>1, <3>2
  <2>. QED  BY <2>1, <2>2, <2>3
<1>. QED  BY <1>4, <1>5, <1>6, <1>7 DEF PlotsInv

----------------------------------------------------------------------------
LEMMA PlotsStart == Init => PlotsInv
<1> SUFFICES ASSUME Init PROVE PlotsInv
  OBVIOUS
<1>1. Files /\ HistoryIsOfItsRuns
  BY DEF Init, Files, HistoryIsOfItsRuns
<1>2. Place /\ Opened /\ Broken /\ Raised
  BY DEF Init, Place, Busy, Nothing, Opened, Broken, Raised
<1>3. OnlyAKillEmpties
  <2>1. NoFile # <<>>
    <3>1. IndexHist \in Nat /\ <<>> \in Seq(Means)
      BY PlotsAssumption
    <3>2. Len(<<>>) \in 0 .. IndexHist
      BY <3>1
    <3>. QED  BY <3>1, <3>2, NoFileNoSeq
  <2>. QED  BY <2>1 DEF Init, OnlyAKillEmpties
<1>. QED  BY <1>1, <1>2, <1>3 DEF PlotsInv

LEMMA PlotsStep == PlotsInv /\ [Next]_vars => PlotsInv'
<1> SUFFICES ASSUME PlotsInv, [Next]_vars PROVE PlotsInv'
  OBVIOUS
<1>1. CASE UNCHANGED vars
  <2>0. UNCHANGED <<dat, given, pc, job, workers, lists, killed>> /\ \A h : Key(h)' = Key(h)
    BY <1>1 DEF vars, Key, Stat
  <2>1. Files' /\ HistoryIsOfItsRuns' /\ OnlyAKillEmpties'
    <3>1. Files'
      BY <2>0 DEF PlotsInv, Files
    <3>2. HistoryIsOfItsRuns'
      BY <2>0 DEF PlotsInv, HistoryIsOfItsRuns, Lasts
    <3>3. OnlyAKillEmpties'
      BY <2>0 DEF PlotsInv, OnlyAKillEmpties
    <3>. QED  BY <3>1, <3>2, <3>3
  <2>2. Place' /\ Opened'
    <3>1. Place'
      BY <2>0 DEF PlotsInv, Place, Busy, IsWorker
    <3>2. Opened'
      <4>1. \A k, w : OpenFor(w, k)' <=> OpenFor(w, k)
        BY <2>0 DEF OpenFor, Lasts
      <4>. QED  BY <2>0, <4>1 DEF PlotsInv, Opened
    <3>. QED  BY <3>1, <3>2
  <2>3. Broken' /\ Raised'
    BY <1>1 DEF vars, PlotsInv, Broken, Raised, OnItsWay
  <2>. QED  BY <2>1, <2>2, <2>3 DEF PlotsInv
<1>2. ASSUME NEW h \in Hosts, Average(h) \/ Return(h) PROVE PlotsInv'
  <2>1. h \in DOMAIN workers
    BY <1>2 DEF Average, Return
  <2>. QED  BY <1>2, <2>1, AverageKeeps, ReturnKeeps
<1>3. CASE Next
  BY <1>2, <1>3, BeginKeeps, KillKeeps, TurnKeeps, TakeHostKeeps, TakeGroupKeeps, NextHostKeeps, NextGroupKeeps
     DEF Next, Step
<1>. QED  BY <1>1, <1>3

(* A file has the last of all averages that were put in it, run after run, *)
(* whatever runs were killed and processes failed (plots.py:87).           *)
THEOREM HistoryIsOfItsRunsEver == Spec => []HistoryIsOfItsRuns
<1>1. PlotsInv => HistoryIsOfItsRuns
  BY DEF PlotsInv
<1>. QED  BY <1>1, PlotsStart, PlotsStep, PTL DEF Spec

(* What can fail comes before the file is opened (plots.py:66, :77, :90),  *)
(* so only a kill leaves a file without averages.                          *)
THEOREM OnlyAKillEmptiesEver == Spec => []OnlyAKillEmpties
<1>1. PlotsInv => OnlyAKillEmpties
  BY DEF PlotsInv
<1>. QED  BY <1>1, PlotsStart, PlotsStep, PTL DEF Spec

(* An alarm is missing at the end only if a process of the same group      *)
(* failed (plots.py:186).                                                  *)
THEOREM AlarmsAlwaysKept == Spec => []AlarmsAreKept
<1>1. PlotsInv => AlarmsAreKept
  BY DEF PlotsInv, Place, Busy, Raised, OnItsWay, AlarmsAreKept
<1>. QED  BY <1>1, PlotsStart, PlotsStep, PTL DEF Spec
=============================================================================
