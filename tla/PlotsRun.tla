------------------------------ MODULE PlotsRun ------------------------------
(***************************************************************************)
(* The older front end (plots/plots.py): run by a timer, it takes the      *)
(* properties of single hosts one by one, then those of groups, where a    *)
(* pool of processes takes the hosts of a group, one each.  Of every host  *)
(* and property it keeps a file with its last averages, and raises an      *)
(* alarm where the new average is far from the old ones.  A run may be     *)
(* killed; the files stay as they are then.                                *)
(*                                                                         *)
(* An average is written with Scale decimals.  The graphs and the round    *)
(* robin databases are left out.                                           *)
(*                                                                         *)
(* The history variables: given[k] are the averages put in the file of k,  *)
(* killed whether a run ever was, raised the alarms of this run with the   *)
(* pair they are of, broken the pairs with a process that failed.          *)
(***************************************************************************)
EXTENDS Integers, Sequences, SequencesExt, FiniteSets, TLC

CONSTANTS Singles,    \* the pairs of hosts and properties, in their order
          Grouped,    \* the pairs of groups and properties, in their order
          Members,    \* Members[g]: the hosts whose names end in group g
          Series,     \* what the samples of an interval can be
          Text,       \* the sample that is no number
          IndexHist,  \* how many averages are kept
          Scale,
          MaxShown,   \* how many alarms the first page shows
          NoFile,     \* the content of a file that is not there
          MaxRuns

(* The lists of pairs are sequences, of pairs.                             *)
ASSUME PlotsAssumption ==
    /\ IndexHist \in Nat \ {0} /\ Scale \in Nat \ {0} /\ MaxShown \in Nat
    /\ Singles \in Seq(ToSet(Singles)) /\ Grouped \in Seq(ToSet(Grouped))
    /\ \A p \in ToSet(Singles) : p = <<p[1], p[2]>>

Keys == { Singles[i] : i \in DOMAIN Singles }
          \cup UNION { Members[Grouped[i][1]] \X {Grouped[i][2]} : i \in DOMAIN Grouped }

VARIABLES
    dat,      \* dat[k]: NoFile, or the averages in the file
    pc, job,  \* where the run is, and which pair is next
    workers,  \* workers[host]: the processes of the pair at hand
    lists,    \* hostlist, statlist and alarmlist
    page,     \* the alarms on the first page
    runs,
    given, killed, raised, broken   \* history, see below

vars == <<dat, pc, job, workers, lists, page, runs, given, killed, raised, broken>>

Nothing == [hosts |-> <<>>, stats |-> <<>>, alarms |-> {}]

Init == /\ dat = [k \in Keys |-> NoFile]
        /\ pc = "idle" /\ job = 1 /\ workers = <<>> /\ lists = Nothing /\ page = {} /\ runs = 0
        /\ given = [k \in Keys |-> <<>>] /\ killed = FALSE /\ raised = {} /\ broken = {}

(* main, called by the timer.                                              *)
Begin == /\ pc \in {"idle", "done", "died"} /\ runs < MaxRuns
         /\ pc' = "hosts" /\ job' = 1 /\ workers' = <<>> /\ lists' = Nothing /\ runs' = runs + 1
         /\ raised' = {} /\ broken' = {}
         /\ UNCHANGED <<dat, page, given, killed>>

Put(list, k, x) == (k :> Append(IF k \in DOMAIN list THEN list[k] ELSE <<>>, x)) @@ list

(* Every host and property taken is listed twice, for the pages of hosts   *)
(* and for those of properties.                                            *)
Listed(ls, hosts, stat) ==
    [hosts  |-> FoldLeft(LAMBDA l, h : Put(l, h, stat), ls.hosts, hosts),
     stats  |-> FoldLeft(LAMBDA l, h : Put(l, stat, h), ls.stats, hosts),
     alarms |-> ls.alarms]

Process(at, series, averages, alarms) ==
    [at |-> at, series |-> series, averages |-> averages, alarms |-> alarms]

New(series) == Process("new", series, <<>>, {})

(* The samples of one host and property.  Without any, the name is that of *)
(* an earlier host, or of none, and either way the run ends.               *)
TakeHost ==
    /\ pc = "hosts" /\ job <= Len(Singles)
    /\ \E series \in Series :
          IF series = <<>> THEN pc' = "died" /\ UNCHANGED workers
          ELSE /\ workers' = [h \in {Singles[job][1]} |-> New(series)]
               /\ pc' = "single"
    /\ UNCHANGED <<dat, job, lists, page, runs, given, killed, raised, broken>>

HostsTaken == /\ pc = "hosts" /\ job > Len(Singles)
              /\ pc' = "groups" /\ job' = 1
              /\ UNCHANGED <<dat, workers, lists, page, runs, given, killed, raised, broken>>

(* The samples of the hosts of a group: those that sent any get a process. *)
TakeGroup ==
    /\ pc = "groups" /\ job <= Len(Grouped)
    /\ \E series \in [Members[Grouped[job][1]] -> Series] :
          LET hosts == { h \in DOMAIN series : series[h] # <<>> }
          IN  /\ \E order \in SetToSeqs(hosts) :
                    lists' = Listed(lists, order, Grouped[job][2])
              /\ workers' = [h \in hosts |-> New(series[h])]
              /\ IF hosts = {} THEN pc' = pc /\ job' = job + 1 ELSE pc' = "pool" /\ UNCHANGED job
    /\ UNCHANGED <<dat, page, runs, given, killed, raised, broken>>

Stat   == IF pc = "single" THEN Singles[job][2] ELSE Grouped[job][2]
Key(h) == <<h, Stat>>

Numbers(series) == SelectSeq(series, LAMBDA x : x # Text)
Sum(s)          == FoldLeft(LAMBDA a, b : a + b, 0, s)

(* The ratio of the old average to the new one is below 1/2 or beyond 3/2, *)
(* or 1 where there is no new one.                                         *)
IsFarFrom(new, old) ==
    LET total == Sum(new) IN
    total > 0 /\ ( \/ 2 * Sum(old) * Len(new) < Scale * total * Len(old)
                   \/ 2 * Sum(old) * Len(new) > 3 * Scale * total * Len(old) )

(* No sample is a number, or the file has no average: a division by zero.  *)
Fails(h) == Numbers(workers[h].series) = <<>> \/ dat[Key(h)] = <<>>

\* Mutant: the file is opened to be written before anything can fail.
LeftOpen(h) == [dat EXCEPT ![Key(h)] = <<>>]

(* The file, opened to be written: it is emptied.                          *)
Left(h) == IF Fails(h) THEN dat ELSE [dat EXCEPT ![Key(h)] = <<>>]

Old(h) == IF dat[Key(h)] = NoFile THEN <<>> ELSE dat[Key(h)]
Mean(series) == (Scale * Sum(series)) \div Len(series)

(* What a file can hold; a file that is not there holds none of it.        *)
Means == { Mean(s) : s \in { Numbers(s) : s \in Series } \ {<<>>} }

ASSUME NoFileAssumption == \A n \in 0 .. IndexHist : NoFile \notin [1 .. n -> Means]

\* Mutant: the oldest averages are kept.
KeptOldest(averages) == SubSeq(averages, 1, IF Len(averages) < IndexHist THEN Len(averages) ELSE IndexHist)

Kept(averages) == SubSeq(averages, IF Len(averages) < IndexHist THEN 1 ELSE Len(averages) - IndexHist + 1,
                         Len(averages))

Alarms(h) == LET new == Numbers(workers[h].series)
             IN  IF Old(h) # <<>> /\ IsFarFrom(new, Old(h)) THEN {<<h, Stat, new, Old(h)>>} ELSE {}

(* process_rrd up to where it opens the file to write it.                  *)
Average(h) ==
    /\ pc \in {"single", "pool"} /\ h \in DOMAIN workers /\ workers[h].at = "new"
    /\ dat' = Left(h)
    /\ IF Fails(h) THEN /\ workers' = [workers EXCEPT ![h] = Process("failed", workers[h].series, <<>>, {})]
                        /\ broken' = broken \cup {<<pc, job>>}
                        /\ UNCHANGED raised
       ELSE /\ workers' = [workers EXCEPT ![h] = Process("open", workers[h].series,
                 Kept(Append(Old(h), Mean(Numbers(workers[h].series)))), Alarms(h))]
            /\ raised' = raised \cup { <<pc, job, a>> : a \in Alarms(h) }
            /\ UNCHANGED broken
    /\ UNCHANGED <<pc, job, lists, page, runs, given, killed>>

(* What is written reaches the file when the function returns.             *)
Return(h) ==
    /\ h \in DOMAIN workers /\ workers[h].at = "open"
    /\ dat' = [dat EXCEPT ![Key(h)] = workers[h].averages]
    /\ given' = [given EXCEPT ![Key(h)] = Append(@, Last(workers[h].averages))]
    /\ workers' = [workers EXCEPT ![h] = Process("returned", @.series, @.averages, @.alarms)]
    /\ UNCHANGED <<pc, job, lists, page, runs, killed, raised, broken>>

Returned(h) == workers[h].at = "returned"

(* A host on its own: if it failed, the run ends.                          *)
NextHost ==
    /\ pc = "single"
    /\ \E h \in DOMAIN workers :
          \/ /\ workers[h].at = "failed"
             /\ pc' = "died" /\ UNCHANGED <<job, lists>>
          \/ /\ Returned(h)
             /\ lists' = [Listed(lists, <<h>>, Stat) EXCEPT !.alarms = @ \cup workers[h].alarms]
             /\ pc' = "hosts" /\ job' = job + 1
    /\ workers' = <<>>
    /\ UNCHANGED <<dat, page, runs, given, killed, raised, broken>>

\* Mutant: the alarms of a group take the place of those before.
GatheredLast == IF \A h \in DOMAIN workers : Returned(h)
                THEN UNION { workers[h].alarms : h \in DOMAIN workers } ELSE lists.alarms

(* If one of the processes failed, there are no alarms of the group.       *)
Gathered == IF \A h \in DOMAIN workers : Returned(h)
            THEN lists.alarms \cup UNION { workers[h].alarms : h \in DOMAIN workers } ELSE lists.alarms

\* Mutant: the pool waits for an answer of each process.
EndedWell == \A h \in DOMAIN workers : Returned(h)

Ended == \A h \in DOMAIN workers : workers[h].at \in {"returned", "failed"}

NextGroup == /\ pc = "pool" /\ Ended
             /\ lists' = [lists EXCEPT !.alarms = Gathered]
             /\ pc' = "groups" /\ job' = job + 1 /\ workers' = <<>>
             /\ UNCHANGED <<dat, page, runs, given, killed, raised, broken>>

(* The pages are written; the first shows some of the alarms.              *)
WritePages == /\ pc = "groups" /\ job > Len(Grouped)
              /\ page' \in { a \in SUBSET lists.alarms :
                               \/ Cardinality(a) = MaxShown
                               \/ Cardinality(a) < MaxShown /\ a = lists.alarms }
              /\ pc' = "done"
              /\ UNCHANGED <<dat, job, workers, lists, runs, given, killed, raised, broken>>

Kill == /\ pc \in {"hosts", "groups", "single", "pool"}
        /\ pc' = "died" /\ workers' = <<>> /\ killed' = TRUE
        /\ UNCHANGED <<dat, job, lists, page, runs, given, raised, broken>>

Hosts == { k[1] : k \in Keys }

Step == TakeHost \/ HostsTaken \/ TakeGroup \/ NextHost \/ NextGroup \/ WritePages
          \/ \E h \in Hosts : Average(h) \/ Return(h)

Next == Begin \/ Step \/ Kill

Spec == Init /\ [][Next]_vars

(* A process that runs goes on; the timer and a kill need not come.        *)
FairSpec == Spec /\ WF_vars(Step)

----------------------------------------------------------------------------
(* The types of the state.                                                 *)
TypeOK ==
    /\ pc \in {"idle", "hosts", "groups", "single", "pool", "done", "died"}
    /\ \A k \in Keys : dat[k] = NoFile \/ (dat[k] \in Seq(Means) /\ Len(dat[k]) <= IndexHist)
    /\ DOMAIN workers \subseteq Hosts
    /\ pc \in {"single", "pool"} <=> DOMAIN workers # {}

Lasts(s) == SubSeq(s, IF Len(s) < IndexHist THEN 1 ELSE Len(s) - IndexHist + 1, Len(s))

(* A file that has averages has the last of all that were put in it, run   *)
(* after run (plots.py:87).                                                *)
HistoryIsOfItsRuns == \A k \in Keys : dat[k] \in {NoFile, <<>>} \/ dat[k] = Lasts(given[k])

(* Only a kill leaves a file without averages: whatever the samples are,   *)
(* what can fail comes before the file is opened (plots.py:66, :77, :90).  *)
OnlyAKillEmpties ==
    \A k \in Keys : dat[k] = <<>> => \/ killed
                                     \/ \E h \in DOMAIN workers : workers[h].at = "open" /\ Key(h) = k

(* An alarm that was raised is missing at the end only if a process of the *)
(* same group failed (plots.py:186).                                       *)
AlarmsAreKept ==
    pc = "done" => \A r \in raised : r[3] \in lists.alarms \/ <<r[1], r[2]>> \in broken

(* A run that is not killed comes to its pages or ends: no pool waits for  *)
(* a process that failed (plots.py:190).                                   *)
RunsEnd == pc = "hosts" ~> pc \in {"done", "died"}
=============================================================================
