----------------------------- MODULE ReportsProofs -----------------------------
(***************************************************************************)
(* Proofs about Reports: what the reports of the SAX tools show is what    *)
(* was analysed, whatever the hosts, the properties, the profiles and the  *)
(* configuration of the scan.                                              *)
(*                                                                         *)
(* The tools are programs of their own, so the invariant has a part for    *)
(* each: HostInv follows what a host's report has gathered up to its page, *)
(* PairInv what the data file of a pair has and which images of its page   *)
(* were drawn from it, ScanInv where the results of a scan are stored and  *)
(* which columns they become.                                              *)
(***************************************************************************)
EXTENDS Reports, FiniteSetTheorems, WellFoundedInduction, TLAPS

(* Sequences *)
LEMMA TailOfDistinct ==
    ASSUME NEW S, NEW s \in Seq(S), s # <<>>, IsInjective(s)
    PROVE  /\ Head(s) \in S /\ Tail(s) \in Seq(S) /\ IsInjective(Tail(s))
           /\ Head(s) \in ToSet(s) /\ Head(s) \notin ToSet(Tail(s))
           /\ \A x \in ToSet(Tail(s)) : x \in ToSet(s)
           /\ \A x \in ToSet(s) : x = Head(s) \/ x \in ToSet(Tail(s))
<1>1. /\ Len(s) \in Nat \ {0} /\ Head(s) = s[1] /\ Tail(s) \in Seq(S)
      /\ \A k \in 1 .. Len(s) : s[k] \in S
      /\ DOMAIN s = 1 .. Len(s) /\ DOMAIN Tail(s) = 1 .. Len(s) - 1
      /\ \A k \in 1 .. Len(s) - 1 : Tail(s)[k] = s[k + 1]
  OBVIOUS
<1>2. \A j, k \in 1 .. Len(s) : s[j] = s[k] => j = k
  BY <1>1, Zenon DEF IsInjective
<1>3. \A k \in 1 .. Len(s) - 1 : k + 1 \in 1 .. Len(s) /\ k + 1 # 1 /\ 1 \in 1 .. Len(s)
  BY <1>1
<1>4. IsInjective(Tail(s))
  <2> SUFFICES ASSUME NEW j \in 1 .. Len(s) - 1, NEW k \in 1 .. Len(s) - 1, Tail(s)[j] = Tail(s)[k]
               PROVE  j = k
    BY <1>1, Zenon DEF IsInjective
  <2> QED
    BY <1>1, <1>2
<1>5. Head(s) \in S /\ Head(s) \in ToSet(s)
  BY <1>1 DEF ToSet
<1>6. Head(s) \notin ToSet(Tail(s))
  <2> SUFFICES ASSUME NEW k \in 1 .. Len(s) - 1, Tail(s)[k] = Head(s) PROVE FALSE
    BY <1>1, Zenon DEF ToSet
  <2> QED
    BY <1>1, <1>2, <1>3, Zenon
<1>7. \A x \in ToSet(Tail(s)) : x \in ToSet(s)
  <2> SUFFICES ASSUME NEW k \in 1 .. Len(s) - 1 PROVE Tail(s)[k] \in ToSet(s)
    BY <1>1, Zenon DEF ToSet
  <2> QED
    BY <1>1, <1>3, Zenon DEF ToSet
<1>8. \A x \in ToSet(s) : x = Head(s) \/ x \in ToSet(Tail(s))
  <2> SUFFICES ASSUME NEW k \in 1 .. Len(s) PROVE s[k] = Head(s) \/ s[k] \in ToSet(Tail(s))
    BY <1>1, Zenon DEF ToSet
  <2>1. CASE k = 1
    BY <1>1, <2>1
  <2>2. CASE k # 1
    <3>1. k - 1 \in 1 .. Len(s) - 1 /\ Tail(s)[k - 1] = s[k]
      BY <1>1, <2>2
    <3> QED
      BY <1>1, <3>1, Zenon DEF ToSet
  <2> QED
    BY <2>1, <2>2
<1> QED
  BY <1>1, <1>4, <1>5, <1>6, <1>7, <1>8

LEMMA InSequence ==
    ASSUME NEW S, NEW s \in Seq(S)
    PROVE  /\ \A k \in 1 .. Len(s) : s[k] \in S /\ s[k] \in ToSet(s)
           /\ ToSet(s) \subseteq S
<1>1. Len(s) \in Nat /\ DOMAIN s = 1 .. Len(s) /\ \A k \in 1 .. Len(s) : s[k] \in S
  OBVIOUS
<1> QED
  BY <1>1, Zenon DEF ToSet

LEMMA MadeSequence ==
    ASSUME NEW n \in Nat, NEW S, NEW f, f = [k \in 1 .. n |-> f[k]], \A k \in 1 .. n : f[k] \in S
    PROVE  f \in Seq(S) /\ Len(f) = n /\ DOMAIN f = 1 .. n
<1>1. f \in [1 .. n -> S]
  OBVIOUS
<1> QED
  BY <1>1

LEMMA AppendedPlaces ==
    ASSUME NEW S, NEW s \in Seq(S), NEW x \in S
    PROVE  /\ Append(s, x) \in Seq(S) /\ Len(s) \in Nat
           /\ Len(Append(s, x)) = Len(s) + 1 /\ DOMAIN Append(s, x) = 1 .. Len(s) + 1
           /\ \A k \in 1 .. Len(s) : Append(s, x)[k] = s[k]
           /\ Append(s, x)[Len(s) + 1] = x
  OBVIOUS

LEMMA BothAppended ==
    ASSUME NEW S, NEW T, NEW s \in Seq(S), NEW t \in Seq(T), NEW x \in S, NEW y \in T,
           Len(t) = Len(s), \A i \in 1 .. Len(s) : t[i].name = s[i], y.name = x
    PROVE  /\ Len(Append(t, y)) = Len(Append(s, x))
           /\ \A i \in 1 .. Len(Append(s, x)) : Append(t, y)[i].name = Append(s, x)[i]
           /\ \A i \in 1 .. Len(Append(s, x)) : Append(s, x)[i] = x \/ \E j \in 1 .. Len(s) : Append(s, x)[i] = s[j]
<1>1. /\ Len(s) \in Nat /\ Len(Append(t, y)) = Len(s) + 1 /\ Len(Append(s, x)) = Len(s) + 1
      /\ \A k \in 1 .. Len(s) : Append(s, x)[k] = s[k] /\ Append(t, y)[k] = t[k]
      /\ Append(s, x)[Len(s) + 1] = x /\ Append(t, y)[Len(s) + 1] = y
  BY AppendedPlaces
<1>2. \A k \in 1 .. Len(s) + 1 : k \in 1 .. Len(s) \/ k = Len(s) + 1
  BY <1>1
<1> QED
  BY <1>1, <1>2, Zenon

LEMMA OneElement == ASSUME NEW S, NEW x \in S PROVE <<x>> \in Seq(S) /\ Len(<<x>>) = 1 /\ <<x>>[1] = x
  OBVIOUS

LEMMA JoinedPlaces ==
    ASSUME NEW S, NEW s \in Seq(S), NEW t \in Seq(S)
    PROVE  /\ s \o t \in Seq(S) /\ Len(s) \in Nat /\ Len(t) \in Nat
           /\ Len(s \o t) = Len(s) + Len(t) /\ DOMAIN (s \o t) = 1 .. Len(s) + Len(t)
           /\ \A k \in 1 .. Len(s) : (s \o t)[k] = s[k]
           /\ \A k \in 1 .. Len(t) : (s \o t)[k + Len(s)] = t[k]
  OBVIOUS

LEMMA WiderSequence ==
    ASSUME NEW S, NEW T, \A x \in S : x \in T, NEW s \in Seq(S) PROVE s \in Seq(T)
<1>1. s \in [1 .. Len(s) -> S] /\ Len(s) \in Nat
  OBVIOUS
<1>2. s \in [1 .. Len(s) -> T]
  BY <1>1
<1> QED
  BY <1>1, <1>2

(* A value is added to a sequence of which no element is there twice.      *)
LEMMA AppendedDistinct ==
    ASSUME NEW S, NEW s \in Seq(S), IsInjective(s), NEW x \in S, x \notin ToSet(s)
    PROVE  /\ Append(s, x) \in Seq(S) /\ IsInjective(Append(s, x))
           /\ Len(Append(s, x)) = Len(s) + 1 /\ DOMAIN Append(s, x) = 1 .. Len(s) + 1
           /\ \A k \in 1 .. Len(s) : Append(s, x)[k] = s[k]
           /\ Append(s, x)[Len(s) + 1] = x
<1>1. /\ Len(s) \in Nat /\ Append(s, x) \in Seq(S) /\ Len(Append(s, x)) = Len(s) + 1
      /\ DOMAIN s = 1 .. Len(s) /\ DOMAIN Append(s, x) = 1 .. Len(s) + 1
      /\ \A k \in 1 .. Len(s) : Append(s, x)[k] = s[k]
      /\ Append(s, x)[Len(s) + 1] = x
  OBVIOUS
<1>2. \A j, k \in 1 .. Len(s) : s[j] = s[k] => j = k
  BY <1>1, Zenon DEF IsInjective
<1>3. \A k \in 1 .. Len(s) : s[k] # x
  BY <1>1, Zenon DEF ToSet
<1>4. \A j, k \in 1 .. Len(s) + 1 : Append(s, x)[j] = Append(s, x)[k] => j = k
  BY <1>1, <1>2, <1>3
<1> QED
  BY <1>1, <1>4, Zenon DEF IsInjective

(* A sequence is told by its length and its places. *)
Made(s, n) == s = [k \in 1 .. n |-> s[k]]

LEMMA OneMade == ASSUME NEW x PROVE Made(<<x>>, 1) /\ <<x>>[1] = x
  BY DEF Made

(* One sequence after another. *)
Join(s, t) == s \o t

LEMMA JoinedMade ==
    ASSUME NEW m \in Nat, NEW n \in Nat, NEW s, NEW t, Made(s, m), Made(t, n)
    PROVE  /\ Made(Join(s, t), m + n) /\ DOMAIN Join(s, t) = 1 .. m + n
           /\ \A k \in 1 .. m : Join(s, t)[k] = s[k]
           /\ \A k \in 1 .. n : Join(s, t)[k + m] = t[k]
<1> DEFINE S == {s[k] : k \in 1 .. m} \cup {t[k] : k \in 1 .. n}
<1>1. (\A k \in 1 .. m : s[k] \in S) /\ (\A k \in 1 .. n : t[k] \in S)
  OBVIOUS
<1> HIDE DEF S
<1>2. s \in Seq(S) /\ Len(s) = m
  BY <1>1, MadeSequence DEF Made
<1>3. t \in Seq(S) /\ Len(t) = n
  BY <1>1, MadeSequence DEF Made
<1>4. PICK u \in Seq(S), v \in Seq(S) : u = s /\ v = t
  BY <1>2, <1>3
<1>5. PICK j : j = Join(u, v)
  OBVIOUS
<1>6. /\ j \in Seq(S) /\ Len(j) = Len(u) + Len(v) /\ DOMAIN j = 1 .. Len(u) + Len(v)
      /\ \A k \in 1 .. Len(u) : j[k] = u[k]
      /\ \A k \in 1 .. Len(v) : j[k + Len(u)] = v[k]
  <2>1. /\ u \o v \in Seq(S) /\ Len(u \o v) = Len(u) + Len(v) /\ DOMAIN (u \o v) = 1 .. Len(u) + Len(v)
        /\ \A k \in 1 .. Len(u) : (u \o v)[k] = u[k]
        /\ \A k \in 1 .. Len(v) : (u \o v)[k + Len(u)] = v[k]
    BY JoinedPlaces
  <2>2. j = u \o v
    BY <1>5 DEF Join
  <2> QED
    BY <2>1, <2>2, Zenon
<1>7. Len(u) = m /\ Len(v) = n
  BY <1>2, <1>3, <1>4
<1>8. /\ Len(j) = m + n /\ DOMAIN j = 1 .. m + n
      /\ \A k \in 1 .. m : j[k] = s[k]
      /\ \A k \in 1 .. n : j[k + m] = t[k]
  BY <1>4, <1>6, <1>7, Zenon
<1>9. Made(j, m + n)
  BY <1>6, <1>8 DEF Made
<1>10. j = Join(s, t)
  BY <1>4, <1>5
<1> QED
  BY <1>8, <1>9, <1>10, Zenon

----------------------------------------------------------------------------
(* anomaly_check_prop.go *)
USE DEF files

HostSet == ToSet(Hosts)
PropSet == ToSet(Props)
Names   == {f.name : f \in Listed}

HostReport == [used: Seq(PropSet), vals: Seq([name: PropSet, len: Nat]), dump: Seq([name: Names, len: Nat]),
               names: Seq(Names), series: Seq([high: SUBSET Int, len: Nat]), words: Nat, times: Nat]

HostImages == PropertyImages \cup ScoreImages
HostPages  == SUBSET [image: HostImages, col: Nat]

HTyped ==
    /\ pc \in {"host", "prop", "list", "score", "short", "overrun", "end"}
    /\ hosts \in Seq(HostSet) /\ IsInjective(hosts)
    /\ props \in Seq(PropSet) /\ IsInjective(props)
    /\ pc \in {"prop", "list", "score"} => hosts # <<>>
    /\ pc \in {"list", "score"} => props # <<>>
    /\ line \in Nat \ {0} /\ found \subseteq Listed
    /\ rep \in HostReport
    /\ pages \in [HostSet -> HostPages]
    /\ DOMAIN columns = HostSet /\ DOMAIN assets = HostImages

(* The profiles that were read are of the pair that is looked at.          *)
HFound == pc \in {"list", "score"} => \A f \in found : <<host, prop>> \in f.of

(* The arrays go by the same names.  *)
HArrays ==
    /\ Len(rep.vals) = Len(rep.used) /\ \A i \in 1 .. Len(rep.used) : rep.vals[i].name = rep.used[i]
    /\ Len(rep.dump) = Len(rep.names) /\ \A i \in 1 .. Len(rep.names) : rep.dump[i].name = rep.names[i]
    /\ IsInjective(rep.used)

(* What is gathered is of this host and of properties that were handled.   *)
OfHost(name, h) == \E f \in Listed, q \in PropSet : f.name = name /\ <<h, q>> \in f.of
ToCome == IF pc = "score" THEN Tail(props) ELSE props
HGathered ==
    pc \in {"prop", "list", "score"} =>
       /\ \A i \in 1 .. Len(rep.used) : rep.used[i] \notin ToSet(ToCome)
       /\ \A i \in 1 .. Len(rep.names) : OfHost(rep.names[i], host)

(* What an image holds was drawn of the file of g.                         *)
DrawnOf(g, image) ==
    \/ assets[image] = [x |-> Column("times", g), y |-> Column(image[1], g)]
    \/ /\ columns[g] = HostFiles[g]
       /\ assets[image] = Blank \/ assets[image].y \in ToSet(HostFiles[g])

(* One of the hosts it is drawn for was reported, and it was drawn then.   *)
DrawnRight(image) == \E g \in Owners(image) : g \notin ToSet(hosts) /\ DrawnOf(g, image)

PageRight(h) ==
    /\ \A p \in pages[h] : h \in Owners(p.image) /\ (p.image \in ScoreImages => DrawnRight(p.image))
    /\ \A p, r \in pages[h] : p.image = r.image /\ p.image \in PropertyImages => p = r

(* The hosts to come have their files of before, and no page.              *)
HPages == /\ \A h \in HostSet : PageRight(h)
          /\ \A h \in ToSet(hosts) : pages[h] = {} /\ columns[h] = HostFiles[h]
          /\ \A image \in HostImages : assets[image] = Before(image) \/ DrawnRight(image)

HostInv == HTyped /\ HFound /\ HArrays /\ HGathered /\ HPages

LEMMA HostNumbers ==
    /\ Lead \in Nat \ {0} /\ Offset \in Int /\ Sizes \subseteq Nat
    /\ Hosts \in Seq(HostSet) /\ IsInjective(Hosts)
    /\ Props \in Seq(PropSet) /\ IsInjective(Props)
    /\ \A f \in Listed : f.of \subseteq HostSet \X PropSet /\ f.name \notin PropSet
    /\ \A f, g \in Listed : f.name = g.name => f = g
  BY ReportConstants DEF HostSet, PropSet

LEMMA NewReportTyped == NewReport \in HostReport /\ NewReport.used = <<>> /\ NewReport.vals = <<>>
                        /\ NewReport.names = <<>> /\ NewReport.dump = <<>>
  BY DEF NewReport, HostReport

LEMMA InitHosts == Init => HostInv
<1> SUFFICES ASSUME Init PROVE HostInv
  OBVIOUS
<1> USE DEF Init
<1>1. HTyped
  <2>1. pages \in [HostSet -> HostPages] /\ DOMAIN assets = HostImages
    BY DEF HostPages, HostImages, HostSet
  <2>2. DOMAIN columns = HostSet
    BY ReportConstants DEF HostSet
  <2> QED
    BY <2>1, <2>2, HostNumbers, NewReportTyped DEF HTyped, HostSet, IsInjective
<1>2. HFound /\ HGathered
  BY DEF HFound, HGathered
<1>3. HArrays
  BY NewReportTyped DEF HArrays, IsInjective
<1>4. HPages
  <2>1. ToSet(hosts) = HostSet
    BY DEF HostSet
  <2> QED
    BY <2>1 DEF HPages, PageRight, HostSet, HostImages
<1> QED
  BY <1>1, <1>2, <1>3, <1>4 DEF HostInv

LEMMA HostAt ==
    ASSUME HTyped
    PROVE  /\ hosts # <<>> => /\ host \in HostSet /\ host \in ToSet(hosts)
                              /\ Tail(hosts) \in Seq(HostSet) /\ IsInjective(Tail(hosts))
                              /\ host \notin ToSet(Tail(hosts))
                              /\ \A h \in ToSet(Tail(hosts)) : h \in ToSet(hosts)
           /\ props # <<>> => /\ prop \in PropSet /\ prop \in ToSet(props)
                              /\ Tail(props) \in Seq(PropSet) /\ IsInjective(Tail(props))
                              /\ prop \notin ToSet(Tail(props))
                              /\ \A q \in ToSet(Tail(props)) : q \in ToSet(props)
<1>1. ASSUME hosts # <<>>
      PROVE  /\ host \in HostSet /\ host \in ToSet(hosts)
             /\ Tail(hosts) \in Seq(HostSet) /\ IsInjective(Tail(hosts))
             /\ host \notin ToSet(Tail(hosts))
             /\ \A h \in ToSet(Tail(hosts)) : h \in ToSet(hosts)
  <2>1. hosts \in Seq(HostSet) /\ IsInjective(hosts)
    BY DEF HTyped
  <2> QED
    BY <1>1, <2>1, TailOfDistinct, Zenon DEF host
<1>2. ASSUME props # <<>>
      PROVE  /\ prop \in PropSet /\ prop \in ToSet(props)
             /\ Tail(props) \in Seq(PropSet) /\ IsInjective(Tail(props))
             /\ prop \notin ToSet(Tail(props))
             /\ \A q \in ToSet(Tail(props)) : q \in ToSet(props)
  <2>1. props \in Seq(PropSet) /\ IsInjective(props)
    BY DEF HTyped
  <2> QED
    BY <1>2, <2>1, TailOfDistinct, Zenon DEF prop
<1> QED
  BY <1>1, <1>2, Zenon

(* The pages stay right where neither they nor the hosts change. *)
LEMMA PagesKept == HPages /\ UNCHANGED <<columns, assets, pages, hosts>> => HPages'
  BY DEF HPages, PageRight, DrawnRight, DrawnOf

LEMMA HostStartKeeps == HostInv /\ StartHost => HostInv'
<1> SUFFICES ASSUME HostInv, StartHost PROVE HostInv'
  OBVIOUS
<1> USE DEF StartHost, HostInv
<1>1. HTyped'
  BY HostNumbers, NewReportTyped DEF HTyped
<1>2. HFound'
  BY DEF HFound
<1>3. HArrays' /\ HGathered'
  BY NewReportTyped DEF HArrays, HGathered, IsInjective
<1>4. HPages'
  BY PagesKept, Zenon
<1> QED
  BY <1>1, <1>2, <1>3, <1>4

LEMMA StartPropKeeps == HostInv /\ StartProp => HostInv'
<1> SUFFICES ASSUME HostInv, StartProp PROVE HostInv'
  OBVIOUS
<1> USE DEF StartProp, HostInv
<1>1. HTyped'
  <2>1. HTyped /\ props # <<>>
    OBVIOUS
  <2>2. Tail(props) \in Seq(PropSet) /\ IsInjective(Tail(props))
    BY <2>1, HostAt, Zenon
  <2>3. props' \in Seq(PropSet) /\ IsInjective(props')
    BY <2>2 DEF HTyped
  <2>4. /\ pc = "prop" /\ hosts' = hosts /\ rep' = rep /\ UNCHANGED <<columns, assets, pages>>
        /\ \/ pc' = "list" /\ line' = 1 /\ found' = {} /\ props' = props
           \/ pc' = pc /\ line' = line /\ found' = found
    OBVIOUS
  <2> QED
    BY <2>1, <2>3, <2>4 DEF HTyped
<1>2. HFound'
  BY DEF HFound
<1>3. HArrays'
  BY DEF HArrays
<1>4. HGathered'
  <2>1. host' = host /\ rep' = rep /\ pc = "prop" /\ pc' \in {"prop", "list"}
    BY DEF host
  <2>2. \A q \in ToSet(ToCome)' : q \in ToSet(ToCome)
    <3>1. ToCome = props /\ ToCome' = props'
      BY <2>1 DEF ToCome
    <3>2. HTyped /\ props # <<>> /\ props' \in {props, Tail(props)}
      OBVIOUS
    <3> QED
      BY <3>1, <3>2, HostAt, Zenon
  <2> QED
    BY <2>1, <2>2 DEF HGathered, OfHost
<1>5. HPages'
  BY PagesKept, Zenon
<1> QED
  BY <1>1, <1>2, <1>3, <1>4, <1>5

LEMMA ReadLineKeeps == HostInv /\ ReadLine => HostInv'
<1> SUFFICES ASSUME HostInv, ReadLine PROVE HostInv'
  OBVIOUS
<1> USE DEF ReadLine, HostInv
<1>1. Listing[line] \in Listed
  BY ReportConstants DEF HTyped, Listed
<1>2. \/ found' = found /\ line' \in {line, line + 1}
      \/ Matches(Listing[line]) /\ found' = found \cup {Listing[line]} /\ line' = line + 1
  OBVIOUS
<1>3. HTyped'
  BY <1>1, <1>2 DEF HTyped
<1>4. HFound'
  BY <1>1, <1>2 DEF HFound, host, prop, Matches
<1>5. HArrays'
  BY DEF HArrays
<1>6. HGathered'
  BY DEF HGathered, host, ToCome
<1>7. HPages'
  BY PagesKept, Zenon
<1> QED
  BY <1>3, <1>4, <1>5, <1>6, <1>7

(* The property is left, and nothing more is gathered. *)
LEMMA LeaveProp ==
    ASSUME HostInv, NextProp, pc \in {"list", "score"}, UNCHANGED <<hosts, line, found, columns, assets, pages>>,
           rep' \in HostReport,
           rep'.used = rep.used /\ rep'.vals = rep.vals /\ rep'.names = rep.names /\ rep'.dump = rep.dump
    PROVE  HostInv'
<1> USE DEF NextProp, HostInv
<1>1. HTyped'
  <2>1. HTyped /\ props # <<>>
    BY DEF HTyped
  <2>2. Tail(props) \in Seq(PropSet) /\ IsInjective(Tail(props))
    BY <2>1, HostAt, Zenon
  <2> QED
    BY <2>1, <2>2 DEF HTyped
<1>2. HFound'
  BY DEF HFound
<1>3. HArrays'
  BY DEF HArrays
<1>4. HGathered'
  <2>1. host' = host
    BY DEF host
  <2>2. \A q \in ToSet(ToCome)' : q \in ToSet(ToCome)
    <3>1. ToCome \in {props, Tail(props)} /\ ToCome' = Tail(props)
      BY DEF ToCome
    <3>2. HTyped /\ props # <<>>
      BY DEF HTyped
    <3> QED
      BY <3>1, <3>2, HostAt, Zenon
  <2>3. /\ \A i \in 1 .. Len(rep.used) : rep.used[i] \notin ToSet(ToCome)
        /\ \A i \in 1 .. Len(rep.names) : OfHost(rep.names[i], host)
    BY DEF HGathered
  <2>4. /\ \A i \in 1 .. Len(rep'.used) : rep'.used[i] \notin ToSet(ToCome)'
        /\ \A i \in 1 .. Len(rep'.names) : OfHost(rep'.names[i], host')
    <3> HIDE DEF NextProp, HostInv
    <3> QED
      BY <2>1, <2>2, <2>3, Zenon
  <2> QED
    BY <2>4 DEF HGathered, OfHost
<1>5. HPages'
  BY PagesKept, Zenon
<1> QED
  BY <1>1, <1>2, <1>3, <1>4, <1>5

LEMMA NothingKeeps == HostInv /\ (NoBaselines \/ NoData \/ Scored) => HostInv'
<1> SUFFICES ASSUME HostInv, NoBaselines \/ NoData \/ Scored PROVE HostInv'
  OBVIOUS
<1>1. NextProp /\ pc \in {"list", "score"} /\ UNCHANGED <<hosts, line, found, columns, assets, pages, rep>>
  BY DEF NoBaselines, NoData, Scored
<1>2. rep' \in HostReport
  BY <1>1 DEF HostInv, HTyped
<1> QED
  BY <1>1, <1>2, LeaveProp

LEMMA FlatKeeps == ASSUME NEW n \in Sizes PROVE HostInv /\ Flat(n) => HostInv'
<1> SUFFICES ASSUME HostInv, Flat(n) PROVE HostInv'
  OBVIOUS
<1>1. NextProp /\ pc \in {"list", "score"} /\ UNCHANGED <<hosts, line, found, columns, assets, pages>>
      /\ rep' = [rep EXCEPT !.times = n]
  BY DEF Flat
<1>2. rep \in HostReport /\ n \in Nat
  BY HostNumbers DEF HostInv, HTyped
<1>3. /\ rep' \in HostReport
      /\ rep'.used = rep.used /\ rep'.vals = rep.vals /\ rep'.names = rep.names /\ rep'.dump = rep.dump
  BY <1>1, <1>2 DEF HostReport
<1> QED
  BY <1>1, <1>3, LeaveProp

LEMMA FetchKeeps == ASSUME NEW n \in Sizes PROVE HostInv /\ Fetch(n) => HostInv'
<1> SUFFICES ASSUME HostInv, Fetch(n) PROVE HostInv'
  OBVIOUS
<1> USE DEF Fetch, HostInv
<1> DEFINE used == rep.used
<1>1. /\ HTyped /\ props # <<>> /\ rep \in HostReport /\ n \in Nat /\ pc = "list" /\ hosts' = hosts /\ props' = props
      /\ pc' \in {"score", "short"}
  BY HostNumbers DEF HTyped
<1>2. prop \in PropSet /\ prop \in ToSet(props) /\ prop \notin ToSet(Tail(props))
      /\ \A q \in ToSet(Tail(props)) : q \in ToSet(props)
  BY <1>1, HostAt, Zenon
<1>3. used \in Seq(PropSet) /\ IsInjective(used) /\ Len(used) \in Nat /\ DOMAIN used = 1 .. Len(used)
  BY <1>1 DEF HostReport, HArrays
<1>4. \A i \in 1 .. Len(used) : used[i] \notin ToSet(props)
  BY <1>1 DEF HGathered, ToCome
<1>5. prop \notin ToSet(used)
  BY <1>2, <1>3, <1>4, Zenon DEF ToSet
<1>6. /\ Append(used, prop) \in Seq(PropSet) /\ IsInjective(Append(used, prop))
      /\ Len(Append(used, prop)) = Len(used) + 1
      /\ \A k \in 1 .. Len(used) : Append(used, prop)[k] = used[k]
      /\ Append(used, prop)[Len(used) + 1] = prop
  BY <1>2, <1>3, <1>5, AppendedDistinct
<1> DEFINE val == [name |-> prop, len |-> n]
<1>7. /\ rep' \in HostReport /\ rep'.used = Append(used, prop) /\ rep'.vals = Append(rep.vals, val)
      /\ rep'.names = rep.names /\ rep'.dump = rep.dump
  <2>1. rep.vals \in Seq([name: PropSet, len: Nat]) /\ val \in [name: PropSet, len: Nat]
    BY <1>1, <1>2 DEF HostReport
  <2>2. Append(rep.vals, val) \in Seq([name: PropSet, len: Nat])
    BY <2>1
  <2> QED
    BY <1>1, <1>6, <2>2 DEF HostReport
<1>8. /\ Len(rep'.vals) = Len(used) + 1
      /\ \A k \in 1 .. Len(used) : rep'.vals[k].name = used[k]
      /\ rep'.vals[Len(used) + 1].name = prop
  <2>1. rep.vals \in Seq([name: PropSet, len: Nat]) /\ Len(rep.vals) = Len(used)
        /\ \A k \in 1 .. Len(used) : rep.vals[k].name = used[k]
    BY <1>1 DEF HostReport, HArrays
  <2>2. val \in [name: PropSet, len: Nat] /\ val.name = prop
    BY <1>1, <1>2
  <2> HIDE DEF val, used
  <2> QED
    BY <1>7, <2>1, <2>2
<1>9. \A k \in 1 .. Len(used) + 1 : k \in 1 .. Len(used) \/ k = Len(used) + 1
  BY <1>3
<1> HIDE DEF val, used
<1>10. HTyped'
  BY <1>1, <1>7 DEF HTyped
<1>11. HFound'
  BY <1>1 DEF HFound, host, prop
<1>12. HArrays'
  <2>1. /\ Len(rep'.vals) = Len(rep'.used) /\ IsInjective(rep'.used)
        /\ \A k \in 1 .. Len(rep'.used) : rep'.vals[k].name = rep'.used[k]
    BY <1>6, <1>7, <1>8, <1>9, Zenon
  <2>2. Len(rep'.dump) = Len(rep'.names) /\ \A k \in 1 .. Len(rep'.names) : rep'.dump[k].name = rep'.names[k]
    <3>1. Len(rep.dump) = Len(rep.names) /\ \A k \in 1 .. Len(rep.names) : rep.dump[k].name = rep.names[k]
      BY <1>1 DEF HArrays
    <3> QED
      BY <1>7, <3>1, Zenon
  <2> QED
    BY <2>1, <2>2, Zenon DEF HArrays
<1>13. HGathered'
  <2>1. host' = host /\ rep'.names = rep.names
    BY <1>1, <1>7 DEF host
  <2>2. pc' = "score" => ToCome' = Tail(props)
    BY <1>1 DEF ToCome
  <2>3. \A i \in 1 .. Len(rep'.used) : rep'.used[i] \notin ToSet(Tail(props))
    BY <1>2, <1>4, <1>6, <1>7, <1>9
  <2>4. \A i \in 1 .. Len(rep.names) : OfHost(rep.names[i], host)
    BY <1>1 DEF HGathered
  <2> QED
    BY <1>1, <2>1, <2>2, <2>3, <2>4 DEF HGathered, OfHost
<1>14. HPages'
  BY <1>1, PagesKept
<1> QED
  BY <1>10, <1>11, <1>12, <1>13, <1>14

(* A baseline that counts is one of the host. *)
LEMMA ScoreKeeps ==
    ASSUME NEW f \in Listed, NEW high \in SUBSET (Keys(rep.words) \cap Peaks)
    PROVE  HostInv /\ Score(f, high) => HostInv'
<1> SUFFICES ASSUME HostInv, Score(f, high) PROVE HostInv'
  OBVIOUS
<1> USE DEF Score, HostInv
<1>1. /\ HTyped /\ props # <<>> /\ rep \in HostReport /\ pc = "score" /\ pc' = pc /\ hosts' = hosts /\ props' = props
      /\ found' \subseteq found /\ f \in found /\ line' = line /\ UNCHANGED <<columns, assets, pages>>
      /\ rep' = Counted(f, high) \/ rep' = rep
  BY DEF HTyped
<1>2. f.name \in Names /\ <<host, prop>> \in f.of /\ prop \in PropSet
  <2>1. prop \in PropSet
    BY <1>1, HostAt, Zenon
  <2>2. <<host, prop>> \in f.of
    BY <1>1 DEF HFound
  <2> QED
    BY <2>1, <2>2, Zenon DEF Names
<1>3. OfHost(f.name, host)
  BY <1>2, Zenon DEF OfHost
<1>4. Keys(rep.words) \subseteq Int /\ Cardinality(Keys(rep.words)) \in Nat
  <2>1. rep.words \in Nat
    BY <1>1 DEF HostReport
  <2>2. Lead - 1 + Offset \in Int /\ rep.words - 1 + Offset \in Int
    BY <2>1, HostNumbers
  <2>3. IsFiniteSet(Keys(rep.words))
    BY <2>2, FS_Interval, Zenon DEF Keys
  <2>4. Cardinality(Keys(rep.words)) \in Nat
    BY <2>3, FS_CardinalityType, Zenon
  <2>5. Keys(rep.words) \subseteq Int
    BY <2>2 DEF Keys
  <2> QED
    BY <2>4, <2>5
<1> DEFINE column == [name |-> f.name, len |-> rep.words + 1]
           entry  == [high |-> high, len |-> Cardinality(Keys(rep.words))]
<1>5. column \in [name: Names, len: Nat] /\ column.name = f.name
  BY <1>1, <1>2 DEF HostReport
<1>6. entry \in [high: SUBSET Int, len: Nat]
  BY <1>4
<1>7. ASSUME rep' = Counted(f, high)
      PROVE  /\ rep' \in HostReport /\ rep'.used = rep.used /\ rep'.vals = rep.vals
             /\ rep'.names = Append(rep.names, f.name) /\ rep'.dump = Append(rep.dump, column)
  <2> HIDE DEF column, entry
  <2>1. /\ Append(rep.names, f.name) \in Seq(Names)
        /\ Append(rep.dump, column) \in Seq([name: Names, len: Nat])
        /\ Append(rep.series, entry) \in Seq([high: SUBSET Int, len: Nat])
    BY <1>1, <1>2, <1>5, <1>6 DEF HostReport
  <2>2. rep' = [rep EXCEPT !.names = Append(@, f.name), !.dump = Append(@, column), !.series = Append(@, entry)]
    BY <1>7, Zenon DEF Counted, column, entry
  <2> QED
    BY <1>1, <2>1, <2>2 DEF HostReport
<1> HIDE DEF column, entry
<1>8. /\ rep' \in HostReport /\ rep'.used = rep.used /\ rep'.vals = rep.vals
      /\ \/ rep'.names = rep.names /\ rep'.dump = rep.dump
         \/ rep'.names = Append(rep.names, f.name) /\ rep'.dump = Append(rep.dump, column)
  BY <1>1, <1>7
<1>9. rep.names \in Seq(Names) /\ rep.dump \in Seq([name: Names, len: Nat])
  BY <1>1 DEF HostReport
<1>15. /\ Len(Append(rep.dump, column)) = Len(Append(rep.names, f.name))
       /\ \A i \in 1 .. Len(Append(rep.names, f.name)) : Append(rep.dump, column)[i].name = Append(rep.names, f.name)[i]
       /\ \A i \in 1 .. Len(Append(rep.names, f.name)) :
             Append(rep.names, f.name)[i] = f.name \/ \E j \in 1 .. Len(rep.names) : Append(rep.names, f.name)[i] = rep.names[j]
  <2>1. f.name \in Names /\ column \in [name: Names, len: Nat] /\ column.name = f.name
    BY <1>2, <1>5
  <2>2. Len(rep.dump) = Len(rep.names) /\ \A i \in 1 .. Len(rep.names) : rep.dump[i].name = rep.names[i]
    BY DEF HArrays
  <2> DEFINE T == [name: Names, len: Nat]
  <2>3. PICK s \in Seq(Names), t \in Seq(T), x \in Names, y \in T :
           s = rep.names /\ t = rep.dump /\ x = f.name /\ y = column
    BY <1>9, <2>1, Zenon
  <2>4. Len(t) = Len(s) /\ (\A i \in 1 .. Len(s) : t[i].name = s[i]) /\ y.name = x
    BY <2>1, <2>2, <2>3, Zenon
  <2> HIDE DEF T, HostInv, Score
  <2>5. /\ Len(Append(t, y)) = Len(Append(s, x))
        /\ \A i \in 1 .. Len(Append(s, x)) : Append(t, y)[i].name = Append(s, x)[i]
        /\ \A i \in 1 .. Len(Append(s, x)) : Append(s, x)[i] = x \/ \E j \in 1 .. Len(s) : Append(s, x)[i] = s[j]
    BY <2>4, BothAppended
  <2> QED
    BY <2>3, <2>5, Zenon
<1>10. HTyped'
  BY <1>1, <1>8 DEF HTyped
<1>11. HFound'
  BY <1>1 DEF HFound, host, prop
<1>12. HArrays'
  <2>1. Len(rep.dump) = Len(rep.names) /\ \A i \in 1 .. Len(rep.names) : rep.dump[i].name = rep.names[i]
    BY DEF HArrays
  <2>2. Len(rep'.dump) = Len(rep'.names) /\ \A i \in 1 .. Len(rep'.names) : rep'.dump[i].name = rep'.names[i]
    <3>1. CASE rep'.names = rep.names /\ rep'.dump = rep.dump
      BY <3>1, <2>1
    <3>2. CASE rep'.names = Append(rep.names, f.name) /\ rep'.dump = Append(rep.dump, column)
      BY <3>2, <1>15, Zenon
    <3> QED
      BY <1>8, <3>1, <3>2
  <2> QED
    BY <1>8, <2>2 DEF HArrays
<1>13. HGathered'
  <2>1. host' = host /\ ToCome' = ToCome
    BY <1>1 DEF host, ToCome
  <2>2. \A i \in 1 .. Len(rep.names) : OfHost(rep.names[i], host)
    BY <1>1 DEF HGathered
  <2>3. \A i \in 1 .. Len(rep'.names) : rep'.names[i] = f.name \/ \E j \in 1 .. Len(rep.names) : rep'.names[i] = rep.names[j]
    <3>1. CASE rep'.names = rep.names
      BY <3>1
    <3>2. CASE rep'.names = Append(rep.names, f.name)
      BY <3>2, <1>15, Zenon
    <3> QED
      BY <1>8, <3>1, <3>2
  <2>4. \A i \in 1 .. Len(rep'.names) : OfHost(rep'.names[i], host)
    BY <1>3, <2>2, <2>3
  <2> QED
    BY <1>1, <1>8, <2>1, <2>4 DEF HGathered, OfHost
<1>14. HPages'
  BY <1>1, PagesKept
<1> QED
  BY <1>10, <1>11, <1>12, <1>13, <1>14

LEMMA NextHostTyped ==
    ASSUME HTyped, pc = "prop", NextHost, UNCHANGED <<props, line, found, rep>>, pages' \in [HostSet -> HostPages],
           DOMAIN columns' = HostSet, DOMAIN assets' = HostImages
    PROVE  HTyped'
<1>1. hosts # <<>> /\ hosts' = Tail(hosts) /\ pc' = "host"
  BY DEF HTyped, NextHost
<1>2. hosts' \in Seq(HostSet) /\ IsInjective(hosts')
  BY <1>1, HostAt, Zenon
<1> QED
  BY <1>1, <1>2 DEF HTyped

LEMMA NotOddKeeps == HostInv /\ NotOdd => HostInv'
<1> SUFFICES ASSUME HostInv, NotOdd PROVE HostInv'
  OBVIOUS
<1> USE DEF NotOdd, HostInv
<1>1. pc = "prop" /\ NextHost /\ UNCHANGED <<props, line, found, rep, columns, assets, pages>>
      /\ pc' = "host" /\ hosts' = Tail(hosts) /\ hosts # <<>>
  BY DEF AllProps, NextHost, HTyped
<1>2. HTyped'
  <2>1. pages' \in [HostSet -> HostPages] /\ DOMAIN columns' = HostSet /\ DOMAIN assets' = HostImages
    BY <1>1 DEF HTyped
  <2> QED
    BY <1>1, <2>1, NextHostTyped
<1>3. HFound' /\ HGathered'
  BY <1>1 DEF HFound, HGathered
<1>4. HArrays'
  BY <1>1 DEF HArrays
<1>5. HPages'
  <2>1. \A h \in ToSet(Tail(hosts)) : h \in ToSet(hosts)
    BY <1>1, HostAt, Zenon
  <2>2. \A image : DrawnRight(image) => DrawnRight(image)'
    BY <1>1, <2>1 DEF DrawnRight, DrawnOf
  <2> QED
    BY <1>1, <2>1, <2>2 DEF HPages, PageRight
<1> QED
  BY <1>2, <1>3, <1>4, <1>5

LEMMA EndKeeps == HostInv /\ (Overrun \/ Index) => HostInv'
<1> SUFFICES ASSUME HostInv, Overrun \/ Index PROVE HostInv'
  OBVIOUS
<1> USE DEF HostInv
<1>1. pc' \in {"overrun", "end"} /\ UNCHANGED <<hosts, props, line, found, rep, columns, assets, pages>>
  BY DEF Overrun, Index
<1>2. HTyped'
  BY <1>1 DEF HTyped
<1>3. HFound' /\ HGathered'
  BY <1>1 DEF HFound, HGathered
<1>4. HArrays'
  BY <1>1 DEF HArrays
<1>5. HPages'
  BY <1>1, PagesKept
<1> QED
  BY <1>2, <1>3, <1>4, <1>5

(* The columns of the file of a host, by their places. *)
LEMMA ColumnsOfReport ==
    ASSUME HTyped, HArrays
    PROVE  /\ Columns \in Seq([name: PropSet \cup Names, len: Nat])
           /\ \A i \in 1 .. Len(rep.used) : i \in DOMAIN Columns /\ Columns[i].name = rep.used[i]
           /\ \A i \in 1 .. Len(rep.names) : AnomalyColumn(i) \in DOMAIN Columns
                                             /\ Columns[AnomalyColumn(i)].name = rep.names[i]
<1>1. rep \in HostReport
  BY DEF HTyped
<1>2. /\ rep.vals \in Seq([name: PropSet, len: Nat]) /\ rep.dump \in Seq([name: Names, len: Nat])
      /\ rep.used \in Seq(PropSet) /\ rep.names \in Seq(Names)
  BY <1>1 DEF HostReport
<1> DEFINE Col == [name: PropSet \cup Names, len: Nat]
<1> DEFINE Val == [name: PropSet, len: Nat]
           Dmp == [name: Names, len: Nat]
<1>3. \A c \in Val : c \in Col
  OBVIOUS
<1>4. \A c \in Dmp : c \in Col
  OBVIOUS
<1> HIDE DEF Col
<1>5. rep.vals \in Seq(Col) /\ rep.dump \in Seq(Col)
  <2>1. rep.vals \in Seq(Val) /\ rep.dump \in Seq(Dmp)
    BY <1>2
  <2> HIDE DEF Val, Dmp
  <2> QED
    BY <1>3, <1>4, <2>1, WiderSequence, Zenon
<1>6. /\ Columns \in Seq(Col) /\ DOMAIN Columns = 1 .. Len(rep.vals) + Len(rep.dump)
      /\ \A i \in 1 .. Len(rep.vals) : Columns[i] = rep.vals[i]
      /\ \A i \in 1 .. Len(rep.dump) : Columns[i + Len(rep.vals)] = rep.dump[i]
  <2>1. Columns = rep.vals \o rep.dump
    BY DEF Columns
  <2>2. PICK s, t : s = rep.vals /\ t = rep.dump
    OBVIOUS
  <2>3. s \in Seq(Col) /\ t \in Seq(Col)
    BY <1>5, <2>2
  <2>4. /\ s \o t \in Seq(Col) /\ DOMAIN (s \o t) = 1 .. Len(s) + Len(t)
        /\ \A k \in 1 .. Len(s) : (s \o t)[k] = s[k]
        /\ \A k \in 1 .. Len(t) : (s \o t)[k + Len(s)] = t[k]
    BY <2>3, JoinedPlaces
  <2> QED
    BY <2>1, <2>2, <2>4, Zenon
<1>7. /\ Len(rep.vals) = Len(rep.used) /\ \A i \in 1 .. Len(rep.used) : rep.vals[i].name = rep.used[i]
      /\ Len(rep.dump) = Len(rep.names) /\ \A i \in 1 .. Len(rep.names) : rep.dump[i].name = rep.names[i]
      /\ Len(rep.used) \in Nat /\ Len(rep.names) \in Nat
  BY <1>2 DEF HArrays
<1> DEFINE u == Len(rep.used)
           n == Len(rep.names)
<1>8. /\ Len(rep.vals) = u /\ u \in Nat /\ n \in Nat /\ DOMAIN Columns = 1 .. u + n
      /\ \A i \in 1 .. u : Columns[i] = rep.vals[i] /\ rep.vals[i].name = rep.used[i]
      /\ \A i \in 1 .. n : Columns[i + u] = rep.dump[i] /\ rep.dump[i].name = rep.names[i]
  BY <1>6, <1>7, Zenon
<1> HIDE DEF u, n
<1>9. ASSUME NEW i \in 1 .. u PROVE i \in DOMAIN Columns /\ Columns[i].name = rep.used[i]
  <2>1. i \in 1 .. u + n
    BY <1>8
  <2> QED
    BY <1>8, <2>1, Zenon
<1>10. ASSUME NEW i \in 1 .. n PROVE i + u \in DOMAIN Columns /\ Columns[i + u].name = rep.names[i]
  <2>1. i + u \in 1 .. u + n
    BY <1>8
  <2> QED
    BY <1>8, <2>1, Zenon
<1> QED
  BY <1>6, <1>8, <1>9, <1>10, Zenon DEF AnomalyColumn, Col, u, n

(* The greatest of some numbers is one of them. *)
LEMMA NaturalsAll ==
    ASSUME NEW A, 0 \in A, \A n \in Nat : n \in A => n + 1 \in A PROVE \A n \in Nat : n \in A
<1> DEFINE Below == {p \in Nat \X Nat : p[1] < p[2]}
           T == {n \in Nat : n \notin A}
<1>1. IsWellFoundedOn(Below, Nat)
  BY NatLessThanWellFounded, Zenon DEF OpToRel
<1>2. SUFFICES ASSUME T # {} PROVE FALSE
  OBVIOUS
<1>3. T \subseteq Nat
  OBVIOUS
<1>4. PICK x \in T : \A y \in T : ~ (<<y, x>> \in Below)
  <2> HIDE DEF T, Below
  <2> QED
    BY <1>1, <1>2, <1>3, WFMin, Zenon
<1>5. x \in Nat /\ x # 0
  BY <1>4
<1>6. x - 1 \in Nat /\ <<x - 1, x>> \in Below
  BY <1>5
<1>7. x - 1 \in A
  BY <1>4, <1>6
<1> QED
  BY <1>4, <1>5, <1>6, <1>7

LEMMA GreatestOf ==
    ASSUME NEW n \in Nat, NEW s \in SUBSET (1 .. n), s # {} PROVE Max(s) \in s
<1> DEFINE A == {m \in Nat : \A t \in SUBSET (1 .. m) : t # {} => \E x \in t : \A y \in t : x >= y}
<1>1. 0 \in A
  <2>1. 1 .. 0 = {}
    OBVIOUS
  <2> QED
    BY <2>1
<1>2. ASSUME NEW m \in Nat, m \in A PROVE m + 1 \in A
  <2> SUFFICES ASSUME NEW t \in SUBSET (1 .. m + 1), t # {} PROVE \E x \in t : \A y \in t : x >= y
    OBVIOUS
  <2>1. CASE m + 1 \in t
    BY <2>1
  <2>2. CASE m + 1 \notin t
    <3>1. t \in SUBSET (1 .. m)
      BY <2>2
    <3> QED
      BY <1>2, <3>1
  <2> QED
    BY <2>1, <2>2
<1>3. n \in A
  <2> HIDE DEF A
  <2> QED
    BY <1>1, <1>2, NaturalsAll
<1>4. \E x \in s : \A y \in s : x >= y
  BY <1>3
<1> QED
  BY <1>4, Zenon DEF Max

(* The file that is written: the columns by their names, and the times.    *)
Written == [j \in DOMAIN Columns |-> Column(Columns[j].name, host)] \o <<Column("times", host)>>

LEMMA WrittenFile ==
    ASSUME HTyped, HArrays
    PROVE  /\ Len(Columns) \in Nat /\ DOMAIN Columns = 1 .. Len(Columns)
           /\ DOMAIN Written = 1 .. Len(Columns) + 1 /\ Written[Len(Columns) + 1] = Column("times", host)
           /\ \A k \in 1 .. Len(Columns) : Written[k] = Column(Columns[k].name, host)
<1> DEFINE n     == Len(Columns)
           C     == {Column(x, host) : x \in PropSet \cup Names \cup {"times"}}
           cols  == [j \in 1 .. n |-> Column(Columns[j].name, host)]
           times == <<Column("times", host)>>
           T     == [name: PropSet \cup Names, len: Nat]
<1>1. Columns \in Seq(T) /\ \A x \in T : x.name \in PropSet \cup Names
  BY ColumnsOfReport
<1>2. n \in Nat /\ DOMAIN Columns = 1 .. n /\ \A j \in 1 .. n : Columns[j].name \in PropSet \cup Names
  <2> HIDE DEF T
  <2>1. n \in Nat /\ DOMAIN Columns = 1 .. n /\ \A j \in 1 .. n : Columns[j] \in T
    BY <1>1
  <2> QED
    BY <1>1, <2>1
<1>3. Written = cols \o times
  BY <1>2 DEF Written
<1> HIDE DEF n
<1>4. \A j \in 1 .. n : cols[j] = Column(Columns[j].name, host) /\ cols[j] \in C
  BY <1>2
<1>5. cols \in Seq(C) /\ Len(cols) = n
  <2>1. cols = [k \in 1 .. n |-> cols[k]]
    BY <1>4
  <2> HIDE DEF cols, C
  <2> QED
    BY <1>2, <1>4, <2>1, MadeSequence
<1>6. times \in Seq(C) /\ Len(times) = 1 /\ times[1] = Column("times", host)
  <2>1. Column("times", host) \in C
    OBVIOUS
  <2> HIDE DEF C
  <2> QED
    BY <2>1, OneElement
<1> HIDE DEF cols, times, C
<1>7. /\ DOMAIN (cols \o times) = 1 .. Len(cols) + Len(times)
      /\ \A k \in 1 .. Len(cols) : (cols \o times)[k] = cols[k]
      /\ \A k \in 1 .. Len(times) : (cols \o times)[k + Len(cols)] = times[k]
  <2>1. PICK s, t : s = cols /\ t = times
    OBVIOUS
  <2>2. s \in Seq(C) /\ t \in Seq(C)
    BY <1>5, <1>6, <2>1
  <2>3. /\ DOMAIN (s \o t) = 1 .. Len(s) + Len(t)
        /\ \A k \in 1 .. Len(s) : (s \o t)[k] = s[k]
        /\ \A k \in 1 .. Len(t) : (s \o t)[k + Len(s)] = t[k]
    BY <2>2, JoinedPlaces
  <2> QED
    BY <2>1, <2>3, Zenon
<1>8. (cols \o times)[1 + n] = Column("times", host) /\ 1 + n = n + 1
  <2>1. 1 \in 1 .. Len(times) /\ Len(cols) = n /\ 1 + n = n + 1
    BY <1>2, <1>5, <1>6
  <2> QED
    BY <1>6, <1>7, <2>1, Zenon
<1>9. PICK w : w = cols \o times
  OBVIOUS
<1>10. /\ DOMAIN w = 1 .. n + 1 /\ w[n + 1] = Column("times", host)
       /\ \A k \in 1 .. n : w[k] = Column(Columns[k].name, host)
  <2>1. DOMAIN w = 1 .. n + 1
    BY <1>5, <1>6, <1>7, <1>9, Zenon
  <2>2. w[n + 1] = Column("times", host)
    BY <1>8, <1>9, Zenon
  <2>3. \A k \in 1 .. n : w[k] = Column(Columns[k].name, host)
    BY <1>4, <1>5, <1>7, <1>9, Zenon
  <2> QED
    BY <2>1, <2>2, <2>3
<1> QED
  BY <1>2, <1>3, <1>9, <1>10, Zenon DEF n

(* Images go by their names. *)
LEMMA HostImageNames ==
    /\ \A h, q, name : ValuesOf(h, q) # ScoreOf(name)
    /\ \A h, g, q, r : ValuesOf(h, q) = ValuesOf(g, r) => h = g /\ q = r
    /\ \A h, q : ValuesOf(h, q)[1] = q
    /\ \A name : ScoreOf(name)[1] = name
<1>1. \A h, q, name : <<q, h>> # <<name>>
  <2> SUFFICES ASSUME NEW h, NEW q, NEW name PROVE <<q, h>> # <<name>>
    OBVIOUS
  <2>1. Len(<<q, h>>) = 2 /\ Len(<<name>>) = 1
    OBVIOUS
  <2> QED
    BY <2>1
<1>2. \A h, g, q, r : <<q, h>> = <<r, g>> => h = g /\ q = r
  OBVIOUS
<1>3. \A h, q : <<q, h>>[1] = q
  OBVIOUS
<1>4. \A name : <<name>>[1] = name
  OBVIOUS
<1> QED
  BY <1>1, <1>2, <1>3, <1>4 DEF ValuesOf, ScoreOf

(* The plots are of images of the host, over columns of their names.       *)
PlotRight(p) == /\ p \in [image: HostImages, col: Nat] /\ host \in Owners(p.image)
                /\ p.col \in 1 .. Len(Columns) /\ Columns[p.col].name = p.image[1]

LEMMA PlotsRight ==
    ASSUME HostInv, pc = "prop", hosts # <<>>
    PROVE  /\ \A p \in Plots : PlotRight(p)
           /\ \A p, r \in Plots : p.image = r.image /\ p.image \in PropertyImages => p = r
<1> USE DEF HostInv
<1>1. host \in HostSet /\ HTyped /\ HArrays
  BY HostAt
<1>2. /\ rep.used \in Seq(PropSet) /\ rep.names \in Seq(Names) /\ IsInjective(rep.used)
      /\ DOMAIN rep.used = 1 .. Len(rep.used) /\ DOMAIN rep.names = 1 .. Len(rep.names)
      /\ Len(rep.vals) \in Nat
  BY <1>1 DEF HTyped, HostReport, HArrays
<1>3. \A p \in Plots :
         \/ \E i \in 1 .. Len(rep.used) : p = [image |-> ValuesOf(host, rep.used[i]), col |-> i]
         \/ \E i \in 1 .. Len(rep.names) : p = [image |-> ScoreOf(rep.names[i]), col |-> AnomalyColumn(i)]
  BY <1>2 DEF Plots
<1>4. /\ DOMAIN Columns = 1 .. Len(Columns)
      /\ \A i \in 1 .. Len(rep.used) : i \in DOMAIN Columns /\ Columns[i].name = rep.used[i]
      /\ \A i \in 1 .. Len(rep.names) : AnomalyColumn(i) \in DOMAIN Columns
                                        /\ Columns[AnomalyColumn(i)].name = rep.names[i]
  BY <1>1, ColumnsOfReport, WrittenFile
<1>5. ASSUME NEW i \in 1 .. Len(rep.used), NEW p, p = [image |-> ValuesOf(host, rep.used[i]), col |-> i]
      PROVE  PlotRight(p)
  <2>1. rep.used[i] \in PropSet
    BY <1>2
  <2>2. p.image = ValuesOf(host, rep.used[i]) /\ p.col = i /\ p.image[1] = rep.used[i]
    BY <1>5, HostImageNames
  <2>3. p.image \in HostImages /\ host \in Owners(p.image)
    BY <1>1, <2>1, <2>2 DEF HostImages, PropertyImages, Owners, HostSet, PropSet
  <2>4. p \in [image: HostImages, col: Nat]
    BY <1>5, <2>2, <2>3
  <2> QED
    BY <1>4, <2>2, <2>3, <2>4, Zenon DEF PlotRight
<1>6. ASSUME NEW i \in 1 .. Len(rep.names), NEW p, p = [image |-> ScoreOf(rep.names[i]), col |-> AnomalyColumn(i)]
      PROVE  PlotRight(p)
  <2>1. rep.names[i] \in Names /\ AnomalyColumn(i) \in Nat
    BY <1>2 DEF AnomalyColumn
  <2>2. p.image = ScoreOf(rep.names[i]) /\ p.col = AnomalyColumn(i) /\ p.image[1] = rep.names[i]
    BY <1>6, HostImageNames
  <2>3. OfHost(rep.names[i], host)
    BY <1>6 DEF HGathered
  <2>4. PICK f \in Listed, q \in PropSet : f.name = rep.names[i] /\ <<host, q>> \in f.of
    BY <2>3 DEF OfHost
  <2>5. p.image = ScoreOf(f.name)
    BY <2>2, <2>4
  <2>6. p.image \in HostImages /\ host \in Owners(p.image)
    BY <1>1, <2>4, <2>5, Zenon DEF HostImages, ScoreImages, Owners, HostSet, PropSet
  <2>7. p \in [image: HostImages, col: Nat]
    BY <1>6, <2>1, <2>2, <2>6
  <2> QED
    BY <1>4, <2>2, <2>6, <2>7, Zenon DEF PlotRight
<1>7. \A p \in Plots : PlotRight(p)
  BY <1>3, <1>5, <1>6, Zenon
<1>8. ASSUME NEW p \in Plots, NEW r \in Plots, p.image = r.image, p.image \in PropertyImages PROVE p = r
  <2>1. PICK h, q : p.image = ValuesOf(h, q)
    BY <1>8 DEF PropertyImages
  <2>2. \A name : p.image # ScoreOf(name) /\ r.image # ScoreOf(name)
    <3>1. \A name : ValuesOf(h, q) # ScoreOf(name)
      BY HostImageNames, Zenon
    <3> QED
      BY <1>8, <2>1, <3>1
  <2>3. PICK i \in 1 .. Len(rep.used) : p = [image |-> ValuesOf(host, rep.used[i]), col |-> i]
    <3>1. ASSUME NEW i \in 1 .. Len(rep.names), p = [image |-> ScoreOf(rep.names[i]), col |-> AnomalyColumn(i)]
          PROVE  FALSE
      BY <2>2, <3>1
    <3> QED
      BY <1>3, <3>1, Zenon
  <2>4. PICK j \in 1 .. Len(rep.used) : r = [image |-> ValuesOf(host, rep.used[j]), col |-> j]
    BY <1>3, <2>2
  <2>5. rep.used[i] = rep.used[j]
    BY <1>8, <2>3, <2>4, HostImageNames
  <2>6. i = j
    BY <1>2, <2>5, Zenon DEF IsInjective
  <2> QED
    BY <2>3, <2>4, <2>6
<1> QED
  BY <1>7, <1>8, Zenon

(* What is drawn over the file of the host is right, whether this run      *)
(* could write the file or not.                                            *)
LEMMA CurveRight ==
    ASSUME HTyped, HArrays, NEW data, data = Written \/ data = HostFiles[host], columns'[host] = data,
           NEW image, NEW col \in 1 .. Len(Columns), Columns[col].name = image[1], assets'[image] = Curve(data, col)
    PROVE  \/ assets'[image] = [x |-> Column("times", host), y |-> Column(image[1], host)]
           \/ /\ columns'[host] = HostFiles[host]
              /\ assets'[image] = Blank \/ assets'[image].y \in ToSet(HostFiles[host])
<1> DEFINE n == Len(Columns)
<1>1. /\ n \in Nat /\ DOMAIN Written = 1 .. n + 1 /\ Written[n + 1] = Column("times", host)
      /\ \A k \in 1 .. n : Written[k] = Column(Columns[k].name, host)
  BY WrittenFile
<1>2. assets'[image] = IF {n + 1, col} \subseteq DOMAIN data THEN [x |-> data[n + 1], y |-> data[col]] ELSE Blank
  BY DEF Curve
<1>3. CASE data = Written
  <2>1. n + 1 \in DOMAIN data /\ col \in DOMAIN data
    BY <1>1, <1>3
  <2>2. assets'[image] = [x |-> data[n + 1], y |-> data[col]]
    BY <1>2, <2>1
  <2>3. data[n + 1] = Column("times", host) /\ data[col] = Column(image[1], host)
    BY <1>1, <1>3
  <2> QED
    BY <2>2, <2>3
<1>4. CASE data = HostFiles[host]
  <2>1. CASE {n + 1, col} \subseteq DOMAIN data
    <3>1. assets'[image].y = data[col] /\ col \in DOMAIN data
      BY <1>2, <2>1
    <3>2. assets'[image].y \in ToSet(data)
      BY <3>1, Zenon DEF ToSet
    <3> QED
      BY <1>4, <3>2
  <2>2. CASE ~ ({n + 1, col} \subseteq DOMAIN data)
    BY <1>2, <1>4, <2>2
  <2> QED
    BY <2>1, <2>2
<1> QED
  BY <1>3, <1>4

(* Of a host that is not to come any more. *)
LEMMA NowDrawn ==
    ASSUME NEW image, host \in Owners(image), host \in HostSet, host \notin ToSet(hosts'),
           \/ assets'[image] = [x |-> Column("times", host), y |-> Column(image[1], host)]
           \/ /\ columns'[host] = HostFiles[host]
              /\ assets'[image] = Blank \/ assets'[image].y \in ToSet(HostFiles[host])
    PROVE  DrawnRight(image)'
<1>1. PICK g : g = host
  OBVIOUS
<1>2. g \in Owners(image) /\ g \notin ToSet(hosts')
      /\ \/ assets'[image] = [x |-> Column("times", g), y |-> Column(image[1], g)]
         \/ /\ columns'[g] = HostFiles[g]
            /\ assets'[image] = Blank \/ assets'[image].y \in ToSet(HostFiles[g])
  BY <1>1
<1>3. \A i : Owners(i)' = Owners(i)
  BY DEF Owners
<1> QED
  BY <1>2, <1>3 DEF DrawnRight, DrawnOf, Blank

LEMMA ReportKeeps == HostInv /\ Report => HostInv'
<1> SUFFICES ASSUME HostInv, Report PROVE HostInv'
  OBVIOUS
<1> USE DEF HostInv
<1>1. /\ pc = "prop" /\ NextHost /\ UNCHANGED <<props, line, found, rep>> /\ pc' = "host" /\ hosts' = Tail(hosts)
      /\ hosts # <<>> /\ HTyped /\ HArrays
  BY DEF Report, AllProps, NextHost, HTyped
<1>2. /\ host \in HostSet /\ host \in ToSet(hosts) /\ host \notin ToSet(hosts')
      /\ \A h \in ToSet(hosts') : h \in ToSet(hosts) /\ h # host
  BY <1>1, HostAt, Zenon
<1>3. /\ \A p \in Plots : PlotRight(p)
      /\ \A p, r \in Plots : p.image = r.image /\ p.image \in PropertyImages => p = r
  BY <1>1, PlotsRight
<1>4. /\ DOMAIN columns' = HostSet /\ \A g \in HostSet : g # host => columns'[g] = columns[g]
      /\ columns'[host] = Written \/ columns'[host] = HostFiles[host]
  <2>1. columns[host] = HostFiles[host] /\ DOMAIN columns = HostSet
    BY <1>2 DEF HPages, HTyped
  <2>2. columns' = [columns EXCEPT ![host] = Written] \/ columns' = columns
    BY DEF Report, TextDump, Written
  <2> QED
    BY <1>2, <2>1, <2>2
<1> DEFINE Drawing(drawn, shown) ==
        /\ DOMAIN assets' = HostImages
        /\ \A image \in HostImages : assets'[image] = assets[image] \/ DrawnRight(image)'
        /\ \A p \in drawn : DrawnRight(p.image)'
        /\ shown \subseteq Plots /\ \A p \in shown : p.image \in ScoreImages => p \in drawn
        /\ pages' = [pages EXCEPT ![host] = shown]
<1>5. PICK drawn, shown : Drawing(drawn, shown)
  <2>1. CASE UNCHANGED <<assets, pages>>
    <3>1. DOMAIN assets = HostImages /\ pages = [pages EXCEPT ![host] = {}]
      BY <1>2 DEF HTyped, HPages
    <3>2. DOMAIN assets' = HostImages /\ pages' = [pages EXCEPT ![host] = {}] /\ assets' = assets
      BY <2>1, <3>1
    <3>3. Drawing({}, {})
      BY <3>2, Zenon
    <3> HIDE DEF Drawing
    <3> QED
      BY <3>3
  <2>2. ASSUME NEW failed \in SUBSET Plots, NEW undrawn \in SUBSET failed, Draw(Plots \ undrawn),
               pages' = [pages EXCEPT ![host] = Plots \ {p \in failed : p.image \in ScoreImages}]
        PROVE  \E drawn, shown : Drawing(drawn, shown)
    <3> DEFINE drawn == Plots \ undrawn
               shown == Plots \ {p \in failed : p.image \in ScoreImages}
               cols(image) == {p.col : p \in {q \in drawn : q.image = image}}
    <3>1. /\ DOMAIN assets' = HostImages
          /\ \A image \in HostImages :
                assets'[image] = IF cols(image) = {} THEN assets[image] ELSE Curve(columns'[host], Max(cols(image)))
      BY <2>2 DEF Draw, HTyped
    <3>2. ASSUME NEW image \in HostImages, cols(image) # {} PROVE DrawnRight(image)'
      <4>1. \A c \in cols(image) : \E p \in Plots : c = p.col /\ p.image = image
        OBVIOUS
      <4>2. Len(Columns) \in Nat
        BY WrittenFile
      <4>3. cols(image) \in SUBSET (1 .. Len(Columns))
        BY <1>3, <4>1 DEF PlotRight
      <4>4. PICK T : T = cols(image)
        OBVIOUS
      <4>5. T \in SUBSET (1 .. Len(Columns)) /\ T # {} /\ \A c \in T : \E p \in Plots : c = p.col /\ p.image = image
        BY <3>2, <4>1, <4>3, <4>4
      <4>6. Max(T) \in T
        BY <4>2, <4>5, GreatestOf
      <4>7. PICK m : m = Max(T)
        OBVIOUS
      <4>8. PICK p \in Plots : m = p.col /\ p.image = image
        BY <4>5, <4>6, <4>7
      <4>9. m \in 1 .. Len(Columns) /\ Columns[m].name = image[1] /\ host \in Owners(image)
        BY <1>3, <4>8 DEF PlotRight
      <4>10. assets'[image] = Curve(columns'[host], m)
        BY <3>1, <3>2, <4>4, <4>7, Zenon
      <4>11. PICK data : data = columns'[host] /\ (data = Written \/ data = HostFiles[host])
        BY <1>4
      <4>12. \/ assets'[image] = [x |-> Column("times", host), y |-> Column(image[1], host)]
             \/ /\ columns'[host] = HostFiles[host]
                /\ assets'[image] = Blank \/ assets'[image].y \in ToSet(HostFiles[host])
        <5>1. assets'[image] = Curve(data, m) /\ columns'[host] = data
          BY <4>10, <4>11
        <5> QED
          BY <1>1, <4>9, <4>11, <5>1, CurveRight, Zenon
      <4> QED
        BY <1>2, <4>9, <4>12, NowDrawn, Zenon
    <3>3. \A image \in HostImages : assets'[image] = assets[image] \/ DrawnRight(image)'
      BY <3>1, <3>2
    <3>4. ASSUME NEW p \in drawn PROVE DrawnRight(p.image)'
      <4>1. p.image \in HostImages /\ p.col \in cols(p.image)
        BY <1>3, <3>4 DEF PlotRight
      <4> QED
        BY <3>2, <4>1
    <3>5. shown \subseteq Plots /\ \A p \in shown : p.image \in ScoreImages => p \in drawn
      BY <2>2
    <3>6. Drawing(drawn, shown)
      BY <2>2, <3>1, <3>3, <3>4, <3>5
    <3> HIDE DEF drawn, shown, Drawing
    <3> QED
      BY <3>6
  <2> HIDE DEF Drawing
  <2>3. \/ UNCHANGED <<assets, pages>>
        \/ \E failed \in SUBSET Plots : \E undrawn \in SUBSET failed :
              /\ Draw(Plots \ undrawn)
              /\ pages' = [pages EXCEPT ![host] = Plots \ {p \in failed : p.image \in ScoreImages}]
    BY DEF Report
  <2> QED
    BY <2>1, <2>2, <2>3
<1>6. HTyped'
  <2>1. \A p \in shown : p \in [image: HostImages, col: Nat]
    BY <1>3, <1>5 DEF PlotRight
  <2>2. pages' \in [HostSet -> HostPages]
    BY <1>2, <1>5, <2>1 DEF HTyped, HostPages
  <2> QED
    BY <1>1, <1>4, <1>5, <2>2, NextHostTyped
<1>7. HFound' /\ HGathered'
  BY <1>1 DEF HFound, HGathered
<1>8. HArrays'
  BY <1>1 DEF HArrays
<1>9. /\ \A image \in HostImages : assets'[image] = assets[image] \/ DrawnRight(image)'
      /\ \A p \in shown : /\ p \in Plots /\ PlotRight(p)
                          /\ p.image \in ScoreImages => DrawnRight(p.image)'
      /\ pages'[host] = shown /\ \A h \in HostSet : h # host => pages'[h] = pages[h]
  <2>1. pages \in [HostSet -> HostPages]
    BY DEF HTyped
  <2> QED
    BY <1>2, <1>3, <1>5, <2>1
<1> HIDE DEF Drawing
<1>10. \A h : \A i : h \in Owners(i) => h \in HostSet
  BY DEF Owners, HostSet
<1>11. ASSUME NEW image \in HostImages, DrawnRight(image) PROVE DrawnRight(image)'
  <2>1. CASE assets'[image] = assets[image]
    <3>1. PICK g \in Owners(image) : g \notin ToSet(hosts) /\ DrawnOf(g, image)
      BY <1>11 DEF DrawnRight
    <3>2. g \in HostSet /\ g # host /\ g \notin ToSet(hosts')
      BY <1>2, <1>10, <3>1
    <3>3. columns'[g] = columns[g]
      BY <1>4, <3>2
    <3>4. DrawnOf(g, image)'
      BY <2>1, <3>1, <3>3 DEF DrawnOf
    <3> QED
      BY <3>1, <3>2, <3>4 DEF DrawnRight, Owners
  <2> QED
    BY <1>9, <2>1
<1>12. HPages'
  <2>1. ASSUME NEW h \in HostSet, h # host PROVE PageRight(h)'
    <3>1. PageRight(h) /\ pages'[h] = pages[h] /\ \A p \in pages[h] : p.image \in HostImages
      BY <1>9, <2>1 DEF HPages, HTyped, HostPages
    <3>2. \A p \in pages'[h] : h \in Owners(p.image)' /\ (p.image \in ScoreImages => DrawnRight(p.image)')
      BY <1>11, <3>1 DEF PageRight, Owners
    <3> QED
      BY <3>1, <3>2 DEF PageRight
  <2>2. ASSUME NEW h \in HostSet, h = host PROVE PageRight(h)'
    <3>1. \A p \in shown : host \in Owners(p.image) /\ (p.image \in ScoreImages => DrawnRight(p.image)')
      BY <1>9 DEF PlotRight
    <3>2. \A p, r \in shown : p.image = r.image /\ p.image \in PropertyImages => p = r
      BY <1>3, <1>9
    <3>3. pages'[h] = shown /\ \A p \in shown : h \in Owners(p.image)'
      BY <1>9, <2>2, <3>1 DEF Owners
    <3> QED
      BY <3>1, <3>2, <3>3 DEF PageRight
  <2>3. ASSUME NEW h \in ToSet(hosts') PROVE pages'[h] = {} /\ columns'[h] = HostFiles[h]
    <3>1. h \in HostSet /\ h # host /\ pages[h] = {} /\ columns[h] = HostFiles[h]
      <4>1. \A g \in ToSet(hosts) : g \in HostSet
        BY <1>1, InSequence DEF HTyped
      <4> QED
        BY <1>2, <2>3, <4>1 DEF HPages
    <3> QED
      BY <1>4, <1>9, <3>1
  <2>4. ASSUME NEW image \in HostImages PROVE assets'[image] = Before(image) \/ DrawnRight(image)'
    BY <1>9, <1>11, <2>4 DEF HPages
  <2>5. \A h \in HostSet : PageRight(h)'
    <3> QED
      BY <2>1, <2>2
  <2> QED
    BY <2>3, <2>4, <2>5 DEF HPages, Before, Column
<1> QED
  BY <1>6, <1>7, <1>8, <1>12

LEMMA HostStays == HostInv /\ [Next]_vars => HostInv'
<1>1. ASSUME HostInv, UNCHANGED vars PROVE HostInv'
  <2> USE <1>1 DEF HostInv, vars
  <2>1. HTyped'
    BY DEF HTyped
  <2>2. HFound'
    BY DEF HFound, host, prop
  <2>3. HArrays'
    BY DEF HArrays
  <2>4. HGathered'
    BY DEF HGathered, host, ToCome, OfHost
  <2>5. HPages'
    BY PagesKept, Zenon
  <2> QED
    BY <2>1, <2>2, <2>3, <2>4, <2>5
<1> QED
  BY <1>1, HostStartKeeps, StartPropKeeps, ReadLineKeeps, NothingKeeps, FlatKeeps, FetchKeeps, ScoreKeeps,
     NotOddKeeps, EndKeeps, ReportKeeps, Zenon DEF Next, Step

LEMMA HostShows == HostInv => PlotsShowTheirColumns
<1> SUFFICES ASSUME HostInv, NEW h \in HostSet, NEW p \in pages[h]
             PROVE  \/ p.image \in PropertyImages /\ assets[p.image] = Before(p.image)
                    \/ \E g \in Owners(p.image) : DrawnOf(g, p.image)
  BY DEF PlotsShowTheirColumns, HostSet, DrawnOf
<1>1. /\ p.image \in HostImages /\ (p.image \in ScoreImages => DrawnRight(p.image))
      /\ assets[p.image] = Before(p.image) \/ DrawnRight(p.image)
  BY DEF HostInv, HTyped, HostPages, HPages, PageRight
<1> QED
  BY <1>1 DEF HostImages, DrawnRight

LEMMA HostOwns == HostInv => PagesAreOfTheirHost
<1> SUFFICES ASSUME HostInv PROVE PagesAreOfTheirHost
  OBVIOUS
<1>1. ASSUME NEW h \in HostSet, NEW p \in pages[h] PROVE h \in Owners(p.image)
  BY <1>1 DEF HostInv, HPages, PageRight
<1>2. ASSUME NEW h \in HostSet, NEW q \in PropSet
      PROVE  Cardinality({p \in pages[h] : p.image = ValuesOf(h, q)}) <= 1
  <2> DEFINE T == {p \in pages[h] : p.image = ValuesOf(h, q)}
  <2>1. ValuesOf(h, q) \in PropertyImages
    BY <1>2 DEF PropertyImages, HostSet, PropSet
  <2>2. \A p, r \in T : p = r
    BY <1>2, <2>1 DEF HostInv, HPages, PageRight
  <2>3. T = {} \/ \E p \in T : T = {p}
    BY <2>2
  <2>4. Cardinality(T) = 0 \/ Cardinality(T) = 1
    BY <2>3, FS_EmptySet, FS_Singleton
  <2> QED
    BY <2>4
<1> QED
  BY <1>1, <1>2, Zenon DEF PagesAreOfTheirHost, HostSet, PropSet

HIDE DEF files

----------------------------------------------------------------------------
(* anomaly_check.go *)
PInPair  == {"list", "dump", "create", "values", "ll", "scores"}
PWritten == {"create", "values", "ll", "scores"}

PTyped ==
    /\ pc \in {"pair", "short", "end"} \cup PInPair
    /\ pairs \in Seq(Property!PairSet) /\ IsInjective(pairs)
    /\ pc \in PInPair => pairs # <<>>
    /\ line \in Nat \ {0} /\ found \subseteq Property!Listed
    /\ names \in Seq(Property!Listed)
    /\ DOMAIN columns = Property!PairSet
    /\ DOMAIN assets = Property!Images
    /\ pages \in [Property!PairSet -> [images: Seq(Property!Images), whole: BOOLEAN]]

(* The profiles are of the pair, and each is there once. *)
PFound ==
    /\ pc \in PInPair => \A f \in found : Property!pair \in f.of
    /\ pc \in {"dump"} \cup PWritten =>
          /\ \A k \in 1 .. Len(names) : Property!pair \in names[k].of
          /\ \A j, k \in 1 .. Len(names) : names[j] = names[k] => j = k

(* The pairs whose file was written in this run, if it could be.           *)
Dumped(p) == p \notin ToSet(pairs) \/ (p = Property!pair /\ pc \in PWritten)

(* A file of this run has the columns by the numbers that the plots use.   *)
Shows(cols, p) ==
    /\ DOMAIN cols = 1 .. Len(names) + 3
    /\ cols[2] = Property!Column("ll", p, FALSE)
    /\ \A k \in 1 .. Len(names) : cols[k + 2] = Property!Column(names[k].name, p, FALSE)
    /\ cols[Len(names) + 3] = Property!Column("times", p, FALSE)

PFiles ==
    /\ \A p \in Property!PairSet : ~ Dumped(p) => columns[p] = OldFiles[p]
    /\ pc \in PWritten => columns[Property!pair] = OldFiles[Property!pair]
                          \/ Shows(columns[Property!pair], Property!pair)

(* What an image on a page shows. *)
DrawnFor(p, image) ==
    \/ assets[image] = [x |-> Property!Column("times", p, FALSE), y |-> Property!Column(image[1], p, FALSE)]
    \/ /\ columns[p] = OldFiles[p]
       /\ assets[image] = Property!Blank \/ assets[image].y \in ToSet(OldFiles[p])
Good(image) == \E p \in Property!Owners(image) : Dumped(p) /\ DrawnFor(p, image)

(* The images of a page: the values, the lead/lag analysis, the profiles.  *)
PageShape(q) ==
    LET shown == pages[q].images
    IN  /\ Len(shown) > 0 => shown[1] = Property!ValuesOf(q)
        /\ Len(shown) > 1 => shown[2] = Property!LeadLagOf(q)
        /\ \A k \in 3 .. Len(shown) : \E f \in Property!Listed : q \in f.of /\ shown[k] = Property!ScoreOf(f)
        /\ IsInjective(shown)
        /\ pages[q].whole => Len(shown) > 1
        /\ \A k \in 2 .. Len(shown) : Good(shown[k])

(* How far the page of the pair is. *)
PProgress ==
    LET shown == pages[Property!pair].images
    IN  /\ pc = "values" => shown = <<>>
        /\ pc = "ll" => Len(shown) = 1
        /\ pc = "scores" => /\ Len(shown) > 1
                            /\ \A k \in 3 .. Len(shown) : \E j \in 1 .. Len(names) :
                                  j < line /\ shown[k] = Property!ScoreOf(names[j])
        /\ pc \in {"values", "ll", "scores"} => ~ pages[Property!pair].whole

PairInv == PTyped /\ PFound /\ PFiles /\ PProgress /\ \A q \in Property!PairSet : PageShape(q)

(* The module of the pages has the operators on sequences of its own. *)
LEMMA SameOperators ==
    /\ \A s : Property!ToSet(s) = ToSet(s)
    /\ \A s : Property!IsInjective(s) <=> IsInjective(s)
    /\ \A s : Property!SetToSeqs(s) = SetToSeqs(s)
<1>1. \A s : Property!ToSet(s) = ToSet(s)
  BY DEF ToSet, Property!ToSet
<1>2. \A s : Property!IsInjective(s) <=> IsInjective(s)
  BY DEF IsInjective, Property!IsInjective
<1>3. \A s : Property!SetToSeqs(s) = SetToSeqs(s)
  <2>1. \A s : Property!Cardinality(s) = Cardinality(s)
    BY DEF Cardinality, Property!Cardinality
  <2> QED
    BY <2>1 DEF SetToSeqs, Property!SetToSeqs
<1> QED
  BY <1>1, <1>2, <1>3

LEMMA PairNumbers ==
    /\ PagePairs \in Seq(Property!PairSet) /\ IsInjective(PagePairs)
    /\ PageListing \in Seq(Property!Listed)
    /\ \A f \in Property!Listed : f.of \subseteq Property!PairSet
    /\ \A f, g \in Property!Listed : f.name = g.name => f = g
    /\ DOMAIN OldFiles = Property!PairSet
  BY ReportsConstants, SameOperators, Zenon DEF Property!PropertyConstants, Property!PairSet, Property!Listed

(* The names of images tell them apart. *)
LEMMA ImageNames ==
    /\ \A q, r : Property!ValuesOf(q) # Property!LeadLagOf(r)
    /\ \A q, f : Property!ValuesOf(q) # Property!ScoreOf(f) /\ Property!LeadLagOf(q) # Property!ScoreOf(f)
    /\ \A q, r : Property!ValuesOf(q) = Property!ValuesOf(r) => q = r
    /\ \A q, r : Property!LeadLagOf(q) = Property!LeadLagOf(r) => q = r
    /\ \A f, g : Property!ScoreOf(f) = Property!ScoreOf(g) => f.name = g.name
    /\ \A q : Property!LeadLagOf(q)[1] = "ll"
    /\ \A f : Property!ScoreOf(f)[1] = f.name
<1>1. \A q, r : <<"values", q>> # <<"ll", r>>
  OBVIOUS
<1>2. \A q, x : <<"values", q>> # <<x>> /\ <<"ll", q>> # <<x>>
  <2> SUFFICES ASSUME NEW q, NEW x PROVE <<"values", q>> # <<x>> /\ <<"ll", q>> # <<x>>
    OBVIOUS
  <2>1. Len(<<"values", q>>) = 2 /\ Len(<<"ll", q>>) = 2 /\ Len(<<x>>) = 1
    OBVIOUS
  <2> QED
    BY <2>1
<1>3. \A q, r : <<"values", q>> = <<"values", r>> => q = r
  OBVIOUS
<1>4. \A q, r : <<"ll", q>> = <<"ll", r>> => q = r
  OBVIOUS
<1>5. \A x, y : <<x>> = <<y>> => x = y
  OBVIOUS
<1>6. \A q : <<"ll", q>>[1] = "ll"
  OBVIOUS
<1>7. \A x : <<x>>[1] = x
  OBVIOUS
<1> QED
  BY <1>1, <1>2, <1>3, <1>4, <1>5, <1>6, <1>7 DEF Property!ValuesOf, Property!LeadLagOf, Property!ScoreOf

LEMMA PairAt ==
    ASSUME PTyped, pairs # <<>>
    PROVE  /\ Property!pair \in Property!PairSet /\ Property!pair \in ToSet(pairs)
           /\ Tail(pairs) \in Seq(Property!PairSet) /\ IsInjective(Tail(pairs))
           /\ Property!pair \notin ToSet(Tail(pairs))
           /\ \A p \in ToSet(Tail(pairs)) : p \in ToSet(pairs)
<1>1. pairs \in Seq(Property!PairSet) /\ IsInjective(pairs)
  BY DEF PTyped
<1> QED
  BY <1>1, TailOfDistinct, Zenon DEF Property!pair

LEMMA InitPairs == Property!Init => PairInv
<1> SUFFICES ASSUME Property!Init PROVE PairInv
  OBVIOUS
<1> USE DEF Property!Init
<1>1. PTyped
  <2>1. <<>> \in Seq(Property!Images) /\ <<>> \in Seq(Property!Listed)
    OBVIOUS
  <2> QED
    BY <2>1, PairNumbers DEF PTyped, PInPair
<1>2. PFound /\ PProgress
  BY DEF PFound, PProgress, PInPair, PWritten
<1>3. PFiles
  BY DEF PFiles, PWritten
<1>4. \A q \in Property!PairSet : PageShape(q)
  BY DEF PageShape, IsInjective
<1> QED
  BY <1>1, <1>2, <1>3, <1>4 DEF PairInv

(* A file that could be written stays so. *)
LEMMA DumpedMoves ==
    ASSUME PTyped, pairs' = pairs \/ (pairs # <<>> /\ pairs' = Tail(pairs)),
           pairs' = pairs /\ pc \in PWritten => pc' \in PWritten
    PROVE  \A p : Dumped(p) => Dumped(p)'
<1>1. CASE pairs' = pairs
  BY <1>1 DEF Dumped, Property!pair
<1>2. CASE pairs # <<>> /\ pairs' = Tail(pairs)
  <2>1. Property!pair \notin ToSet(Tail(pairs)) /\ \A p \in ToSet(Tail(pairs)) : p \in ToSet(pairs)
    BY <1>2, PairAt, Zenon
  <2> QED
    BY <1>2, <2>1, Zenon DEF Dumped
<1> QED
  BY <1>1, <1>2

LEMMA GoodKept ==
    ASSUME NEW image, Good(image), assets'[image] = assets[image],
           \A p \in Property!PairSet : Dumped(p) => Dumped(p)' /\ columns'[p] = columns[p]
    PROVE  Good(image)'
<1>1. PICK p \in Property!Owners(image) : Dumped(p) /\ DrawnFor(p, image)
  BY DEF Good
<1>2. p \in Property!PairSet
  BY PairNumbers DEF Property!Owners
<1>3. Dumped(p)' /\ DrawnFor(p, image)'
  BY <1>1, <1>2 DEF DrawnFor
<1> QED
  BY <1>1, <1>3 DEF Good

(* The pages stay right where no image of theirs is drawn.                 *)
LEMMA ShapeKept ==
    ASSUME NEW q \in Property!PairSet, PageShape(q), pages'[q] = pages[q],
           \A k \in 2 .. Len(pages[q].images) : Good(pages[q].images[k]) => Good(pages[q].images[k])'
    PROVE  PageShape(q)'
  BY DEF PageShape

LEMMA PagesStand ==
    ASSUME PairInv, pages' = pages, assets' = assets,
           \A p \in Property!PairSet : Dumped(p) => Dumped(p)' /\ columns'[p] = columns[p]
    PROVE  \A q \in Property!PairSet : PageShape(q)'
<1> SUFFICES ASSUME NEW q \in Property!PairSet PROVE PageShape(q)'
  OBVIOUS
<1>1. \A image : Good(image) => Good(image)'
  BY GoodKept
<1> QED
  BY <1>1, ShapeKept DEF PairInv

(* The pair is left, and no image of a page is drawn. *)
LEMMA LeavePair ==
    ASSUME PairInv, pairs # <<>>, Property!NextPair, UNCHANGED <<names, columns, assets, pages>>,
           line' \in Nat \ {0}, found' \subseteq Property!Listed
    PROVE  PairInv'
<1> USE DEF PairInv, Property!NextPair
<1>1. PTyped /\ pc' = "pair" /\ pairs' = Tail(pairs)
  OBVIOUS
<1>2. PTyped'
  <2>1. Tail(pairs) \in Seq(Property!PairSet) /\ IsInjective(Tail(pairs))
    BY <1>1, PairAt, Zenon
  <2> QED
    BY <1>1, <2>1 DEF PTyped, PInPair
<1>3. PFound' /\ PProgress'
  BY <1>1 DEF PFound, PProgress, PInPair, PWritten
<1>4. \A p : Dumped(p) => Dumped(p)'
  BY <1>1, DumpedMoves
<1>5. PFiles'
  BY <1>1, <1>4 DEF PFiles, PWritten
<1>6. \A q \in Property!PairSet : PageShape(q)'
  BY <1>4, PagesStand
<1> QED
  BY <1>2, <1>3, <1>5, <1>6

(* A step before the file is written. *)
LEMMA BeforeDump ==
    ASSUME PairInv, pairs' = pairs, pc \notin PWritten, pc' \notin PWritten, UNCHANGED <<columns, assets, pages>>,
           PTyped', PFound'
    PROVE  PairInv'
<1> USE DEF PairInv
<1>1. \A p : Dumped(p) <=> Dumped(p)'
  BY DEF Dumped
<1>2. PFiles'
  BY <1>1 DEF PFiles
<1>3. PProgress'
  BY DEF PProgress, PWritten
<1>4. \A q \in Property!PairSet : PageShape(q)'
  BY <1>1, PagesStand
<1> QED
  BY <1>2, <1>3, <1>4

LEMMA StartPairKeeps == PairInv /\ Property!StartPair => PairInv'
<1> SUFFICES ASSUME PairInv, Property!StartPair PROVE PairInv'
  OBVIOUS
<1>1. /\ pc = "pair" /\ pairs # <<>> /\ line' = 1 /\ found' = {} /\ UNCHANGED <<names, columns, assets, pages>>
      /\ \/ pc' = "list" /\ pairs' = pairs
         \/ Property!NextPair
  BY DEF Property!StartPair
<1>2. CASE Property!NextPair
  BY <1>1, <1>2, LeavePair
<1>3. CASE pc' = "list" /\ pairs' = pairs
  <2>1. PTyped'
    BY <1>1, <1>3 DEF PairInv, PTyped, PInPair
  <2>2. PFound'
    BY <1>1, <1>3 DEF PFound, PWritten
  <2> QED
    BY <1>1, <1>3, <2>1, <2>2, BeforeDump DEF PWritten
<1> QED
  BY <1>1, <1>2, <1>3

LEMMA ReadLineOfPair == PairInv /\ (Property!ReadLine \/ Property!RetryLine) => PairInv'
<1> SUFFICES ASSUME PairInv, Property!ReadLine \/ Property!RetryLine PROVE PairInv'
  OBVIOUS
<1>1. /\ pc = "list" /\ pc' = pc /\ line <= Len(PageListing) /\ UNCHANGED <<pairs, names, columns, assets, pages>>
      /\ \/ found' = found \cup {f \in {PageListing[line]} : Property!pair \in f.of} /\ line' = line + 1
         \/ found' = found /\ line' = line
  BY DEF Property!ReadLine, Property!RetryLine
<1>2. line \in Nat \ {0} /\ found \subseteq Property!Listed /\ PTyped /\ PFound
  BY DEF PairInv, PTyped
<1>3. PageListing[line] \in Property!Listed
  BY <1>1, <1>2, PairNumbers
<1>4. PTyped'
  BY <1>1, <1>2, <1>3 DEF PTyped, PInPair
<1>5. PFound'
  BY <1>1, <1>2 DEF PFound, Property!pair, PWritten
<1> QED
  BY <1>1, <1>4, <1>5, BeforeDump DEF PWritten

LEMMA SkipKeeps == PairInv /\ Property!Skip => PairInv'
<1> SUFFICES ASSUME PairInv, Property!Skip PROVE PairInv'
  OBVIOUS
<1>1. pairs # <<>> /\ line \in Nat \ {0} /\ found \subseteq Property!Listed
  BY DEF PairInv, PTyped, Property!Skip, Property!AllRead, PInPair
<1> QED
  BY <1>1, LeavePair DEF Property!Skip

(* The profiles that are scored, in an order, each of them once.           *)
LEMMA FoundNames ==
    ASSUME found \subseteq Property!Listed, NEW s \in SetToSeqs(found)
    PROVE  /\ s \in Seq(Property!Listed) /\ \A k \in 1 .. Len(s) : s[k] \in found
           /\ \A j, k \in 1 .. Len(s) : s[j] = s[k] => j = k
<1>1. IsFiniteSet(Property!Listed)
  <2> DEFINE n == Len(PageListing)
  <2>1. PageListing \in [1 .. n -> Property!Listed] /\ n \in Nat /\ DOMAIN PageListing = 1 .. n
    BY PairNumbers
  <2>2. \A f \in Property!Listed : \E i \in 1 .. n : PageListing[i] = f
    BY <2>1, Zenon DEF Property!Listed, Property!ToSet
  <2>3. ExistsSurjection(1 .. n, Property!Listed)
    BY <2>1, <2>2, Zenon DEF ExistsSurjection, Surjection
  <2> HIDE DEF n
  <2> QED
    BY <2>1, <2>3, FS_NatSurjection
<1>2. Cardinality(found) \in Nat
  BY <1>1, FS_Subset, FS_CardinalityType
<1>3. /\ s \in [1 .. Cardinality(found) -> found]
      /\ \A j, k \in 1 .. Cardinality(found) : j # k => s[j] # s[k]
  BY DEF SetToSeqs
<1>4. Len(s) = Cardinality(found) /\ s \in Seq(found)
  BY <1>2, <1>3
<1>5. s \in Seq(Property!Listed)
  BY <1>4, WiderSequence
<1> QED
  BY <1>3, <1>4, <1>5

LEMMA AnalyseKeeps == ASSUME NEW n \in Sizes PROVE PairInv /\ Property!Analyse(n) => PairInv'
<1> SUFFICES ASSUME PairInv, Property!Analyse(n) PROVE PairInv'
  OBVIOUS
<1>1. /\ pc = "list" /\ pc' \in {"dump", "short"} /\ names' \in SetToSeqs(found)
      /\ UNCHANGED <<pairs, line, found, columns, assets, pages>>
  BY SameOperators DEF Property!Analyse, Property!AllRead
<1>2. PTyped /\ found \subseteq Property!Listed /\ \A f \in found : Property!pair \in f.of
  BY <1>1 DEF PairInv, PTyped, PFound, PInPair
<1>3. /\ names' \in Seq(Property!Listed) /\ \A k \in 1 .. Len(names') : names'[k] \in found
      /\ \A j, k \in 1 .. Len(names') : names'[j] = names'[k] => j = k
  BY <1>1, <1>2, FoundNames
<1>4. PTyped'
  BY <1>1, <1>2, <1>3 DEF PTyped, PInPair
<1>5. PFound'
  BY <1>1, <1>2, <1>3 DEF PFound, Property!pair, PWritten
<1> QED
  BY <1>1, <1>4, <1>5, BeforeDump DEF PWritten

LEMMA EndOfPairs == PairInv /\ Property!End => PairInv'
<1> SUFFICES ASSUME PairInv, Property!End PROVE PairInv'
  OBVIOUS
<1>1. pc = "pair" /\ pc' = "end" /\ UNCHANGED <<pairs, line, found, names, columns, assets, pages>>
  BY DEF Property!End
<1>2. PTyped'
  BY <1>1 DEF PairInv, PTyped, PInPair
<1>3. PFound'
  BY <1>1 DEF PFound, PInPair, PWritten
<1> QED
  BY <1>1, <1>2, <1>3, BeforeDump DEF PWritten

(* The columns of the file that is written. *)
LEMMA DumpShows ==
    ASSUME PTyped, NEW p
    PROVE  Shows([k \in DOMAIN Property!DumpArr |-> Property!Column(Property!DumpArr[k], p, FALSE)]
                    \o <<Property!Column("times", p, FALSE)>>, p)
<1> DEFINE n    == Len(names)
           tail == [k \in DOMAIN names |-> names[k].name]
           T    == ToSet(tail) \cup {"values", "ll"}
           C    == {Property!Column(x, p, FALSE) : x \in T \cup {"times"}}
           cols == [k \in DOMAIN Property!DumpArr |-> Property!Column(Property!DumpArr[k], p, FALSE)]
           last == <<Property!Column("times", p, FALSE)>>
<1>1. n \in Nat /\ DOMAIN names = 1 .. n
  BY DEF PTyped
<1>2. tail \in Seq(T) /\ Len(tail) = n /\ \A k \in 1 .. n : tail[k] = names[k].name
  <2>1. DOMAIN tail = 1 .. n /\ \A k \in 1 .. n : tail[k] = names[k].name
    BY <1>1
  <2>2. \A k \in 1 .. n : tail[k] \in T
    BY <2>1, Zenon DEF ToSet
  <2>3. tail \in [1 .. n -> T]
    BY <2>1, <2>2
  <2> HIDE DEF tail, T
  <2> QED
    BY <1>1, <2>1, <2>3
<1>3. <<"values", "ll">> \in Seq(T) /\ Len(<<"values", "ll">>) = 2
  OBVIOUS
<1>4. Property!DumpArr = <<"values", "ll">> \o tail
  BY DEF Property!DumpArr
<1> HIDE DEF n, tail, T
<1>5. /\ Property!DumpArr \in Seq(T) /\ DOMAIN Property!DumpArr = 1 .. n + 2
      /\ Property!DumpArr[2] = "ll" /\ \A k \in 1 .. n : Property!DumpArr[k + 2] = tail[k]
  <2>1. PICK s : s = <<"values", "ll">>
    OBVIOUS
  <2>2. s \in Seq(T) /\ Len(s) = 2 /\ s[2] = "ll"
    BY <1>3, <2>1
  <2>3. /\ s \o tail \in Seq(T) /\ DOMAIN (s \o tail) = 1 .. 2 + n
        /\ \A k \in 1 .. 2 : (s \o tail)[k] = s[k]
        /\ \A k \in 1 .. n : (s \o tail)[k + 2] = tail[k]
    <3>1. tail \in Seq(T) /\ Len(tail) = n
      BY <1>2
    <3>2. PICK t \in Seq(T) : t = tail
      BY <3>1
    <3>3. PICK u \in Seq(T) : u = s
      BY <2>2
    <3>4. /\ u \o t \in Seq(T) /\ DOMAIN (u \o t) = 1 .. Len(u) + Len(t)
          /\ \A k \in 1 .. Len(u) : (u \o t)[k] = u[k]
          /\ \A k \in 1 .. Len(t) : (u \o t)[k + Len(u)] = t[k]
      BY JoinedPlaces
    <3> QED
      BY <2>2, <3>1, <3>2, <3>3, <3>4, Zenon
  <2>4. Property!DumpArr = s \o tail /\ 2 + n = n + 2 /\ 2 \in 1 .. 2
    BY <1>1, <1>4, <2>1
  <2> QED
    BY <2>2, <2>3, <2>4, Zenon
<1>6. /\ cols \in Seq(C) /\ Len(cols) = n + 2 /\ DOMAIN cols = 1 .. n + 2
      /\ \A k \in 1 .. n + 2 : cols[k] = Property!Column(Property!DumpArr[k], p, FALSE)
  <2>1. DOMAIN cols = 1 .. n + 2 /\ \A k \in 1 .. n + 2 : cols[k] = Property!Column(Property!DumpArr[k], p, FALSE)
    BY <1>5
  <2>2. \A k \in 1 .. n + 2 : Property!DumpArr[k] \in T
    BY <1>1, <1>5
  <2>3. \A k \in 1 .. n + 2 : cols[k] \in C
    BY <2>1, <2>2, Zenon
  <2>4. cols = [k \in 1 .. n + 2 |-> cols[k]] /\ n + 2 \in Nat
    BY <1>1, <2>1
  <2> HIDE DEF cols, C
  <2> QED
    BY <2>1, <2>3, <2>4, MadeSequence
<1>7. last \in Seq(C) /\ Len(last) = 1 /\ last[1] = Property!Column("times", p, FALSE)
  <2>1. Property!Column("times", p, FALSE) \in C
    OBVIOUS
  <2>2. PICK x : x = Property!Column("times", p, FALSE)
    OBVIOUS
  <2> HIDE DEF C
  <2>3. <<x>> \in Seq(C) /\ Len(<<x>>) = 1 /\ <<x>>[1] = x
    BY <2>1, <2>2, OneElement, Zenon
  <2>4. last = <<x>>
    BY <2>2
  <2> HIDE DEF last
  <2> QED
    BY <2>2, <2>3, <2>4, Zenon
<1> HIDE DEF cols, last, C
<1>8. /\ DOMAIN (cols \o last) = 1 .. n + 2 + 1
      /\ \A k \in 1 .. n + 2 : (cols \o last)[k] = cols[k]
      /\ (cols \o last)[1 + (n + 2)] = last[1]
  <2>1. PICK s \in Seq(C), t \in Seq(C) : s = cols /\ t = last
    BY <1>6, <1>7
  <2>2. s \in Seq(C) /\ t \in Seq(C) /\ Len(s) = n + 2 /\ Len(t) = 1
    BY <1>6, <1>7, <2>1
  <2>3. /\ DOMAIN (s \o t) = 1 .. Len(s) + Len(t)
        /\ \A k \in 1 .. Len(s) : (s \o t)[k] = s[k]
        /\ \A k \in 1 .. Len(t) : (s \o t)[k + Len(s)] = t[k]
    BY JoinedPlaces
  <2>4. /\ DOMAIN (s \o t) = 1 .. n + 2 + 1
        /\ \A k \in 1 .. n + 2 : (s \o t)[k] = s[k]
        /\ \A k \in 1 .. 1 : (s \o t)[k + (n + 2)] = t[k]
    BY <2>2, <2>3
  <2>5. (s \o t)[1 + (n + 2)] = t[1]
    <3>1. 1 \in 1 .. 1
      OBVIOUS
    <3> QED
      BY <3>1, <2>4, Zenon
  <2> QED
    BY <2>1, <2>4, <2>5, Zenon
<1>9. /\ n + 2 + 1 = n + 3 /\ 1 + (n + 2) = n + 3 /\ 2 \in 1 .. n + 2
      /\ \A k \in 1 .. n : k + 2 \in 1 .. n + 2
  BY <1>1
<1>10. ASSUME NEW k \in 1 .. n PROVE (cols \o last)[k + 2] = Property!Column(names[k].name, p, FALSE)
  <2>1. k + 2 \in 1 .. n + 2
    BY <1>9
  <2>2. (cols \o last)[k + 2] = Property!Column(Property!DumpArr[k + 2], p, FALSE)
    BY <2>1, <1>6, <1>8, Zenon
  <2>3. Property!DumpArr[k + 2] = names[k].name
    BY <1>2, <1>5, Zenon
  <2> QED
    BY <2>2, <2>3, Zenon
<1>11. (cols \o last)[2] = Property!Column("ll", p, FALSE)
  BY <1>5, <1>6, <1>8, <1>9, Zenon
<1>12. DOMAIN (cols \o last) = 1 .. n + 3 /\ (cols \o last)[n + 3] = Property!Column("times", p, FALSE)
  BY <1>7, <1>8, <1>9, Zenon
<1> QED
  BY <1>10, <1>11, <1>12, Zenon DEF Shows, n, cols, last

LEMMA DumpKeeps == PairInv /\ Property!Dump => PairInv'
<1> SUFFICES ASSUME PairInv, Property!Dump PROVE PairInv'
  OBVIOUS
<1> DEFINE cols == [k \in DOMAIN Property!DumpArr |-> Property!Column(Property!DumpArr[k], Property!pair, FALSE)]
                    \o <<Property!Column("times", Property!pair, FALSE)>>
<1>1. /\ pc = "dump" /\ pc' = "create" /\ UNCHANGED <<pairs, line, found, names, assets, pages>>
      /\ columns' = [columns EXCEPT ![Property!pair] = cols] \/ columns' = columns
  BY DEF Property!Dump
<1>2. PTyped /\ pairs # <<>> /\ DOMAIN columns = Property!PairSet
  BY <1>1 DEF PairInv, PTyped, PInPair
<1>3. Property!pair \in Property!PairSet /\ Property!pair \in ToSet(pairs)
  BY <1>2, PairAt, Zenon
<1>4. Shows(cols, Property!pair)
  BY <1>2, DumpShows
<1> HIDE DEF cols
<1>5. /\ DOMAIN columns' = Property!PairSet
      /\ \A p \in Property!PairSet : p # Property!pair => columns'[p] = columns[p]
      /\ columns'[Property!pair] = cols \/ columns'[Property!pair] = columns[Property!pair]
  BY <1>1, <1>2, <1>3
<1>6. /\ Property!pair' = Property!pair /\ ~ Dumped(Property!pair)
      /\ \A p : Dumped(p) => Dumped(p)' /\ p # Property!pair
      /\ \A p : ~ Dumped(p)' => ~ Dumped(p) /\ p # Property!pair
  BY <1>1, <1>3 DEF Dumped, Property!pair, PWritten
<1>7. PTyped'
  BY <1>1, <1>2, <1>5 DEF PTyped, PInPair
<1>8. PFound'
  BY <1>1, <1>6 DEF PairInv, PFound, PInPair, PWritten
<1>9. PFiles'
  <2>1. \A p \in Property!PairSet : ~ Dumped(p)' => columns'[p] = OldFiles[p]
    BY <1>5, <1>6 DEF PairInv, PFiles
  <2>2. columns[Property!pair] = OldFiles[Property!pair]
    BY <1>3, <1>6 DEF PairInv, PFiles
  <2>3. columns'[Property!pair] = OldFiles[Property!pair] \/ Shows(columns'[Property!pair], Property!pair)
    BY <1>4, <1>5, <2>2
  <2>4. names' = names /\ Property!pair' = Property!pair
    BY <1>1, <1>6
  <2> QED
    BY <2>1, <2>3, <2>4, Zenon DEF PFiles, Shows
<1>10. PProgress'
  BY <1>1 DEF PProgress
<1>11. \A q \in Property!PairSet : PageShape(q)'
  BY <1>1, <1>5, <1>6, PagesStand
<1> QED
  BY <1>7, <1>8, <1>9, <1>10, <1>11 DEF PairInv

(* A page is changed, or the pair is left with its page as it is.          *)
LEMMA OtherPages ==
    ASSUME PTyped, pairs # <<>>, NEW page \in [images: Seq(Property!Images), whole: BOOLEAN],
           pages' = [pages EXCEPT ![Property!pair] = page]
    PROVE  /\ pages' \in [Property!PairSet -> [images: Seq(Property!Images), whole: BOOLEAN]]
           /\ pages'[Property!pair] = page
           /\ \A q \in Property!PairSet : q # Property!pair => pages'[q] = pages[q]
<1>1. Property!pair \in Property!PairSet
  BY PairAt, Zenon
<1> QED
  BY <1>1 DEF PTyped

LEMMA CreateKeepsPairs == PairInv /\ Property!Create => PairInv'
<1> SUFFICES ASSUME PairInv, Property!Create PROVE PairInv'
  OBVIOUS
<1>1. /\ pc = "create" /\ UNCHANGED <<line, found, names, columns, assets>>
      /\ \/ /\ pages' = [pages EXCEPT ![Property!pair] = [images |-> <<>>, whole |-> FALSE]]
            /\ pc' = "values" /\ pairs' = pairs
         \/ Property!NextPair /\ pages' = pages
  BY DEF Property!Create
<1>2. PTyped /\ pairs # <<>> /\ line \in Nat \ {0} /\ found \subseteq Property!Listed
  BY <1>1 DEF PairInv, PTyped, PInPair
<1>3. CASE Property!NextPair /\ pages' = pages
  BY <1>1, <1>2, <1>3, LeavePair
<1>4. CASE /\ pages' = [pages EXCEPT ![Property!pair] = [images |-> <<>>, whole |-> FALSE]]
           /\ pc' = "values" /\ pairs' = pairs
  <2> DEFINE page == [images |-> <<>>, whole |-> FALSE]
  <2>1. page \in [images: Seq(Property!Images), whole: BOOLEAN] /\ page.images = <<>> /\ page.whole = FALSE
    OBVIOUS
  <2> HIDE DEF page
  <2>2. /\ pages' \in [Property!PairSet -> [images: Seq(Property!Images), whole: BOOLEAN]]
        /\ pages'[Property!pair] = page
        /\ \A q \in Property!PairSet : q # Property!pair => pages'[q] = pages[q]
    BY <1>2, <1>4, <2>1, OtherPages DEF page
  <2>3. Property!pair' = Property!pair /\ \A p : Dumped(p)' <=> Dumped(p)
    BY <1>1, <1>4 DEF Property!pair, Dumped, PWritten
  <2>4. PTyped'
    BY <1>1, <1>2, <1>4, <2>2 DEF PTyped, PInPair
  <2>5. PFound'
    BY <1>1, <1>4, <2>3 DEF PairInv, PFound, PInPair, PWritten
  <2>6. PFiles'
    BY <1>1, <1>4, <2>3 DEF PairInv, PFiles, PWritten, Shows
  <2>7. PProgress'
    BY <1>4, <2>1, <2>2, <2>3 DEF PProgress
  <2>8. \A image : Good(image) => Good(image)'
    BY <1>1, <2>3, GoodKept
  <2>9. ASSUME NEW q \in Property!PairSet PROVE PageShape(q)'
    <3>1. CASE q = Property!pair
      BY <2>1, <2>2, <3>1 DEF PageShape, IsInjective
    <3>2. CASE q # Property!pair
      BY <2>2, <2>8, <3>2, ShapeKept DEF PairInv
    <3> QED
      BY <3>1, <3>2
  <2> QED
    BY <2>4, <2>5, <2>6, <2>7, <2>9 DEF PairInv
<1> QED
  BY <1>1, <1>3, <1>4

(* What is drawn for the pair is of this run, or of the file of before.    *)
LEMMA PlotGood ==
    ASSUME PTyped, PFiles, pc \in PWritten, NEW image \in Property!Images, NEW col,
           NEW p, p = Property!pair, p \in Property!Owners(image),
           \/ col = 2 /\ image[1] = "ll"
           \/ \E k \in 1 .. Len(names) : col = k + 2 /\ image[1] = names[k].name,
           assets' = [assets EXCEPT ![image] = Property!Drawn(Property!TimesColumn, col)],
           columns' = columns, Dumped(p) => Dumped(p)'
    PROVE  Good(image)'
<1> DEFINE n == Len(names)
<1>1. assets'[image] = Property!Drawn(Property!TimesColumn, col)
  BY DEF PTyped
<1>2. n \in Nat /\ col \in 1 .. n + 3
  BY DEF PTyped
<1>3. Property!TimesColumn = n + 3
  <2>1. PICK a, b : a = <<"values", "ll">> /\ b = [k \in DOMAIN names |-> names[k].name]
    OBVIOUS
  <2> DEFINE T == ToSet(b) \cup {"values", "ll"}
  <2>2. DOMAIN names = 1 .. n
    BY DEF PTyped
  <2>3. b = [k \in 1 .. n |-> b[k]] /\ \A k \in 1 .. n : b[k] \in T
    BY <2>1, <2>2 DEF ToSet
  <2>4. a \in Seq(T) /\ Len(a) = 2
    BY <2>1
  <2> HIDE DEF T
  <2>5. b \in Seq(T) /\ Len(b) = n
    BY <1>2, <2>3, MadeSequence
  <2>6. Len(a \o b) = 2 + n
    <3>1. PICK s \in Seq(T), t \in Seq(T) : s = a /\ t = b
      BY <2>4, <2>5
    <3>2. Len(s \o t) = Len(s) + Len(t)
      BY JoinedPlaces
    <3> QED
      BY <3>1, <3>2, <2>4, <2>5, Zenon
  <2>7. Property!DumpArr = a \o b
    BY <2>1 DEF Property!DumpArr
  <2> QED
    BY <1>2, <2>6, <2>7 DEF Property!TimesColumn
<1>4. CASE columns[p] = OldFiles[p]
  <2>1. assets'[image] = Property!Blank \/ assets'[image].y \in ToSet(OldFiles[p])
    <3>1. CASE ~ ({n + 3, col} \subseteq DOMAIN columns[p])
      BY <1>1, <1>3, <3>1 DEF Property!Drawn
    <3>2. CASE {n + 3, col} \subseteq DOMAIN columns[p]
      <4>1. assets'[image] = [x |-> columns[p][n + 3], y |-> columns[p][col]]
        BY <1>1, <1>3, <3>2, Zenon DEF Property!Drawn
      <4>2. assets'[image].y = columns[p][col]
        BY <4>1
      <4>3. columns[p][col] \in ToSet(columns[p])
        BY <3>2, Zenon DEF ToSet
      <4> QED
        BY <1>4, <4>2, <4>3
    <3> QED
      BY <3>1, <3>2
  <2>2. columns'[p] = OldFiles[p]
    BY <1>4
  <2>3. Dumped(p) /\ Dumped(p)'
    BY DEF Dumped
  <2>4. DrawnFor(p, image)'
    BY <2>1, <2>2 DEF DrawnFor
  <2> QED
    BY <2>3, <2>4 DEF Good
<1>5. CASE Shows(columns[p], p)
  <2>1. DOMAIN columns[p] = 1 .. n + 3 /\ columns[p][n + 3] = Property!Column("times", p, FALSE)
    BY <1>5 DEF Shows
  <2>2. columns[p][col] = Property!Column(image[1], p, FALSE)
    BY <1>5 DEF Shows
  <2>3. {n + 3, col} \subseteq DOMAIN columns[p]
    BY <1>2, <2>1
  <2>4. assets'[image] = [x |-> columns[p][n + 3], y |-> columns[p][col]]
    BY <1>1, <1>3, <2>3, Zenon DEF Property!Drawn
  <2>5. assets'[image] = [x |-> Property!Column("times", p, FALSE), y |-> Property!Column(image[1], p, FALSE)]
    BY <2>1, <2>2, <2>4, Zenon
  <2>6. Dumped(p) /\ Dumped(p)'
    BY DEF Dumped
  <2> QED
    BY <2>5, <2>6, Zenon DEF Good, DrawnFor
<1> QED
  BY <1>4, <1>5 DEF PFiles

(* Drawing an image of the pair keeps every image on the pages right.      *)
LEMMA PlotKeeps ==
    ASSUME PTyped, PFiles, pc \in PWritten, NEW image \in Property!Images, NEW col,
           NEW p, p = Property!pair, p \in Property!Owners(image),
           \/ col = 2 /\ image[1] = "ll"
           \/ \E k \in 1 .. Len(names) : col = k + 2 /\ image[1] = names[k].name,
           assets' = assets \/ assets' = [assets EXCEPT ![image] = Property!Drawn(Property!TimesColumn, col)],
           columns' = columns, \A q : Dumped(q) => Dumped(q)'
    PROVE  \A other : Good(other) => Good(other)'
<1> SUFFICES ASSUME NEW other, Good(other) PROVE Good(other)'
  OBVIOUS
<1>1. CASE assets'[other] = assets[other]
  BY <1>1, GoodKept
<1>2. CASE assets'[other] # assets[other]
  <2>1. other = image /\ assets' = [assets EXCEPT ![image] = Property!Drawn(Property!TimesColumn, col)]
    <3>1. assets' = [assets EXCEPT ![image] = Property!Drawn(Property!TimesColumn, col)]
      BY <1>2
    <3>2. other \in Property!Images
      BY <1>2, <3>1
    <3> QED
      BY <1>2, <3>1, <3>2
  <2> QED
    BY <2>1, PlotGood
<1> QED
  BY <1>1, <1>2

(* The image of the values is looked at by no one.                         *)
LEMMA PlotOfValues ==
    ASSUME PTyped, NEW image, NEW val,
           assets' = assets \/ assets' = [assets EXCEPT ![image] = val],
           columns' = columns, \A q : Dumped(q) => Dumped(q)'
    PROVE  \A other : Good(other) /\ other # image => Good(other)'
<1> SUFFICES ASSUME NEW other, Good(other), other # image PROVE Good(other)'
  OBVIOUS
<1>1. assets'[other] = assets[other]
  <2>1. CASE assets' = assets
    BY <2>1
  <2>2. CASE assets' = [assets EXCEPT ![image] = val]
    BY <2>2
  <2> QED
    BY <2>1, <2>2
<1> QED
  BY <1>1, GoodKept

LEMMA ShownPage ==
    ASSUME PTyped, pairs # <<>>, NEW image \in Property!Images,
           pages' = [pages EXCEPT ![Property!pair].images = Append(@, image)]
    PROVE  /\ pages' \in [Property!PairSet -> [images: Seq(Property!Images), whole: BOOLEAN]]
           /\ pages'[Property!pair].images = Append(pages[Property!pair].images, image)
           /\ pages'[Property!pair].whole = pages[Property!pair].whole
           /\ \A q \in Property!PairSet : q # Property!pair => pages'[q] = pages[q]
<1> DEFINE old  == pages[Property!pair]
           page == [images |-> Append(old.images, image), whole |-> old.whole]
<1>1. Property!pair \in Property!PairSet
  BY PairAt, Zenon
<1>2. pages \in [Property!PairSet -> [images: Seq(Property!Images), whole: BOOLEAN]]
      /\ old \in [images: Seq(Property!Images), whole: BOOLEAN]
  BY <1>1 DEF PTyped
<1>3. old = [images |-> old.images, whole |-> old.whole]
      /\ old.images \in Seq(Property!Images) /\ old.whole \in BOOLEAN
  BY <1>2
<1>4. Append(old.images, image) \in Seq(Property!Images)
  BY <1>3, AppendedPlaces
<1>5. page \in [images: Seq(Property!Images), whole: BOOLEAN]
  BY <1>3, <1>4
<1>6. pages' = [pages EXCEPT ![Property!pair] = [old EXCEPT !.images = Append(old.images, image)]]
  OBVIOUS
<1>7. [old EXCEPT !.images = Append(old.images, image)] = page
  <2>1. PICK im, wh, new : im = old.images /\ wh = old.whole /\ new = Append(old.images, image)
    OBVIOUS
  <2>2. [[images |-> im, whole |-> wh] EXCEPT !.images = new] = [images |-> new, whole |-> wh]
    OBVIOUS
  <2> QED
    BY <1>3, <2>1, <2>2, Zenon
<1>8. pages' = [pages EXCEPT ![Property!pair] = page]
  BY <1>6, <1>7, Zenon
<1>9. page.images = Append(old.images, image) /\ page.whole = old.whole
  OBVIOUS
<1> HIDE DEF page
<1> QED
  BY <1>5, <1>8, <1>9, OtherPages

LEMMA NotValues ==
    ASSUME NEW q \in Property!PairSet, PTyped, PageShape(q), NEW k \in 2 .. Len(pages[q].images), NEW r
    PROVE  pages[q].images[k] # Property!ValuesOf(r)
<1>1. Len(pages[q].images) \in Nat
  BY DEF PTyped
<1>2. CASE k = 2
  BY <1>1, <1>2, ImageNames DEF PageShape
<1>3. CASE k \in 3 .. Len(pages[q].images)
  BY <1>3, ImageNames DEF PageShape
<1> QED
  BY <1>1, <1>2, <1>3

LEMMA PlotValuesKeeps == PairInv /\ Property!PlotValues => PairInv'
<1> SUFFICES ASSUME PairInv, Property!PlotValues PROVE PairInv'
  OBVIOUS
<1> DEFINE p == Property!pair
<1>1. PICK image : image = Property!ValuesOf(p)
  OBVIOUS
<1>2. /\ pc = "values" /\ pc' = "ll" /\ UNCHANGED <<pairs, line, found, names, columns>>
      /\ pages' = [pages EXCEPT ![p].images = Append(@, image)]
      /\ assets' = assets \/ assets' = [assets EXCEPT ![image] = Property!Drawn(Property!TimesColumn, 1)]
  BY <1>1 DEF Property!PlotValues, Property!Plot2, Property!Shown
<1>3. PTyped /\ pairs # <<>> /\ p \in Property!PairSet
  <2>1. PTyped /\ pairs # <<>>
    BY <1>2 DEF PairInv, PTyped, PInPair
  <2> QED
    BY <2>1, PairAt, Zenon
<1>4. image \in Property!Images
  BY <1>1, <1>3, Zenon DEF Property!Images
<1>5. /\ pages' \in [Property!PairSet -> [images: Seq(Property!Images), whole: BOOLEAN]]
      /\ pages'[p].images = Append(pages[p].images, image)
      /\ pages'[p].whole = pages[p].whole
      /\ \A q \in Property!PairSet : q # p => pages'[q] = pages[q]
  BY <1>2, <1>3, <1>4, ShownPage
<1>6. pages[p].images = <<>> /\ ~ pages[p].whole
  BY <1>2 DEF PairInv, PProgress
<1>7. Property!pair' = Property!pair /\ \A q : Dumped(q)' <=> Dumped(q)
  BY <1>2 DEF Property!pair, Dumped, PWritten
<1>8. \A other : Good(other) /\ other # image => Good(other)'
  BY <1>2, <1>3, <1>7, PlotOfValues
<1>9. pages'[p].images = <<image>> /\ Len(pages'[p].images) = 1 /\ pages'[p].images[1] = image
  <2>1. Append(<<>>, image) = <<image>> /\ Len(<<image>>) = 1 /\ <<image>>[1] = image
    OBVIOUS
  <2> QED
    BY <1>5, <1>6, <2>1
<1>10. PTyped'
  <2>1. DOMAIN assets' = Property!Images
    BY <1>2, <1>3 DEF PTyped
  <2> QED
    BY <1>2, <1>3, <1>5, <2>1 DEF PTyped, PInPair
<1>11. PFound'
  BY <1>2, <1>7 DEF PairInv, PFound, PInPair, PWritten
<1>12. PFiles'
  BY <1>2, <1>7 DEF PairInv, PFiles, PWritten, Shows
<1>13. PProgress'
  BY <1>2, <1>5, <1>6, <1>7, <1>9 DEF PProgress
<1>14. ASSUME NEW q \in Property!PairSet PROVE PageShape(q)'
  <2>1. CASE q = p
    <3>1. pages'[q].images = <<image>> /\ Len(pages'[q].images) = 1 /\ image = Property!ValuesOf(q) /\ ~ pages'[q].whole
      BY <1>1, <1>5, <1>6, <1>9, <2>1
    <3>2. IsInjective(<<image>>)
      BY DEF IsInjective
    <3> QED
      BY <1>9, <3>1, <3>2, <2>1 DEF PageShape
  <2>2. CASE q # p
    <3>1. \A k \in 2 .. Len(pages[q].images) : pages[q].images[k] # image
      BY <1>1, <1>3, NotValues DEF PairInv
    <3>2. pages'[q] = pages[q]
      BY <1>5, <2>2
    <3> QED
      BY <1>8, <3>1, <3>2, ShapeKept DEF PairInv
  <2> QED
    BY <2>1, <2>2
<1> QED
  BY <1>10, <1>11, <1>12, <1>13, <1>14 DEF PairInv

(* The pair is left with its page as it is, but an image may be drawn.     *)
LEMMA LeaveDrawn ==
    ASSUME PairInv, pairs # <<>>, Property!NextPair, UNCHANGED <<line, found, names, columns>>,
           pages' \in [Property!PairSet -> [images: Seq(Property!Images), whole: BOOLEAN]],
           DOMAIN assets' = Property!Images, \A q \in Property!PairSet : PageShape(q)'
    PROVE  PairInv'
<1> USE DEF PairInv, Property!NextPair
<1>1. PTyped /\ pc' = "pair" /\ pairs' = Tail(pairs)
  OBVIOUS
<1>2. PTyped'
  <2>1. Tail(pairs) \in Seq(Property!PairSet) /\ IsInjective(Tail(pairs))
    BY <1>1, PairAt, Zenon
  <2> QED
    BY <1>1, <2>1 DEF PTyped, PInPair
<1>3. PFound' /\ PProgress'
  BY <1>1 DEF PFound, PProgress, PInPair, PWritten
<1>4. \A p : Dumped(p) => Dumped(p)'
  BY <1>1, DumpedMoves
<1>5. PFiles'
  BY <1>1, <1>4 DEF PFiles, PWritten
<1> QED
  BY <1>2, <1>3, <1>5

LEMMA TrailerKeeps == PairInv /\ Property!Trailer => PairInv'
<1> SUFFICES ASSUME PairInv, Property!Trailer PROVE PairInv'
  OBVIOUS
<1> DEFINE p == Property!pair
<1>1. /\ pc = "scores" /\ Property!NextPair /\ UNCHANGED <<line, found, names, columns, assets>>
      /\ pages' = [pages EXCEPT ![p].whole = TRUE]
  BY DEF Property!Trailer
<1>2. PTyped /\ pairs # <<>> /\ p \in Property!PairSet
  <2>1. PTyped /\ pairs # <<>>
    BY <1>1 DEF PairInv, PTyped, PInPair
  <2> QED
    BY <2>1, PairAt, Zenon
<1>3. /\ pages' \in [Property!PairSet -> [images: Seq(Property!Images), whole: BOOLEAN]]
      /\ pages'[p].images = pages[p].images
      /\ \A q \in Property!PairSet : q # p => pages'[q] = pages[q]
  <2>1. pages \in [Property!PairSet -> [images: Seq(Property!Images), whole: BOOLEAN]]
        /\ pages[p] \in [images: Seq(Property!Images), whole: BOOLEAN]
    BY <1>2 DEF PTyped
  <2>2. [pages[p] EXCEPT !.whole = TRUE] \in [images: Seq(Property!Images), whole: BOOLEAN]
        /\ [pages[p] EXCEPT !.whole = TRUE].images = pages[p].images
    BY <2>1
  <2> QED
    BY <1>1, <1>2, <2>1, <2>2
<1>4. Len(pages[p].images) > 1
  BY <1>1 DEF PairInv, PProgress
<1>5. \A q : Dumped(q) => Dumped(q)'
  BY <1>1, <1>2, DumpedMoves DEF Property!NextPair, PInPair
<1>6. \A image : Good(image) => Good(image)'
  BY <1>1, <1>5, GoodKept
<1>7. ASSUME NEW q \in Property!PairSet PROVE PageShape(q)'
  <2>1. PageShape(q) /\ pages'[q].images = pages[q].images
    BY <1>3 DEF PairInv
  <2>2. pages'[q].whole => Len(pages[q].images) > 1
    BY <1>3, <1>4, <2>1 DEF PageShape
  <2> QED
    BY <1>6, <2>1, <2>2 DEF PageShape
<1> QED
  BY <1>1, <1>2, <1>3, <1>7, LeaveDrawn DEF PTyped

LEMMA PlotLeadLagKeeps == PairInv /\ Property!PlotLeadLag => PairInv'
<1> SUFFICES ASSUME PairInv, Property!PlotLeadLag PROVE PairInv'
  OBVIOUS
<1>1. PICK p, image : p = Property!pair /\ image = Property!LeadLagOf(p)
  OBVIOUS
<1>2. /\ pc = "ll" /\ UNCHANGED <<found, names, columns>>
      /\ \/ /\ assets' = [assets EXCEPT ![image] = Property!Drawn(Property!TimesColumn, 2)]
            /\ pages' = [pages EXCEPT ![Property!pair].images = Append(@, image)]
            /\ pc' = "scores" /\ line' = 1 /\ pairs' = pairs
         \/ /\ assets' = assets \/ assets' = [assets EXCEPT ![image] = Property!Drawn(Property!TimesColumn, 2)]
            /\ Property!NextPair /\ line' = line /\ pages' = pages
  BY <1>1 DEF Property!PlotLeadLag, Property!Plot2, Property!Shown
<1>3. PTyped /\ PFiles /\ pairs # <<>> /\ p \in Property!PairSet /\ pc \in PWritten
  <2>1. PTyped /\ PFiles /\ pairs # <<>> /\ pc \in PWritten
    BY <1>2 DEF PairInv, PTyped, PInPair, PWritten
  <2> QED
    BY <1>1, <2>1, PairAt, Zenon
<1>4. image \in Property!Images /\ p \in Property!Owners(image) /\ image[1] = "ll"
  <2>1. image \in Property!Images
    BY <1>1, <1>3, Zenon DEF Property!Images
  <2>2. p \in Property!Owners(image)
    BY <1>1, <1>3 DEF Property!Owners
  <2>3. image[1] = "ll"
    BY <1>1, ImageNames, Zenon
  <2> QED
    BY <2>1, <2>2, <2>3
<1>5. \A q : Dumped(q) => Dumped(q)'
  BY <1>2, <1>3, DumpedMoves DEF PWritten, Property!NextPair
<1>6. \A other : Good(other) => Good(other)'
  BY <1>1, <1>2, <1>3, <1>4, <1>5, PlotKeeps
<1>7. DOMAIN assets' = Property!Images
  BY <1>2, <1>3 DEF PTyped
<1>8. CASE Property!NextPair /\ line' = line /\ pages' = pages
  <2>1. \A q \in Property!PairSet : PageShape(q)'
    BY <1>6, <1>8, ShapeKept DEF PairInv
  <2> QED
    BY <1>2, <1>3, <1>7, <1>8, <2>1, LeaveDrawn DEF PTyped
<1>9. CASE /\ assets' = [assets EXCEPT ![image] = Property!Drawn(Property!TimesColumn, 2)]
           /\ pages' = [pages EXCEPT ![Property!pair].images = Append(@, image)]
           /\ pc' = "scores" /\ line' = 1 /\ pairs' = pairs
  <2>1. /\ pages' \in [Property!PairSet -> [images: Seq(Property!Images), whole: BOOLEAN]]
        /\ pages'[p].images = Append(pages[p].images, image)
        /\ pages'[p].whole = pages[p].whole
        /\ \A q \in Property!PairSet : q # p => pages'[q] = pages[q]
    BY <1>1, <1>3, <1>4, <1>9, ShownPage
  <2>2. /\ Len(pages[p].images) = 1 /\ ~ pages[p].whole /\ pages[p].images \in Seq(Property!Images)
        /\ pages[p].images[1] = Property!ValuesOf(p)
    <3>1. Len(pages[p].images) = 1 /\ ~ pages[p].whole
      BY <1>1, <1>2 DEF PairInv, PProgress
    <3>2. PageShape(p) /\ pages[p].images \in Seq(Property!Images)
      BY <1>3 DEF PairInv, PTyped
    <3> QED
      BY <3>1, <3>2 DEF PageShape
  <2>3. /\ Len(pages'[p].images) = 2 /\ DOMAIN pages'[p].images = 1 .. 2
        /\ pages'[p].images[1] = Property!ValuesOf(p) /\ pages'[p].images[2] = image
    <3>1. PICK s \in Seq(Property!Images), x \in Property!Images : s = pages[p].images /\ x = image
      BY <1>4, <2>2
    <3>2. /\ Len(Append(s, x)) = 2 /\ DOMAIN Append(s, x) = 1 .. 2
          /\ Append(s, x)[1] = s[1] /\ Append(s, x)[2] = x
      <4>1. Len(s) = 1
        BY <2>2, <3>1
      <4>2. /\ Len(Append(s, x)) = Len(s) + 1 /\ DOMAIN Append(s, x) = 1 .. Len(s) + 1
            /\ \A k \in 1 .. Len(s) : Append(s, x)[k] = s[k]
            /\ Append(s, x)[Len(s) + 1] = x
        BY AppendedPlaces
      <4>3. Len(s) + 1 = 2 /\ 1 \in 1 .. Len(s)
        BY <4>1
      <4> QED
        BY <4>2, <4>3, Zenon
    <3> QED
      BY <2>1, <2>2, <3>1, <3>2
  <2>4. Property!pair' = p
    BY <1>1, <1>9 DEF Property!pair
  <2>5. PTyped'
    BY <1>2, <1>3, <1>7, <1>9, <2>1 DEF PTyped, PInPair
  <2>6. PFound'
    BY <1>1, <1>2, <1>9, <2>4 DEF PairInv, PFound, PInPair, PWritten
  <2>7. PFiles'
    <3>1. \A q : Dumped(q)' <=> Dumped(q)
      BY <1>1, <1>2, <1>9, <2>4 DEF Dumped, PWritten
    <3> QED
      BY <1>1, <1>2, <1>9, <2>4, <3>1 DEF PairInv, PFiles, PWritten, Shows
  <2>8. PProgress'
    BY <1>9, <2>1, <2>2, <2>3, <2>4 DEF PProgress
  <2>9. ASSUME NEW q \in Property!PairSet PROVE PageShape(q)'
    <3>1. CASE q = p
      <4>1. Good(image)'
        BY <1>1, <1>2, <1>3, <1>4, <1>5, <1>9, PlotGood
      <4>2. IsInjective(pages'[p].images)
        BY <1>1, <2>3, ImageNames DEF IsInjective
      <4>3. \A k \in 2 .. Len(pages'[p].images) : pages'[p].images[k] = image
        BY <2>3
      <4>4. \A k \in 3 .. Len(pages'[p].images) : FALSE
        BY <2>3
      <4> QED
        BY <1>1, <2>3, <3>1, <4>1, <4>2, <4>3, <4>4 DEF PageShape
    <3>2. CASE q # p
      BY <1>6, <2>1, <3>2, ShapeKept DEF PairInv
    <3> QED
      BY <3>1, <3>2
  <2> QED
    BY <2>5, <2>6, <2>7, <2>8, <2>9 DEF PairInv
<1> QED
  BY <1>2, <1>8, <1>9

LEMMA PlotScoreKeeps == PairInv /\ Property!PlotScore => PairInv'
<1> SUFFICES ASSUME PairInv, Property!PlotScore PROVE PairInv'
  OBVIOUS
<1>1. PICK p, f, image : p = Property!pair /\ f = names[line] /\ image = Property!ScoreOf(f)
  OBVIOUS
<1>2. /\ pc = "scores" /\ pc' = pc /\ line <= Len(names) /\ line' = line + 1
      /\ UNCHANGED <<pairs, found, names, columns>>
      /\ \/ /\ assets' = [assets EXCEPT ![image] = Property!Drawn(Property!TimesColumn, line + 2)]
            /\ pages' = [pages EXCEPT ![Property!pair].images = Append(@, image)]
         \/ /\ assets' = assets \/ assets' = [assets EXCEPT ![image] = Property!Drawn(Property!TimesColumn, line + 2)]
            /\ pages' = pages
  BY <1>1 DEF Property!PlotScore, Property!Plot2, Property!Shown, Property!ScoreColumn
<1>3. PTyped /\ PFiles /\ pairs # <<>> /\ p \in Property!PairSet /\ pc \in PWritten
  <2>1. PTyped /\ PFiles /\ pairs # <<>> /\ pc \in PWritten
    BY <1>2 DEF PairInv, PTyped, PInPair, PWritten
  <2> QED
    BY <1>1, <2>1, PairAt, Zenon
<1>4. /\ line \in 1 .. Len(names) /\ f \in Property!Listed /\ p \in f.of
      /\ \A k \in 1 .. Len(names) : names[k] \in Property!Listed
  <2>1. line \in 1 .. Len(names) /\ names \in Seq(Property!Listed)
    BY <1>2, <1>3 DEF PTyped
  <2>2. \A k \in 1 .. Len(names) : Property!pair \in names[k].of
    BY <1>2 DEF PairInv, PFound, PWritten
  <2> QED
    BY <1>1, <2>1, <2>2
<1>5. image \in Property!Images /\ p \in Property!Owners(image) /\ image[1] = f.name
  <2>1. image \in Property!Images
    BY <1>1, <1>4, Zenon DEF Property!Images
  <2>2. p \in Property!Owners(image)
    BY <1>1, <1>4 DEF Property!Owners
  <2>3. image[1] = f.name
    BY <1>1, ImageNames, Zenon
  <2> QED
    BY <2>1, <2>2, <2>3
<1>6. \A q : Dumped(q)' <=> Dumped(q)
  BY <1>2 DEF Dumped, PWritten, Property!pair
<1>7. \E k \in 1 .. Len(names) : line + 2 = k + 2 /\ image[1] = names[k].name
  BY <1>1, <1>4, <1>5
<1>8. \A other : Good(other) => Good(other)'
  <2>1. PICK col : col = line + 2
    OBVIOUS
  <2> QED
    BY <1>1, <1>2, <1>3, <1>5, <1>6, <1>7, <2>1, PlotKeeps
<1>9. DOMAIN assets' = Property!Images
  BY <1>2, <1>3 DEF PTyped
<1>10. Property!pair' = p
  BY <1>1, <1>2 DEF Property!pair
<1>11. PFound'
  BY <1>1, <1>2, <1>10 DEF PairInv, PFound, PInPair, PWritten
<1>12. PFiles'
  BY <1>1, <1>2, <1>6, <1>10 DEF PairInv, PFiles, PWritten, Shows
<1>13. line \in Nat \ {0} /\ line' \in Nat \ {0} /\ \A j : j < line /\ j \in Nat => j < line'
  BY <1>2, <1>3 DEF PTyped
<1>14. /\ Len(pages[p].images) > 1 /\ ~ pages[p].whole /\ pages[p].images \in Seq(Property!Images)
       /\ \A k \in 3 .. Len(pages[p].images) : \E j \in 1 .. Len(names) :
             j < line /\ pages[p].images[k] = Property!ScoreOf(names[j])
       /\ PageShape(p)
  BY <1>1, <1>2, <1>3 DEF PairInv, PProgress, PTyped
<1>15. CASE pages' = pages
  <2>1. PTyped'
    BY <1>2, <1>3, <1>9, <1>13, <1>15 DEF PTyped, PInPair
  <2>2. PProgress'
    BY <1>2, <1>10, <1>13, <1>14, <1>15 DEF PProgress
  <2>3. \A q \in Property!PairSet : PageShape(q)'
    BY <1>8, <1>15, ShapeKept DEF PairInv
  <2> QED
    BY <1>11, <1>12, <2>1, <2>2, <2>3 DEF PairInv
<1>16. CASE /\ assets' = [assets EXCEPT ![image] = Property!Drawn(Property!TimesColumn, line + 2)]
            /\ pages' = [pages EXCEPT ![Property!pair].images = Append(@, image)]
  <2> DEFINE shown == pages[p].images
             n     == Len(shown)
  <2>1. /\ pages' \in [Property!PairSet -> [images: Seq(Property!Images), whole: BOOLEAN]]
        /\ pages'[p].images = Append(shown, image)
        /\ pages'[p].whole = pages[p].whole
        /\ \A q \in Property!PairSet : q # p => pages'[q] = pages[q]
    BY <1>1, <1>3, <1>5, <1>16, ShownPage
  <2>2. image \notin ToSet(shown)
    <3>1. ASSUME NEW k \in 1 .. n PROVE shown[k] # image
      <4>1. CASE k = 1
        BY <1>1, <1>14, <4>1, ImageNames DEF PageShape
      <4>2. CASE k = 2
        <5>1. shown[2] = Property!LeadLagOf(p)
          BY <1>14 DEF PageShape
        <5>2. image = Property!ScoreOf(f)
          BY <1>1
        <5> QED
          BY <4>2, <5>1, <5>2, ImageNames, Zenon
      <4>3. CASE k \in 3 .. n
        <5>1. PICK j \in 1 .. Len(names) : j < line /\ shown[k] = Property!ScoreOf(names[j])
          BY <1>14, <4>3
        <5>2. ASSUME shown[k] = image PROVE FALSE
          <6>1. names[j].name = f.name
            <7>1. Property!ScoreOf(names[j]) = Property!ScoreOf(f)
              BY <1>1, <5>1, <5>2
            <7> QED
              BY <7>1, ImageNames, Zenon
          <6>2. names[j] = names[line]
            BY <1>1, <1>4, <6>1, PairNumbers
          <6>3. j = line
            BY <1>2, <1>4, <6>2 DEF PairInv, PFound, PWritten
          <6> QED
            BY <1>13, <5>1, <6>3
        <5> QED
          BY <5>2
      <4> QED
        BY <1>14, <4>1, <4>2, <4>3
    <3>2. DOMAIN shown = 1 .. n
      BY <1>14
    <3> QED
      BY <3>1, <3>2 DEF ToSet
  <2>3. /\ IsInjective(Append(shown, image)) /\ Len(Append(shown, image)) = n + 1 /\ n \in Nat
        /\ \A k \in 1 .. n : Append(shown, image)[k] = shown[k]
        /\ Append(shown, image)[n + 1] = image
    <3>1. IsInjective(shown)
      BY <1>14 DEF PageShape
    <3>2. PICK s \in Seq(Property!Images), x \in Property!Images : s = shown /\ x = image
      BY <1>5, <1>14
    <3>3. IsInjective(s) /\ x \notin ToSet(s)
      BY <2>2, <3>1, <3>2
    <3>4. /\ IsInjective(Append(s, x)) /\ Len(Append(s, x)) = Len(s) + 1 /\ Len(s) \in Nat
          /\ \A k \in 1 .. Len(s) : Append(s, x)[k] = s[k]
          /\ Append(s, x)[Len(s) + 1] = x
      BY <3>3, AppendedDistinct
    <3> QED
      BY <3>2, <3>4, Zenon
  <2>4. \A k \in 1 .. n + 1 : k \in 1 .. n \/ k = n + 1
    BY <2>3
  <2>5. PTyped'
    BY <1>2, <1>3, <1>9, <1>13, <2>1 DEF PTyped, PInPair
  <2>6. PProgress'
    <3>1. \A k \in 3 .. n + 1 : \E j \in 1 .. Len(names) :
              j < line' /\ Append(shown, image)[k] = Property!ScoreOf(names[j])
      <4> SUFFICES ASSUME NEW k \in 3 .. n + 1
                   PROVE  \E j \in 1 .. Len(names) : j < line' /\ Append(shown, image)[k] = Property!ScoreOf(names[j])
        OBVIOUS
      <4>1. CASE k \in 3 .. n
        <5>1. Append(shown, image)[k] = shown[k]
          BY <2>3, <4>1
        <5> QED
          BY <1>13, <1>14, <4>1, <5>1
      <4>2. CASE k = n + 1
        <5>1. line \in 1 .. Len(names) /\ line < line'
          BY <1>2, <1>4, <1>13
        <5>2. Append(shown, image)[k] = image
          BY <2>3, <4>2
        <5>3. image = Property!ScoreOf(names[line])
          BY <1>1
        <5> QED
          BY <5>1, <5>2, <5>3, Zenon
      <4> QED
        BY <2>3, <4>1, <4>2
    <3>2. Len(pages'[p].images) = n + 1 /\ n + 1 > 1 /\ ~ pages'[p].whole
      BY <1>14, <2>1, <2>3
    <3>3. \A k \in 3 .. Len(pages'[p].images) : \E j \in 1 .. Len(names) :
              j < line' /\ pages'[p].images[k] = Property!ScoreOf(names[j])
      BY <2>1, <3>1, <3>2, Zenon
    <3> QED
      BY <1>2, <1>10, <3>2, <3>3 DEF PProgress
  <2>7. ASSUME NEW q \in Property!PairSet PROVE PageShape(q)'
    <3>1. CASE q # p
      BY <1>8, <2>1, <3>1, ShapeKept DEF PairInv
    <3>2. CASE q = p
      <4>1. Good(image)'
        <5>1. PICK col : col = line + 2
          OBVIOUS
        <5> QED
          BY <1>1, <1>2, <1>3, <1>5, <1>6, <1>7, <1>16, <5>1, PlotGood
      <4>2. \A k \in 2 .. n : Good(shown[k])
        BY <1>14 DEF PageShape
      <4>3. PICK s : s = Append(shown, image)
        OBVIOUS
      <4>4. \A k \in 2 .. n + 1 : Good(s[k])'
        <5> SUFFICES ASSUME NEW k \in 2 .. n + 1 PROVE Good(s[k])'
          OBVIOUS
        <5>1. CASE k = n + 1
          BY <2>3, <4>1, <4>3, <5>1
        <5>2. CASE k \in 2 .. n
          <6>1. s[k] = shown[k]
            BY <2>3, <4>3, <5>2
          <6>2. Good(s[k])
            BY <4>2, <5>2, <6>1
          <6> QED
            BY <1>8, <6>2
        <5> QED
          BY <2>3, <5>1, <5>2
      <4>5. \A k \in 3 .. n + 1 : \E g \in Property!Listed : q \in g.of /\ s[k] = Property!ScoreOf(g)
        <5> SUFFICES ASSUME NEW k \in 3 .. n + 1
                     PROVE  \E g \in Property!Listed : q \in g.of /\ s[k] = Property!ScoreOf(g)
          OBVIOUS
        <5>1. CASE k = n + 1
          BY <1>1, <1>4, <2>3, <3>2, <4>3, <5>1
        <5>2. CASE k \in 3 .. n
          <6>1. s[k] = shown[k]
            BY <2>3, <4>3, <5>2
          <6> QED
            BY <1>14, <3>2, <5>2, <6>1 DEF PageShape
        <5> QED
          BY <2>3, <5>1, <5>2
      <4>6. s[1] = Property!ValuesOf(q) /\ s[2] = Property!LeadLagOf(q)
        BY <1>14, <2>3, <3>2, <4>3 DEF PageShape
      <4>7. pages'[q].images = s /\ Len(s) = n + 1 /\ n + 1 > 1 /\ IsInjective(s)
        BY <1>14, <2>1, <2>3, <3>2, <4>3
      <4> HIDE DEF shown, n
      <4> QED
        BY <4>4, <4>5, <4>6, <4>7 DEF PageShape
    <3> QED
      BY <3>1, <3>2
  <2> QED
    BY <1>11, <1>12, <2>5, <2>6, <2>7 DEF PairInv
<1> QED
  BY <1>2, <1>15, <1>16

LEMMA PairsStay == PairInv /\ [Property!Next]_(Property!vars) => PairInv'
<1>1. ASSUME PairInv, UNCHANGED Property!vars PROVE PairInv'
  <2> USE <1>1 DEF PairInv, Property!vars
  <2>1. PTyped'
    BY DEF PTyped
  <2>2. PFound'
    BY DEF PFound, Property!pair
  <2>3. Property!pair' = Property!pair /\ \A q : Dumped(q)' <=> Dumped(q)
    BY DEF Property!pair, Dumped
  <2>4. PFiles'
    BY <2>3 DEF PFiles, Shows
  <2>5. PProgress'
    BY <2>3 DEF PProgress
  <2>6. \A q \in Property!PairSet : PageShape(q)'
    BY <2>3, PagesStand
  <2> QED
    BY <2>1, <2>2, <2>4, <2>5, <2>6
<1> QED
  BY <1>1, StartPairKeeps, ReadLineOfPair, SkipKeeps, AnalyseKeeps, DumpKeeps, CreateKeepsPairs, PlotValuesKeeps,
     PlotLeadLagKeeps, PlotScoreKeeps, TrailerKeeps, EndOfPairs, Zenon DEF Property!Next, Property!Step

LEMMA PairsShow == PairInv => Property!ImagesAreOfTheirRun
<1> SUFFICES ASSUME PairInv, NEW q \in Property!PairSet
             PROVE  /\ \A image \in Property!ToSet(pages[q].images) \ {Property!ValuesOf(q)} :
                          \E p \in Property!Owners(image) : DrawnFor(p, image)
                    /\ pages[q].whole => pages[q].images[2] = Property!LeadLagOf(q)
                    /\ Property!IsInjective(pages[q].images)
  BY SameOperators DEF Property!ImagesAreOfTheirRun, DrawnFor
<1>1. PageShape(q) /\ pages[q].images \in Seq(Property!Images)
  BY DEF PairInv, PTyped
<1>2. ASSUME NEW image \in ToSet(pages[q].images), image # Property!ValuesOf(q)
      PROVE  \E p \in Property!Owners(image) : DrawnFor(p, image)
  <2>1. PICK k \in 1 .. Len(pages[q].images) : image = pages[q].images[k]
    BY <1>1, <1>2 DEF ToSet
  <2>2. k # 1 /\ k \in 2 .. Len(pages[q].images)
    BY <1>1, <1>2, <2>1 DEF PageShape
  <2>3. Good(image)
    BY <1>1, <2>1, <2>2 DEF PageShape
  <2> QED
    BY <2>3 DEF Good
<1>3. pages[q].whole => pages[q].images[2] = Property!LeadLagOf(q)
  BY <1>1 DEF PageShape
<1>4. Property!IsInjective(pages[q].images) /\ Property!ToSet(pages[q].images) = ToSet(pages[q].images)
  BY <1>1, SameOperators DEF PageShape
<1> QED
  BY <1>2, <1>3, <1>4

----------------------------------------------------------------------------
(* The tools that draw a scan *)
LEMMA RunNumbers ==
    ASSUME run \in Runs
    PROVE  /\ run.tool \in {"multi", "parallel", "window"}
           /\ run.fwin \in Nat \ {0} /\ run.symbol \in Nat \ {0} /\ run.lag \in Nat \ {0} /\ run.lead \in Nat \ {0}
           /\ run.samples \in Nat \ {0} /\ run.subs \in Nat
           /\ run.fwin * run.symbol > 1 /\ run.samples >= (run.lag + run.lead) * run.symbol
           /\ Len(run.profiles) \in Nat /\ DOMAIN run.profiles = 1 .. Len(run.profiles)
           /\ Made(run.profiles, Len(run.profiles))
           /\ \A k \in 1 .. Len(run.profiles) : run.profiles[k] \notin {"old", "ll", "baseline"}
           /\ \A j, k \in 1 .. Len(run.profiles) : run.profiles[j] = run.profiles[k] => j = k
           /\ \A k \in 1 .. run.subs : LengthName[k] # "old"
<1>1. Scan!RunConstants
  BY ReportsConstants
<1>2. /\ run.tool \in {"multi", "parallel", "window"}
      /\ {run.fwin, run.symbol, run.lag, run.lead, run.samples} \subseteq Nat \ {0} /\ run.subs \in Nat
      /\ run.fwin * run.symbol > 1 /\ run.samples >= (run.lag + run.lead) * run.symbol
      /\ run.profiles \in Seq({run.profiles[k] : k \in DOMAIN run.profiles} \ {"old", "ll", "baseline"})
      /\ \A j, k \in DOMAIN run.profiles : run.profiles[j] = run.profiles[k] => j = k
      /\ \A k \in 1 .. run.subs : LengthName[k] # "old"
  BY <1>1, Zenon DEF Scan!RunConstants
<1>3. /\ Len(run.profiles) \in Nat /\ DOMAIN run.profiles = 1 .. Len(run.profiles)
      /\ Made(run.profiles, Len(run.profiles))
      /\ \A k \in 1 .. Len(run.profiles) : run.profiles[k] \notin {"old", "ll", "baseline"}
  <2>1. PICK S, s : s = run.profiles /\ s \in Seq(S \ {"old", "ll", "baseline"})
    BY <1>2
  <2>2. /\ Len(s) \in Nat /\ DOMAIN s = 1 .. Len(s) /\ Made(s, Len(s))
        /\ \A k \in 1 .. Len(s) : s[k] \notin {"old", "ll", "baseline"}
    BY <2>1 DEF Made
  <2> QED
    BY <2>1, <2>2, Zenon
<1>4. run.fwin \in Nat \ {0} /\ run.symbol \in Nat \ {0} /\ run.lag \in Nat \ {0} /\ run.lead \in Nat \ {0}
      /\ run.samples \in Nat \ {0}
  BY <1>2
<1> QED
  BY <1>2, <1>3, <1>4, Zenon

(* Where the windows lie: the lead window begins after a lag window, and   *)
(* a row is a fixed number of samples after its beginning.                 *)
LEMMA Windowed ==
    ASSUME NEW a \in Nat \ {0}, NEW b \in Nat \ {0}, NEW s \in Nat \ {0}, NEW f \in Nat \ {0}, f * s > 1
    PROVE  /\ a * s \in Nat \ {0} /\ b * s \in Nat \ {0} /\ f * s \in Nat
           /\ (a + b) * s = a * s + b * s /\ s * (b + f) = b * s + f * s
           /\ f <= b => f * s <= b * s
<1>1. \A x, y \in Nat \ {0} : x * y \in Nat \ {0}
  OBVIOUS
<1>2. \A x, y, z \in Nat : (x + y) * z = x * z + y * z /\ z * (x + y) = x * z + y * z
  OBVIOUS
<1>3. f <= b => f * s <= b * s
  <2> SUFFICES ASSUME f <= b PROVE f * s <= b * s
    OBVIOUS
  <2>1. PICK d \in Nat : b = f + d
    <3>1. b - f \in Nat /\ b = f + (b - f)
      OBVIOUS
    <3> QED
      BY <3>1
  <2>2. (f + d) * s = f * s + d * s
    BY <1>2
  <2>3. d * s \in Nat /\ f * s \in Nat
    OBVIOUS
  <2> QED
    BY <2>1, <2>2, <2>3
<1> QED
  BY <1>1, <1>2, <1>3

(* The row of a result lies in the samples of its lead window, and, where  *)
(* a word is no longer than the window, in the samples of the series,      *)
(* unless the tool stores it behind its window.                            *)
Shift(c) == Scan!RowOf(c, 0)

LEMMA RowsOfWindows ==
    ASSUME run \in Runs, NEW c
    PROVE  /\ Shift(c) \in Int
           /\ \A w \in Scan!Scanned :
                /\ w \in Int /\ Scan!RowOf(c, w) = w + Shift(c)
                /\ Scan!RowOf(c, w) \in Scan!SamplesOf(w)
                /\ run.fwin <= run.lead => \/ Scan!RowOf(c, w) \in 0 .. run.samples - 1
                                           \/ run.tool = "parallel" /\ Scan!leadEnd(w) = run.samples
<1> DEFINE L == run.lead * run.symbol
           G == run.lag * run.symbol
           F == run.fwin * run.symbol
<1>1. /\ G \in Nat \ {0} /\ L \in Nat \ {0} /\ F \in Nat /\ F > 1
      /\ (run.lag + run.lead) * run.symbol = G + L /\ run.symbol * (run.lead + run.fwin) = L + F
      /\ run.fwin <= run.lead => F <= L
  <2>1. PICK a \in Nat \ {0}, b \in Nat \ {0}, s \in Nat \ {0}, f \in Nat \ {0} :
           a = run.lag /\ b = run.lead /\ s = run.symbol /\ f = run.fwin
    BY RunNumbers, Zenon
  <2>2. f * s > 1
    BY <2>1, RunNumbers, Zenon
  <2>3. /\ a * s \in Nat \ {0} /\ b * s \in Nat \ {0} /\ f * s \in Nat
        /\ (a + b) * s = a * s + b * s /\ s * (b + f) = b * s + f * s
        /\ f <= b => f * s <= b * s
    BY <2>2, Windowed
  <2> QED
    BY <2>1, <2>2, <2>3, Zenon
<1>2. run.samples \in Nat /\ run.samples >= G + L /\ run.tool \in {"multi", "parallel", "window"}
  BY <1>1, RunNumbers
<1> HIDE DEF L, G, F
<1>3. \A w : Scan!leadEnd(w) = w + (G + L)
  BY <1>1, Zenon DEF Scan!leadEnd
<1>4. Scan!leadLength = L
  BY DEF Scan!leadLength, L
<1>5. \A w \in Int : Scan!LeadLagOffset(Scan!leadEnd(w)) = w + G + F \div 2
  BY <1>1, <1>3, <1>4 DEF Scan!LeadLagOffset, F
<1>6. \A w \in Int : Scan!ProfileOffset(Scan!leadEnd(w)) = w + G + (L + F - 1) \div 2
  BY <1>1, <1>3, <1>4 DEF Scan!ProfileOffset
<1>7. /\ F \div 2 \in Nat /\ F \div 2 >= 1 /\ F \div 2 <= F - 1
      /\ (L + F - 1) \div 2 \in Nat /\ (L + F - 1) \div 2 >= 1 /\ (L + F - 1) \div 2 <= L + F - 2
      /\ F <= L => F \div 2 <= L /\ (L + F - 1) \div 2 <= L
  BY <1>1
<1> DEFINE Fits(d) == /\ d >= G /\ d <= G + L + F - 2
                      /\ F <= L => d <= G + L - 1 \/ (run.tool = "parallel" /\ d = G + L)
           At(d) == \A w \in Int : Scan!RowOf(c, w) = w + d
<1>8. \E d \in Int : At(d) /\ Fits(d)
  <2>1. CASE run.tool = "multi" /\ c = "ll"
    <3>1. At(G + F \div 2 - 1)
      BY <1>1, <1>5, <1>7, <2>1 DEF Scan!RowOf
    <3>2. G + F \div 2 - 1 \in Int /\ Fits(G + F \div 2 - 1)
      BY <1>1, <1>7
    <3> HIDE DEF At, Fits
    <3> QED
      BY <3>1, <3>2, Zenon
  <2>2. CASE run.tool = "multi" /\ c # "ll"
    <3>1. At(G + (L + F - 1) \div 2 - 1)
      BY <1>1, <1>6, <1>7, <2>2 DEF Scan!RowOf
    <3>2. G + (L + F - 1) \div 2 - 1 \in Int /\ Fits(G + (L + F - 1) \div 2 - 1)
      BY <1>1, <1>7
    <3> HIDE DEF At, Fits
    <3> QED
      BY <3>1, <3>2, Zenon
  <2>3. CASE run.tool = "parallel"
    <3>1. At(G + L)
      BY <1>1, <1>3, <2>3 DEF Scan!RowOf
    <3>2. G + L \in Int /\ Fits(G + L)
      BY <1>1, <2>3
    <3> HIDE DEF At, Fits
    <3> QED
      BY <3>1, <3>2, Zenon
  <2>4. CASE run.tool = "window"
    <3>1. At(G + L - 1)
      BY <1>1, <1>3, <2>4 DEF Scan!RowOf
    <3>2. G + L - 1 \in Int /\ Fits(G + L - 1)
      BY <1>1
    <3> HIDE DEF At, Fits
    <3> QED
      BY <3>1, <3>2, Zenon
  <2> QED
    BY <1>2, <2>1, <2>2, <2>3, <2>4
<1>16. PICK d \in Int : At(d) /\ Fits(d)
  BY <1>8, Zenon
<1>9. Shift(c) = d
  BY <1>16 DEF Shift
<1>10. \A w : w \in Scan!Scanned <=> w \in 0 .. run.samples - (G + L)
  BY <1>1 DEF Scan!Scanned
<1> SUFFICES ASSUME NEW w \in Scan!Scanned
             PROVE  /\ w \in Int /\ Scan!RowOf(c, w) = w + Shift(c)
                    /\ Scan!RowOf(c, w) \in Scan!SamplesOf(w)
                    /\ run.fwin <= run.lead => \/ Scan!RowOf(c, w) \in 0 .. run.samples - 1
                                               \/ run.tool = "parallel" /\ Scan!leadEnd(w) = run.samples
  BY <1>9
<1>12. w \in Nat /\ w + (G + L) <= run.samples
  BY <1>1, <1>2, <1>10
<1>13. Scan!RowOf(c, w) = w + d
  BY <1>16, <1>12
<1>14. Scan!RowOf(c, w) \in Scan!SamplesOf(w)
  <2>1. PICK e : e = Scan!leadEnd(w)
    OBVIOUS
  <2>2. e = w + (G + L)
    BY <1>3, <2>1
  <2>3. w + d \in e - L .. e - 1 + F - 1
    BY <1>1, <1>16, <1>12, <2>2
  <2>4. Scan!SamplesOf(w) = e - L .. e - 1 + F - 1
    BY <1>4, <2>1, Zenon DEF Scan!SamplesOf, F
  <2> QED
    BY <1>13, <2>3, <2>4, Zenon
<1>15. ASSUME run.fwin <= run.lead
       PROVE  \/ Scan!RowOf(c, w) \in 0 .. run.samples - 1
              \/ run.tool = "parallel" /\ Scan!leadEnd(w) = run.samples
  BY <1>1, <1>2, <1>3, <1>16, <1>12, <1>13, <1>15
<1> QED
  BY <1>9, <1>12, <1>13, <1>14, <1>15

----------------------------------------------------------------------------
(* Each result is at its row, and nothing else.                            *)
RowsRight ==
    \A c \in Scan!Channels :
        /\ \A r \in DOMAIN stored[c] : stored[c][r] \in Scan!Scanned /\ Scan!RowOf(c, stored[c][r]) = r
        /\ \A w \in Scan!Scanned : Scan!RowOf(c, w) \in DOMAIN stored[c] /\ stored[c][Scan!RowOf(c, w)] = w

(* How many columns a file has, and what they go by. *)
Width == IF run.tool = "multi" THEN Len(run.profiles) + 4 ELSE run.subs + 3

Named(f) ==
    IF run.tool = "multi"
    THEN /\ f[1].of = "values" /\ f[2].of = "ll" /\ f[3].of = "baseline" /\ f[Width].of = "times"
         /\ \A k \in 1 .. Len(run.profiles) : f[k + 3].of = run.profiles[k]
    ELSE /\ f[1].of = "values" /\ f[run.subs + 2].of = "mul" /\ f[Width].of = "times"
         /\ \A k \in 1 .. run.subs : f[k + 1].of = LengthName[k]

ColumnsRight == Made(file, Width) /\ Named(file)

(* Each result is drawn in its window, and, as far as that lies in the     *)
(* samples, each is drawn.                                                 *)
Drawn(cells) ==
    /\ \A r \in DOMAIN cells : cells[r] # Scan!Missing => r \in Scan!SamplesOf(cells[r])
    /\ run.fwin <= run.lead =>
          \A w \in Scan!Scanned : \/ \E r \in DOMAIN cells : cells[r] = w
                                  \/ run.tool = "parallel" /\ Scan!leadEnd(w) = run.samples

CellsRight == \A k \in 2 .. Width - 1 : Drawn(file[k].cells)

Pictured(r) ==
    IF r.tool = "multi" THEN {"values", "ll", "baseline"} \cup {r.profiles[k] : k \in 1 .. Len(r.profiles)}
    ELSE {"values", "mul"} \cup {LengthName[k] : k \in 1 .. r.subs}

ImagesRight ==
    /\ \A p \in DOMAIN images : images[p].x.of = "times" /\ images[p].y.of = p /\ p \in Pictured(run)
    /\ pc \in {"sync", "convert", "end"} => DOMAIN images = Pictured(run)

ScanInv ==
    /\ run \in Runs
    /\ pc \in {"gather", "dump", "plot", "sync", "convert", "end", "exit", "panic"}
    /\ pc = "dump" => RowsRight
    /\ pc \in {"gather", "dump"} => ~ dumped
    /\ pc \in {"gather", "dump", "plot"} => images = <<>>
    /\ dumped => ColumnsRight /\ CellsRight /\ ImagesRight
    /\ pc = "end" => montage = images

LEMMA InitScan == Scan!Init => ScanInv
  BY DEF Scan!Init, ScanInv

LEMMA SameRun ==
    ASSUME run' = run
    PROVE  /\ Scan!Scanned' = Scan!Scanned /\ Scan!Channels' = Scan!Channels /\ Width' = Width
           /\ \A w : Scan!leadEnd(w)' = Scan!leadEnd(w) /\ Scan!SamplesOf(w)' = Scan!SamplesOf(w)
           /\ \A c, w : Scan!RowOf(c, w)' = Scan!RowOf(c, w)
           /\ \A f : Named(f)' <=> Named(f)
           /\ \A cells : Drawn(cells)' <=> Drawn(cells)
           /\ stored' = stored => (RowsRight' <=> RowsRight)
           /\ file' = file => (ColumnsRight' <=> ColumnsRight) /\ (CellsRight' <=> CellsRight)
<1>1. Scan!Scanned' = Scan!Scanned /\ Scan!Channels' = Scan!Channels /\ Width' = Width
  BY DEF Scan!Scanned, Scan!Channels, Width
<1>2. \A w : Scan!leadEnd(w)' = Scan!leadEnd(w) /\ Scan!SamplesOf(w)' = Scan!SamplesOf(w)
  BY DEF Scan!leadEnd, Scan!SamplesOf, Scan!leadLength
<1>3. \A c, w : Scan!RowOf(c, w)' = Scan!RowOf(c, w)
  BY DEF Scan!RowOf, Scan!leadEnd, Scan!leadLength, Scan!LeadLagOffset, Scan!ProfileOffset
<1>4. \A f : Named(f)' <=> Named(f)
  BY <1>1 DEF Named
<1>5. \A cells : Drawn(cells)' <=> Drawn(cells)
  BY <1>1, <1>2 DEF Drawn
<1>6. stored' = stored => (RowsRight' <=> RowsRight)
  BY <1>1, <1>3 DEF RowsRight
<1>7. file' = file => (ColumnsRight' <=> ColumnsRight) /\ (CellsRight' <=> CellsRight)
  BY <1>1, <1>4, <1>5 DEF ColumnsRight, CellsRight
<1> QED
  BY <1>1, <1>2, <1>3, <1>4, <1>5, <1>6, <1>7

LEMMA GatherKeeps == ScanInv /\ Scan!Gather => ScanInv'
<1> SUFFICES ASSUME ScanInv, Scan!Gather PROVE ScanInv'
  OBVIOUS
<1>1. /\ run' = run /\ run \in Runs /\ pc = "gather" /\ pc' = "dump" /\ file' = file /\ dumped' = dumped /\ ~ dumped
      /\ images' = images /\ images = <<>>
      /\ stored' = [c \in Scan!Channels |-> [r \in {Scan!RowOf(c, w) : w \in Scan!Scanned} |->
                                                CHOOSE w \in Scan!Scanned : Scan!RowOf(c, w) = r]]
  BY DEF ScanInv, Scan!Gather
<1>2. ASSUME NEW c \in Scan!Channels
      PROVE  /\ \A r \in DOMAIN stored'[c] : stored'[c][r] \in Scan!Scanned /\ Scan!RowOf(c, stored'[c][r]) = r
             /\ \A w \in Scan!Scanned : Scan!RowOf(c, w) \in DOMAIN stored'[c] /\ stored'[c][Scan!RowOf(c, w)] = w
  <2> DEFINE R == {Scan!RowOf(c, w) : w \in Scan!Scanned}
             at(r) == CHOOSE w \in Scan!Scanned : Scan!RowOf(c, w) = r
  <2>1. DOMAIN stored'[c] = R /\ \A r \in R : stored'[c][r] = at(r)
    BY <1>1
  <2>2. \A r \in R : at(r) \in Scan!Scanned /\ Scan!RowOf(c, at(r)) = r
    <3> SUFFICES ASSUME NEW v \in Scan!Scanned, NEW r, r = Scan!RowOf(c, v)
                 PROVE  at(r) \in Scan!Scanned /\ Scan!RowOf(c, at(r)) = r
      BY Zenon
    <3> QED
      BY Zenon
  <2>3. \A v, w \in Scan!Scanned : Scan!RowOf(c, v) = Scan!RowOf(c, w) => v = w
    <3>1. Shift(c) \in Int /\ \A w \in Scan!Scanned : w \in Int /\ Scan!RowOf(c, w) = w + Shift(c)
      BY <1>1, RowsOfWindows, Zenon
    <3> SUFFICES ASSUME NEW v \in Scan!Scanned, NEW w \in Scan!Scanned, Scan!RowOf(c, v) = Scan!RowOf(c, w)
                 PROVE  v = w
      OBVIOUS
    <3>2. v \in Int /\ w \in Int /\ v + Shift(c) = w + Shift(c)
      BY <3>1, Zenon
    <3> QED
      BY <3>1, <3>2
  <2>4. \A w \in Scan!Scanned : Scan!RowOf(c, w) \in R
    BY Zenon
  <2> HIDE DEF R, at
  <2> QED
    BY <2>1, <2>2, <2>3, <2>4
<1>3. RowsRight'
  BY <1>1, <1>2, SameRun DEF RowsRight
<1> QED
  BY <1>1, <1>3 DEF ScanInv

(* The columns that are dumped. *)
DumpOf == <<Scan!Plain("values")>>
             \o (IF run.tool = "multi" THEN Scan!SearchColumns ELSE Scan!BitmapColumns)
             \o <<Scan!Plain("times")>>

LEMMA SearchDump ==
    ASSUME run \in Runs, run.tool = "multi", NEW n, n = Len(run.profiles)
    PROVE  /\ n \in Nat /\ Made(DumpOf, n + 4) /\ DOMAIN DumpOf = 1 .. n + 4
           /\ DumpOf[1] = Scan!Plain("values")
           /\ DumpOf[2] = Scan!Transformed("ll", "ll", run.samples)
           /\ DumpOf[3] = Scan!Transformed("baseline", "baseline", run.samples)
           /\ \A k \in 1 .. n : DumpOf[k + 3] = Scan!Transformed(run.profiles[k], run.profiles[k], run.samples)
           /\ DumpOf[n + 4] = Scan!Plain("times")
<1>1. n \in Nat /\ DOMAIN run.profiles = 1 .. n
  BY RunNumbers
<1>2. PICK v, a, b, q, t :
         /\ v = Scan!Plain("values") /\ t = Scan!Plain("times")
         /\ a = Scan!Transformed("ll", "ll", run.samples)
         /\ b = Scan!Transformed("baseline", "baseline", run.samples)
         /\ q = [k \in 1 .. n |-> Scan!Transformed(run.profiles[k], run.profiles[k], run.samples)]
  OBVIOUS
<1>3. Made(q, n) /\ \A k \in 1 .. n : q[k] = Scan!Transformed(run.profiles[k], run.profiles[k], run.samples)
  BY <1>2 DEF Made
<1>4. Made(<<a, b>>, 2) /\ <<a, b>>[1] = a /\ <<a, b>>[2] = b
  BY DEF Made
<1>5. DumpOf = Join(Join(<<v>>, Join(<<a, b>>, q)), <<t>>)
  BY <1>1, <1>2 DEF DumpOf, Scan!SearchColumns, Join
<1>6. PICK s : s = Join(<<a, b>>, q)
  OBVIOUS
<1>7. Made(s, 2 + n) /\ s[1] = a /\ s[2] = b /\ \A k \in 1 .. n : s[k + 2] = q[k]
  <2>1. PICK ab : ab = <<a, b>>
    OBVIOUS
  <2>2. Made(ab, 2) /\ ab[1] = a /\ ab[2] = b
    BY <1>4, <2>1, Zenon
  <2>3. /\ Made(Join(ab, q), 2 + n) /\ \A k \in 1 .. 2 : Join(ab, q)[k] = ab[k]
        /\ \A k \in 1 .. n : Join(ab, q)[k + 2] = q[k]
    BY <1>1, <1>3, <2>2, JoinedMade
  <2>4. s = Join(ab, q)
    BY <1>6, <2>1, Zenon
  <2>5. Made(s, 2 + n) /\ (\A k \in 1 .. 2 : s[k] = ab[k]) /\ \A k \in 1 .. n : s[k + 2] = q[k]
    BY <2>3, <2>4, Zenon
  <2> QED
    BY <2>2, <2>5
<1>8. PICK u : u = Join(<<v>>, s)
  OBVIOUS
<1>9. /\ Made(u, 1 + (2 + n)) /\ u[1] = v /\ \A k \in 1 .. 2 + n : u[k + 1] = s[k]
  <2>1. PICK o : o = <<v>>
    OBVIOUS
  <2>2. Made(o, 1) /\ o[1] = v /\ 2 + n \in Nat
    BY <1>1, <2>1, OneMade
  <2>3. /\ Made(Join(o, s), 1 + (2 + n)) /\ \A k \in 1 .. 1 : Join(o, s)[k] = o[k]
        /\ \A k \in 1 .. 2 + n : Join(o, s)[k + 1] = s[k]
    BY <1>7, <2>2, JoinedMade
  <2>4. u = Join(o, s)
    BY <1>8, <2>1, Zenon
  <2>5. Made(u, 1 + (2 + n)) /\ (\A k \in 1 .. 1 : u[k] = o[k]) /\ \A k \in 1 .. 2 + n : u[k + 1] = s[k]
    BY <2>3, <2>4, Zenon
  <2> QED
    BY <2>2, <2>5
<1>10. PICK d : d = Join(u, <<t>>)
  OBVIOUS
<1>11. /\ Made(d, 1 + (2 + n) + 1) /\ DOMAIN d = 1 .. 1 + (2 + n) + 1
       /\ \A k \in 1 .. 1 + (2 + n) : d[k] = u[k]
       /\ d[1 + (1 + (2 + n))] = t
  <2>1. PICK o : o = <<t>>
    OBVIOUS
  <2>0. PICK m \in Nat : m = 1 + (2 + n)
    BY <1>1
  <2>2. Made(o, 1) /\ o[1] = t /\ Made(u, m)
    BY <1>9, <2>0, <2>1, OneMade
  <2>3. /\ Made(Join(u, o), m + 1) /\ DOMAIN Join(u, o) = 1 .. m + 1
        /\ \A k \in 1 .. m : Join(u, o)[k] = u[k]
        /\ \A k \in 1 .. 1 : Join(u, o)[k + m] = o[k]
    BY <2>2, JoinedMade
  <2>4. d = Join(u, o)
    BY <1>10, <2>1, Zenon
  <2>5. /\ Made(d, 1 + (2 + n) + 1) /\ DOMAIN d = 1 .. 1 + (2 + n) + 1
        /\ \A k \in 1 .. 1 + (2 + n) : d[k] = u[k]
        /\ \A k \in 1 .. 1 : d[k + (1 + (2 + n))] = o[k]
    BY <2>0, <2>3, <2>4, Zenon
  <2> QED
    BY <2>2, <2>5
<1>12. DumpOf = d
  BY <1>5, <1>6, <1>8, <1>10
<1>13. /\ 1 + (2 + n) + 1 = n + 4 /\ 1 + (1 + (2 + n)) = n + 4
       /\ d[1] = v /\ d[2] = a /\ d[3] = b /\ \A k \in 1 .. n : d[k + 3] = q[k]
  <2>1. \A k \in 1 .. 2 + n : k + 1 \in 1 .. 1 + (2 + n) /\ d[k + 1] = s[k]
    BY <1>1, <1>9, <1>11
  <2>2. d[1] = v
    BY <1>1, <1>9, <1>11
  <2>3. d[1 + 1] = s[1] /\ d[2 + 1] = s[2]
    BY <1>1, <2>1
  <2>4. \A k \in 1 .. n : d[(k + 2) + 1] = s[k + 2]
    BY <1>1, <2>1
  <2> QED
    BY <1>1, <1>7, <2>2, <2>3, <2>4
<1>14. /\ Made(d, n + 4) /\ DOMAIN d = 1 .. n + 4 /\ d[n + 4] = t
  BY <1>11, <1>13, Zenon
<1> QED
  BY <1>1, <1>2, <1>3, <1>12, <1>13, <1>14, Zenon

LEMMA BitmapDump ==
    ASSUME run \in Runs, run.tool # "multi", NEW n, n = run.subs
    PROVE  /\ n \in Nat /\ Made(DumpOf, n + 3) /\ DOMAIN DumpOf = 1 .. n + 3
           /\ DumpOf[1] = Scan!Plain("values")
           /\ \A k \in 1 .. n : DumpOf[k + 1] = Scan!Transformed(LengthName[k], "dist", run.samples + 1)
           /\ DumpOf[n + 2] = Scan!Transformed("mul", "dist", run.samples + 1)
           /\ DumpOf[n + 3] = Scan!Plain("times")
<1>1. n \in Nat
  BY RunNumbers
<1>2. PICK v, a, q, t :
         /\ v = Scan!Plain("values") /\ t = Scan!Plain("times")
         /\ a = Scan!Transformed("mul", "dist", run.samples + 1)
         /\ q = [k \in 1 .. n |-> Scan!Transformed(LengthName[k], "dist", run.samples + 1)]
  OBVIOUS
<1>3. Made(q, n) /\ \A k \in 1 .. n : q[k] = Scan!Transformed(LengthName[k], "dist", run.samples + 1)
  BY <1>2 DEF Made
<1>4. PICK x, y, z : x = <<v>> /\ y = <<a>> /\ z = <<t>>
  OBVIOUS
<1>5. Made(x, 1) /\ x[1] = v /\ Made(y, 1) /\ y[1] = a /\ Made(z, 1) /\ z[1] = t
  BY <1>4, OneMade
<1>6. DumpOf = Join(Join(x, Join(q, y)), z)
  BY <1>2, <1>4 DEF DumpOf, Scan!BitmapColumns, Join
<1>7. PICK m1 \in Nat, m2 \in Nat : m1 = n + 1 /\ m2 = n + 2
  BY <1>1
<1>8. PICK s, u, d : s = Join(q, y) /\ u = Join(x, s) /\ d = Join(u, z)
  OBVIOUS
<1>9. Made(s, m1) /\ (\A k \in 1 .. n : s[k] = q[k]) /\ s[n + 1] = a
  <2>1. /\ Made(s, n + 1) /\ \A k \in 1 .. n : s[k] = q[k]
        /\ \A k \in 1 .. 1 : s[k + n] = y[k]
    <3>1. PICK i \in Nat : i = 1
      OBVIOUS
    <3>2. Made(y, i)
      BY <1>5, <3>1
    <3>3. /\ Made(Join(q, y), n + i) /\ \A k \in 1 .. n : Join(q, y)[k] = q[k]
          /\ \A k \in 1 .. i : Join(q, y)[k + n] = y[k]
      BY <1>1, <1>3, <3>2, JoinedMade
    <3> QED
      BY <1>8, <3>1, <3>3, Zenon
  <2>2. s[1 + n] = a /\ 1 + n = n + 1
    BY <1>1, <1>5, <2>1
  <2> QED
    BY <1>7, <2>1, <2>2
<1>10. Made(u, m2) /\ u[1] = v /\ \A k \in 1 .. m1 : u[k + 1] = s[k]
  <2>1. PICK i \in Nat : i = 1
    OBVIOUS
  <2>2. Made(x, i)
    BY <1>5, <2>1
  <2>3. /\ Made(Join(x, s), i + m1) /\ \A k \in 1 .. i : Join(x, s)[k] = x[k]
        /\ \A k \in 1 .. m1 : Join(x, s)[k + i] = s[k]
    BY <1>9, <2>2, JoinedMade
  <2>4. /\ Made(u, 1 + m1) /\ (\A k \in 1 .. 1 : u[k] = x[k]) /\ \A k \in 1 .. m1 : u[k + 1] = s[k]
    BY <1>8, <2>1, <2>3, Zenon
  <2>5. 1 + m1 = m2
    BY <1>1, <1>7
  <2> QED
    BY <1>5, <2>4, <2>5
<1>11. Made(d, m2 + 1) /\ DOMAIN d = 1 .. m2 + 1 /\ (\A k \in 1 .. m2 : d[k] = u[k]) /\ d[m2 + 1] = t
  <2>1. PICK i \in Nat : i = 1
    OBVIOUS
  <2>2. Made(z, i)
    BY <1>5, <2>1
  <2>3. /\ Made(Join(u, z), m2 + i) /\ DOMAIN Join(u, z) = 1 .. m2 + i
        /\ \A k \in 1 .. m2 : Join(u, z)[k] = u[k]
        /\ \A k \in 1 .. i : Join(u, z)[k + m2] = z[k]
    BY <1>10, <2>2, JoinedMade
  <2>4. /\ Made(d, m2 + 1) /\ DOMAIN d = 1 .. m2 + 1 /\ (\A k \in 1 .. m2 : d[k] = u[k])
        /\ \A k \in 1 .. 1 : d[k + m2] = z[k]
    BY <1>8, <2>1, <2>3, Zenon
  <2>5. z[1] = t /\ 1 \in 1 .. 1
    BY <1>5
  <2>6. d[1 + m2] = t
    BY <2>4, <2>5, Zenon
  <2>7. 1 + m2 = m2 + 1
    BY <1>7, <1>1
  <2> QED
    BY <2>4, <2>6, <2>7, Zenon
<1>12. DumpOf = d
  BY <1>6, <1>8, Zenon
<1>13. d[1] = v /\ (\A k \in 1 .. m1 : k + 1 \in 1 .. m2 /\ d[k + 1] = s[k]) /\ m2 + 1 = n + 3 /\ m2 = n + 2
  BY <1>1, <1>7, <1>10, <1>11
<1>14. (\A k \in 1 .. n : d[k + 1] = q[k]) /\ d[n + 2] = a
  <2>1. d[(n + 1) + 1] = s[n + 1] /\ (n + 1) + 1 = n + 2
    BY <1>1, <1>7, <1>13
  <2>2. \A k \in 1 .. n : k \in 1 .. m1
    BY <1>1, <1>7
  <2> QED
    BY <1>9, <1>13, <2>1, <2>2
<1>15. Made(d, n + 3) /\ DOMAIN d = 1 .. n + 3 /\ d[n + 3] = t
  BY <1>11, <1>13, Zenon
<1> QED
  BY <1>1, <1>2, <1>3, <1>12, <1>13, <1>14, <1>15, Zenon

(* A column of results, and any column. *)
OfResults(x) == \E name : \E c \in Scan!Channels, length \in {run.samples, run.samples + 1} :
                   x = Scan!Transformed(name, c, length)

LEMMA ColumnNames ==
    /\ \A name : Scan!Plain(name).of = name
    /\ \A name, c, length : Scan!Transformed(name, c, length).of = name
  BY DEF Scan!Plain, Scan!Transformed

LEMMA PlainShape ==
    ASSUME NEW name, NEW x, x = Scan!Plain(name)
    PROVE  x = [of |-> x.of, cells |-> x.cells] /\ DOMAIN x.cells = 0 .. run.samples - 1
  BY DEF Scan!Plain

LEMMA ResultShape ==
    ASSUME NEW name, NEW c, NEW length, NEW x, x = Scan!Transformed(name, c, length)
    PROVE  /\ x = [of |-> x.of, cells |-> x.cells] /\ DOMAIN x.cells = 0 .. length - 1
           /\ \A r \in 0 .. length - 1 :
                 x.cells[r] = IF r \in DOMAIN stored[c] THEN stored[c][r] ELSE Scan!Missing
  BY DEF Scan!Transformed

OneColumn(x) == x = [of |-> x.of, cells |-> x.cells] /\ DOMAIN x.cells \in {0 .. run.samples - 1, 0 .. run.samples}

LEMMA ColumnKinds ==
    ASSUME run \in Runs
    PROVE  /\ \A name : OneColumn(Scan!Plain(name))
           /\ \A x : OfResults(x) => OneColumn(x)
<1>1. run.samples \in Nat /\ (run.samples + 1) - 1 = run.samples
  BY RunNumbers
<1>2. ASSUME NEW name PROVE OneColumn(Scan!Plain(name))
  <2>1. PICK x : x = Scan!Plain(name)
    OBVIOUS
  <2>2. x = [of |-> x.of, cells |-> x.cells] /\ DOMAIN x.cells = 0 .. run.samples - 1
    BY <2>1, PlainShape
  <2> QED
    BY <2>1, <2>2, Zenon DEF OneColumn
<1>3. ASSUME NEW name, NEW c, NEW length \in {run.samples, run.samples + 1}
      PROVE  OneColumn(Scan!Transformed(name, c, length))
  <2>1. PICK x : x = Scan!Transformed(name, c, length)
    OBVIOUS
  <2>2. x = [of |-> x.of, cells |-> x.cells] /\ DOMAIN x.cells = 0 .. length - 1
    BY <2>1, ResultShape
  <2>3. length - 1 = run.samples - 1 \/ length - 1 = run.samples
    BY <1>1
  <2>4. DOMAIN x.cells = 0 .. run.samples - 1 \/ DOMAIN x.cells = 0 .. run.samples
    BY <2>2, <2>3, Zenon
  <2> QED
    BY <2>1, <2>2, <2>4, Zenon DEF OneColumn
<1> QED
  BY <1>2, <1>3, Zenon DEF OfResults

LEMMA DumpFits ==
    ASSUME run \in Runs
    PROVE  /\ Width \in Nat /\ Width >= 3 /\ DOMAIN DumpOf = 1 .. Width /\ Named(DumpOf)
           /\ \A k \in 1 .. Width : OneColumn(DumpOf[k])
           /\ \A k \in 2 .. Width - 1 : OfResults(DumpOf[k])
<1>1. CASE run.tool = "multi"
  <2>1. PICK n : n = Len(run.profiles)
    OBVIOUS
  <2>2. n \in Nat /\ Width = n + 4 /\ {"ll", "baseline"} \subseteq Scan!Channels
        /\ \A k \in 1 .. n : run.profiles[k] \in Scan!Channels
    BY <1>1, <2>1, RunNumbers DEF Width, Scan!Channels
  <2>3. /\ DOMAIN DumpOf = 1 .. n + 4
        /\ DumpOf[1] = Scan!Plain("values")
        /\ DumpOf[2] = Scan!Transformed("ll", "ll", run.samples)
        /\ DumpOf[3] = Scan!Transformed("baseline", "baseline", run.samples)
        /\ \A k \in 1 .. n : DumpOf[k + 3] = Scan!Transformed(run.profiles[k], run.profiles[k], run.samples)
        /\ DumpOf[n + 4] = Scan!Plain("times")
    BY <1>1, <2>1, SearchDump
  <2>4. OfResults(DumpOf[2]) /\ OfResults(DumpOf[3]) /\ \A k \in 1 .. n : OfResults(DumpOf[k + 3])
    BY <2>2, <2>3 DEF OfResults
  <2>5. \A k \in 2 .. (n + 4) - 1 : OfResults(DumpOf[k])
    <3> SUFFICES ASSUME NEW k \in 2 .. (n + 4) - 1 PROVE OfResults(DumpOf[k])
      OBVIOUS
    <3>1. k = 2 \/ k = 3 \/ (k - 3 \in 1 .. n /\ (k - 3) + 3 = k)
      BY <2>2
    <3> QED
      BY <2>4, <3>1, Zenon
  <2>6. \A k \in 1 .. n + 4 : OneColumn(DumpOf[k])
    <3> SUFFICES ASSUME NEW k \in 1 .. n + 4 PROVE OneColumn(DumpOf[k])
      OBVIOUS
    <3>1. k = 1 \/ k = n + 4 \/ k \in 2 .. (n + 4) - 1
      BY <2>2
    <3> QED
      BY <2>3, <2>5, <3>1, ColumnKinds, Zenon
  <2>7. Named(DumpOf)
    <3>1. DumpOf[1].of = "values" /\ DumpOf[2].of = "ll" /\ DumpOf[3].of = "baseline" /\ DumpOf[n + 4].of = "times"
      BY <2>3, ColumnNames
    <3>2. \A k \in 1 .. n : DumpOf[k + 3].of = run.profiles[k]
      BY <2>3, ColumnNames
    <3> QED
      BY <1>1, <2>1, <2>2, <3>1, <3>2, Zenon DEF Named
  <2>8. n + 4 \in Nat /\ n + 4 >= 3
    BY <2>2
  <2> QED
    BY <2>2, <2>3, <2>5, <2>6, <2>7, <2>8, Zenon
<1>2. CASE run.tool # "multi"
  <2>1. PICK n : n = run.subs
    OBVIOUS
  <2>2. n \in Nat /\ Width = n + 3 /\ "dist" \in Scan!Channels
    BY <1>2, <2>1, RunNumbers DEF Width, Scan!Channels
  <2>3. /\ DOMAIN DumpOf = 1 .. n + 3
        /\ DumpOf[1] = Scan!Plain("values")
        /\ \A k \in 1 .. n : DumpOf[k + 1] = Scan!Transformed(LengthName[k], "dist", run.samples + 1)
        /\ DumpOf[n + 2] = Scan!Transformed("mul", "dist", run.samples + 1)
        /\ DumpOf[n + 3] = Scan!Plain("times")
    BY <1>2, <2>1, BitmapDump
  <2>4. OfResults(DumpOf[n + 2]) /\ \A k \in 1 .. n : OfResults(DumpOf[k + 1])
    <3>1. \A name : OfResults(Scan!Transformed(name, "dist", run.samples + 1))
      BY <2>2, Zenon DEF OfResults
    <3> QED
      BY <2>3, <3>1, Zenon
  <2>5. \A k \in 2 .. (n + 3) - 1 : OfResults(DumpOf[k])
    <3> SUFFICES ASSUME NEW k \in 2 .. (n + 3) - 1 PROVE OfResults(DumpOf[k])
      OBVIOUS
    <3>1. k = n + 2 \/ (k - 1 \in 1 .. n /\ (k - 1) + 1 = k)
      BY <2>2
    <3> QED
      BY <2>4, <3>1, Zenon
  <2>6. \A k \in 1 .. n + 3 : OneColumn(DumpOf[k])
    <3> SUFFICES ASSUME NEW k \in 1 .. n + 3 PROVE OneColumn(DumpOf[k])
      OBVIOUS
    <3>1. k = 1 \/ k = n + 3 \/ k \in 2 .. (n + 3) - 1
      BY <2>2
    <3> QED
      BY <2>3, <2>5, <3>1, ColumnKinds, Zenon
  <2>7. Named(DumpOf)
    <3>1. DumpOf[1].of = "values" /\ DumpOf[n + 2].of = "mul" /\ DumpOf[n + 3].of = "times"
      BY <2>3, ColumnNames
    <3>2. \A k \in 1 .. n : DumpOf[k + 1].of = LengthName[k]
      BY <2>3, ColumnNames
    <3> QED
      BY <1>2, <2>1, <2>2, <3>1, <3>2, Zenon DEF Named
  <2>8. n + 3 \in Nat /\ n + 3 >= 3
    BY <2>2
  <2> QED
    BY <2>2, <2>3, <2>5, <2>6, <2>7, <2>8, Zenon
<1> QED
  BY <1>1, <1>2

(* Each column has as many rows as there are samples, or one more.         *)
LEMMA DumpedRows ==
    ASSUME run \in Runs, NEW N \in Nat, N >= 1, NEW cols, DOMAIN cols = 1 .. N, \A k \in 1 .. N : OneColumn(cols[k]),
           NEW f, f = Scan!TextDump(cols)
    PROVE  /\ Made(f, N)
           /\ \A k \in 1 .. N : /\ f[k].of = cols[k].of
                                 /\ f[k].cells = [r \in 0 .. run.samples - 1 |-> cols[k].cells[r]]
<1>1. run.samples \in Nat /\ run.samples >= 1
  BY RunNumbers
<1>2. \A S : Scan!Cardinality(S) = Cardinality(S)
  BY DEF Cardinality, Scan!Cardinality
<1> DEFINE C == {Scan!Cardinality(DOMAIN cols[k].cells) : k \in 1 .. N}
           M == {run.samples} \cup C
           shortest == Scan!Min(M)
<1>3. \A x \in C : x = run.samples \/ x = run.samples + 1
  <2> SUFFICES ASSUME NEW k \in 1 .. N
               PROVE  Scan!Cardinality(DOMAIN cols[k].cells) \in {run.samples, run.samples + 1}
    OBVIOUS
  <2>1. Cardinality(0 .. run.samples - 1) = run.samples /\ Cardinality(0 .. run.samples) = run.samples + 1
    <3>1. PICK n \in Nat : n = run.samples /\ n >= 1
      BY <1>1
    <3>2. PICK b \in Int : b = n - 1
      BY <3>1
    <3>3. /\ Cardinality(0 .. b) = IF 0 > b THEN 0 ELSE b - 0 + 1
          /\ Cardinality(0 .. n) = IF 0 > n THEN 0 ELSE n - 0 + 1
      BY FS_Interval
    <3>4. Cardinality(0 .. b) = n /\ Cardinality(0 .. n) = n + 1
      BY <3>1, <3>2, <3>3
    <3> QED
      BY <3>1, <3>2, <3>4, Zenon
  <2>2. DOMAIN cols[k].cells \in {0 .. run.samples - 1, 0 .. run.samples}
    BY Zenon DEF OneColumn
  <2> QED
    BY <1>2, <2>1, <2>2, Zenon
<1>4. shortest = run.samples
  <2>1. run.samples \in M /\ \A x \in M : x \in Nat /\ run.samples <= x
    BY <1>1, <1>3
  <2> HIDE DEF M
  <2>2. \E x \in M : \A y \in M : x <= y
    BY <2>1
  <2>3. shortest \in M /\ \A y \in M : shortest <= y
    BY <2>2, Zenon DEF Scan!Min
  <2> HIDE DEF shortest
  <2> QED
    BY <1>1, <2>1, <2>3
<1>5. Scan!TextDump(cols) = [k \in 1 .. N |-> [cols[k] EXCEPT !.cells = [r \in 0 .. shortest - 1 |-> cols[k].cells[r]]]]
  BY DEF Scan!TextDump
<1> HIDE DEF shortest
<1>6. Made(f, N)
  BY <1>5 DEF Made
<1>7. ASSUME NEW k \in 1 .. N
      PROVE  f[k].of = cols[k].of /\ f[k].cells = [r \in 0 .. run.samples - 1 |-> cols[k].cells[r]]
  <2>1. cols[k] = [of |-> cols[k].of, cells |-> cols[k].cells]
    BY DEF OneColumn
  <2>2. f[k] = [cols[k] EXCEPT !.cells = [r \in 0 .. shortest - 1 |-> cols[k].cells[r]]]
    BY <1>5, Zenon
  <2> QED
    BY <1>4, <2>1, <2>2
<1> QED
  BY <1>6, <1>7

LEMMA ResultsDrawn ==
    ASSUME run \in Runs, RowsRight, NEW x, OfResults(x), NEW cells, cells = [r \in 0 .. run.samples - 1 |-> x.cells[r]]
    PROVE  Drawn(cells)
<1>1. PICK name, c, length : c \in Scan!Channels /\ length \in {run.samples, run.samples + 1}
                              /\ x = Scan!Transformed(name, c, length)
  BY Zenon DEF OfResults
<1>2. \A r \in 0 .. length - 1 : x.cells[r] = IF r \in DOMAIN stored[c] THEN stored[c][r] ELSE Scan!Missing
  BY <1>1, ResultShape
<1>3. run.samples \in Nat /\ \A r \in 0 .. run.samples - 1 : r \in 0 .. length - 1
  BY <1>1, RunNumbers
<1>4. DOMAIN cells = 0 .. run.samples - 1
      /\ \A r \in 0 .. run.samples - 1 : cells[r] = IF r \in DOMAIN stored[c] THEN stored[c][r] ELSE Scan!Missing
  BY <1>2, <1>3
<1>5. /\ \A r \in DOMAIN stored[c] : stored[c][r] \in Scan!Scanned /\ Scan!RowOf(c, stored[c][r]) = r
      /\ \A w \in Scan!Scanned : Scan!RowOf(c, w) \in DOMAIN stored[c] /\ stored[c][Scan!RowOf(c, w)] = w
  BY <1>1, Zenon DEF RowsRight
<1>6. \A w \in Scan!Scanned :
         /\ Scan!RowOf(c, w) \in Scan!SamplesOf(w)
         /\ run.fwin <= run.lead => \/ Scan!RowOf(c, w) \in 0 .. run.samples - 1
                                    \/ run.tool = "parallel" /\ Scan!leadEnd(w) = run.samples
  BY RowsOfWindows, Zenon
<1>7. ASSUME NEW r \in DOMAIN cells, cells[r] # Scan!Missing PROVE r \in Scan!SamplesOf(cells[r])
  <2>1. r \in DOMAIN stored[c] /\ cells[r] = stored[c][r]
    BY <1>4, <1>7
  <2>2. cells[r] \in Scan!Scanned /\ Scan!RowOf(c, cells[r]) = r
    BY <1>5, <2>1, Zenon
  <2>3. Scan!RowOf(c, cells[r]) \in Scan!SamplesOf(cells[r])
    BY <1>6, <2>2, Zenon
  <2> QED
    BY <2>2, <2>3, Zenon
<1>8. ASSUME run.fwin <= run.lead, NEW w \in Scan!Scanned, ~ (run.tool = "parallel" /\ Scan!leadEnd(w) = run.samples)
      PROVE  \E r \in DOMAIN cells : cells[r] = w
  <2>1. PICK r : r = Scan!RowOf(c, w)
    OBVIOUS
  <2>2. r \in 0 .. run.samples - 1 /\ r \in DOMAIN stored[c] /\ stored[c][r] = w
    BY <1>5, <1>6, <1>8, <2>1, Zenon
  <2>3. r \in DOMAIN cells /\ cells[r] = w
    BY <1>4, <2>2
  <2> QED
    BY <2>3, Zenon
<1> QED
  BY <1>7, <1>8 DEF Drawn

LEMMA ScanDumpKeeps == ScanInv /\ Scan!Dump => ScanInv'
<1> SUFFICES ASSUME ScanInv, Scan!Dump PROVE ScanInv'
  OBVIOUS
<1>1. /\ run \in Runs /\ pc = "dump" /\ RowsRight /\ ~ dumped /\ images = <<>> /\ run' = run /\ pc' = "plot"
      /\ images' = <<>>
      /\ dumped' => file' = Scan!TextDump(DumpOf)
  BY DEF ScanInv, Scan!Dump, DumpOf
<1>2. ASSUME dumped' PROVE ColumnsRight' /\ CellsRight' /\ ImagesRight'
  <2>1. PICK f : f = Scan!TextDump(DumpOf)
    OBVIOUS
  <2>2. f = file'
    BY <1>1, <1>2, <2>1, Zenon
  <2>3. PICK N \in Nat : N = Width /\ N >= 3
    BY <1>1, DumpFits
  <2>4. PICK cols : cols = DumpOf
    OBVIOUS
  <2>5. /\ DOMAIN cols = 1 .. N /\ Named(cols) /\ \A k \in 1 .. N : OneColumn(cols[k])
        /\ \A k \in 2 .. N - 1 : OfResults(cols[k])
    BY <1>1, <2>3, <2>4, DumpFits, Zenon
  <2>6. /\ Made(f, N)
        /\ \A k \in 1 .. N : /\ f[k].of = cols[k].of
                              /\ f[k].cells = [r \in 0 .. run.samples - 1 |-> cols[k].cells[r]]
    <3>1. f = Scan!TextDump(cols) /\ N >= 1
      BY <2>1, <2>3, <2>4
    <3> QED
      BY <1>1, <2>3, <2>5, <3>1, DumpedRows
  <2>7. Named(f)
    <3>1. CASE run.tool = "multi"
      <4>1. PICK n : n = Len(run.profiles)
        OBVIOUS
      <4>2. n \in Nat /\ N = n + 4
        BY <1>1, <2>3, <3>1, <4>1, RunNumbers DEF Width
      <4>3. 1 \in 1 .. N /\ 2 \in 1 .. N /\ 3 \in 1 .. N /\ N \in 1 .. N /\ \A k \in 1 .. n : k + 3 \in 1 .. N
        BY <4>2
      <4>4. /\ f[1].of = cols[1].of /\ f[2].of = cols[2].of /\ f[3].of = cols[3].of /\ f[N].of = cols[N].of
            /\ \A k \in 1 .. n : f[k + 3].of = cols[k + 3].of
        BY <2>6, <4>3
      <4>5. /\ cols[1].of = "values" /\ cols[2].of = "ll" /\ cols[3].of = "baseline" /\ cols[N].of = "times"
            /\ \A k \in 1 .. n : cols[k + 3].of = run.profiles[k]
        BY <2>3, <2>5, <3>1, <4>1 DEF Named
      <4> QED
        BY <2>3, <3>1, <4>1, <4>4, <4>5, Zenon DEF Named
    <3>2. CASE run.tool # "multi"
      <4>1. PICK n : n = run.subs
        OBVIOUS
      <4>2. n \in Nat /\ N = n + 3
        BY <1>1, <2>3, <3>2, <4>1, RunNumbers DEF Width
      <4>3. {1, n + 2, N} \subseteq 1 .. N /\ \A k \in 1 .. n : k + 1 \in 1 .. N
        BY <4>2
      <4>4. /\ f[1].of = cols[1].of /\ f[n + 2].of = cols[n + 2].of /\ f[N].of = cols[N].of
            /\ \A k \in 1 .. n : f[k + 1].of = cols[k + 1].of
        BY <2>6, <4>3, Zenon
      <4>5. /\ cols[1].of = "values" /\ cols[n + 2].of = "mul" /\ cols[N].of = "times"
            /\ \A k \in 1 .. n : cols[k + 1].of = LengthName[k]
        BY <2>3, <2>5, <3>2, <4>1, Zenon DEF Named
      <4> QED
        BY <2>3, <3>2, <4>1, <4>4, <4>5, Zenon DEF Named
    <3> QED
      BY <3>1, <3>2
  <2>8. \A k \in 2 .. N - 1 : Drawn(f[k].cells)
    <3> SUFFICES ASSUME NEW k \in 2 .. N - 1 PROVE Drawn(f[k].cells)
      OBVIOUS
    <3>1. k \in 1 .. N
      BY <2>3
    <3>2. PICK x, cells : x = cols[k] /\ cells = f[k].cells
      OBVIOUS
    <3>3. OfResults(x) /\ cells = [r \in 0 .. run.samples - 1 |-> x.cells[r]]
      BY <2>5, <2>6, <3>1, <3>2
    <3>4. Drawn(cells)
      BY <1>1, <3>3, ResultsDrawn
    <3> QED
      BY <3>2, <3>4
  <2>9. Width' = N /\ Named(f)' /\ \A k \in 2 .. N - 1 : Drawn(f[k].cells)'
    BY <1>1, <2>3, <2>7, <2>8, SameRun, Zenon
  <2>10. ColumnsRight' /\ CellsRight'
    BY <2>2, <2>6, <2>9 DEF ColumnsRight, CellsRight
  <2>11. ImagesRight'
    BY <1>1 DEF ImagesRight
  <2> QED
    BY <2>10, <2>11
<1> QED
  BY <1>1, <1>2 DEF ScanInv

----------------------------------------------------------------------------
(* The images *)
LEMMA ProfilesCounted ==
    ASSUME run \in Runs
    PROVE  Scan!Cardinality({run.profiles[k] : k \in DOMAIN run.profiles}) = Len(run.profiles)
<1>1. PICK n \in Nat : n = Len(run.profiles)
  BY RunNumbers
<1>2. PICK p : p = run.profiles
  OBVIOUS
<1>3. DOMAIN p = 1 .. n /\ p = [k \in 1 .. n |-> p[k]] /\ \A j, k \in 1 .. n : p[j] = p[k] => j = k
  BY <1>1, <1>2, RunNumbers, Zenon DEF Made
<1>4. PICK S : S = {p[k] : k \in 1 .. n}
  OBVIOUS
<1>5. p \in Bijection(1 .. n, S)
  <2>1. p \in [1 .. n -> S] /\ \A t \in S : \E k \in 1 .. n : p[k] = t
    BY <1>3, <1>4
  <2>2. IsInjective(p)
    BY <1>3, Zenon DEF IsInjective
  <2> QED
    BY <2>1, <2>2 DEF Bijection, Injection, Surjection
<1>6. Cardinality(S) = n
  <2>1. ExistsBijection(1 .. n, S)
    BY <1>5 DEF ExistsBijection
  <2> QED
    BY <2>1, FS_CountingElements
<1>7. Scan!Cardinality(S) = Cardinality(S)
  BY DEF Cardinality, Scan!Cardinality
<1>8. {run.profiles[k] : k \in DOMAIN run.profiles} = S
  BY <1>2, <1>3, <1>4
<1> QED
  BY <1>1, <1>6, <1>7, <1>8, Zenon

LEMMA SearchImages ==
    ASSUME run \in Runs, run.tool = "multi", NEW n, n = Len(run.profiles), NEW P, P = Scan!Plots
    PROVE  /\ n \in Nat /\ Made(P, n + 3)
           /\ P[1] = <<"values", n + 4, 1>> /\ P[2] = <<"ll", n + 4, 2>> /\ P[3] = <<"baseline", n + 4, 3>>
           /\ \A k \in 1 .. n : P[k + 3] = <<run.profiles[k], n + 4, k + 3>>
<1>1. n \in Nat /\ DOMAIN run.profiles = 1 .. n
  BY RunNumbers
<1>2. PICK a, q : /\ a = << <<"values", n + 4, 1>>, <<"ll", n + 4, 2>>, <<"baseline", n + 4, 3>> >>
                  /\ q = [k \in 1 .. n |-> <<run.profiles[k], n + 4, k + 3>>]
  OBVIOUS
<1>3. P = Join(a, q)
  <2>1. 3 + Scan!Cardinality({run.profiles[k] : k \in DOMAIN run.profiles}) + 1 = n + 4
    BY <1>1, ProfilesCounted
  <2> QED
    BY <1>1, <1>2, <2>1 DEF Scan!Plots, Scan!SearchPlots, Join
<1>4. PICK i \in Nat : i = 3
  OBVIOUS
<1>5. Made(a, i) /\ a[1] = <<"values", n + 4, 1>> /\ a[2] = <<"ll", n + 4, 2>> /\ a[3] = <<"baseline", n + 4, 3>>
  BY <1>2, <1>4 DEF Made
<1>6. Made(q, n) /\ \A k \in 1 .. n : q[k] = <<run.profiles[k], n + 4, k + 3>>
  BY <1>2 DEF Made
<1>7. /\ Made(Join(a, q), i + n)
      /\ \A k \in 1 .. i : Join(a, q)[k] = a[k]
      /\ \A k \in 1 .. n : Join(a, q)[k + i] = q[k]
  BY <1>1, <1>5, <1>6, JoinedMade
<1>8. /\ Made(P, 3 + n)
      /\ \A k \in 1 .. 3 : P[k] = a[k]
      /\ \A k \in 1 .. n : P[k + 3] = q[k]
  BY <1>3, <1>4, <1>7, Zenon
<1>9. 3 + n = n + 3 /\ P[1] = a[1] /\ P[2] = a[2] /\ P[3] = a[3]
  BY <1>1, <1>8
<1> QED
  BY <1>1, <1>5, <1>6, <1>8, <1>9, Zenon

LEMMA BitmapImages ==
    ASSUME run \in Runs, run.tool # "multi", NEW n, n = run.subs, NEW P, P = Scan!Plots
    PROVE  /\ n \in Nat /\ Made(P, n + 2)
           /\ P[1] = <<"values", n + 3, 1>> /\ P[2] = <<"mul", n + 3, n + 2>>
           /\ \A k \in 1 .. n : P[k + 2] = <<LengthName[k], n + 3, k + 1>>
<1>1. n \in Nat
  BY RunNumbers
<1>2. PICK a, q : /\ a = << <<"values", n + 3, 1>>, <<"mul", n + 3, n + 2>> >>
                  /\ q = [k \in 1 .. n |-> <<LengthName[k], n + 3, k + 1>>]
  OBVIOUS
<1>3. P = Join(a, q)
  BY <1>1, <1>2 DEF Scan!Plots, Scan!BitmapPlots, Join
<1>4. PICK i \in Nat : i = 2
  OBVIOUS
<1>5. Made(a, i) /\ a[1] = <<"values", n + 3, 1>> /\ a[2] = <<"mul", n + 3, n + 2>>
  BY <1>2, <1>4 DEF Made
<1>6. Made(q, n) /\ \A k \in 1 .. n : q[k] = <<LengthName[k], n + 3, k + 1>>
  BY <1>2 DEF Made
<1>7. /\ Made(Join(a, q), i + n)
      /\ \A k \in 1 .. i : Join(a, q)[k] = a[k]
      /\ \A k \in 1 .. n : Join(a, q)[k + i] = q[k]
  BY <1>1, <1>5, <1>6, JoinedMade
<1>8. /\ Made(P, 2 + n)
      /\ \A k \in 1 .. 2 : P[k] = a[k]
      /\ \A k \in 1 .. n : P[k + 2] = q[k]
  BY <1>3, <1>4, <1>7, Zenon
<1>9. 2 + n = n + 2 /\ P[1] = a[1] /\ P[2] = a[2]
  BY <1>1, <1>8
<1> QED
  BY <1>1, <1>5, <1>6, <1>8, <1>9, Zenon

(* Each image is drawn over the time from the column of its name, which    *)
(* the file has, and none that is pictured is left out.                    *)
LEMMA ImagesFit ==
    ASSUME run \in Runs, NEW P, P = Scan!Plots, NEW f, Named(f)
    PROVE  /\ Width \in Nat /\ DOMAIN P = 1 .. Width - 1
           /\ \A k \in 1 .. Width - 1 : /\ P[k][2] \in 1 .. Width /\ P[k][3] \in 1 .. Width
                                         /\ f[P[k][2]].of = "times" /\ f[P[k][3]].of = P[k][1]
                                         /\ P[k][1] \in Pictured(run)
           /\ \A p \in Pictured(run) : \E k \in 1 .. Width - 1 : P[k][1] = p
<1>1. CASE run.tool = "multi"
  <2>1. PICK n : n = Len(run.profiles)
    OBVIOUS
  <2>2. /\ n \in Nat /\ Made(P, n + 3)
        /\ P[1] = <<"values", n + 4, 1>> /\ P[2] = <<"ll", n + 4, 2>> /\ P[3] = <<"baseline", n + 4, 3>>
        /\ \A k \in 1 .. n : P[k + 3] = <<run.profiles[k], n + 4, k + 3>>
    BY <1>1, <2>1, SearchImages
  <2>3. PICK N : N = n + 4
    OBVIOUS
  <2>4. Width = N /\ N \in Nat /\ N - 1 = n + 3
    BY <1>1, <2>1, <2>2, <2>3 DEF Width
  <2>5. DOMAIN P = 1 .. N - 1
    BY <2>2, <2>4 DEF Made
  <2>6. /\ f[1].of = "values" /\ f[2].of = "ll" /\ f[3].of = "baseline" /\ f[N].of = "times"
        /\ \A k \in 1 .. n : f[k + 3].of = run.profiles[k]
    BY <1>1, <2>1, <2>4, Zenon DEF Named
  <2>7. Pictured(run) = {"values", "ll", "baseline"} \cup {run.profiles[k] : k \in 1 .. n}
    BY <1>1, <2>1 DEF Pictured
  <2>8. ASSUME NEW k \in 1 .. N - 1
        PROVE  /\ P[k][2] \in 1 .. N /\ P[k][3] \in 1 .. N
               /\ f[P[k][2]].of = "times" /\ f[P[k][3]].of = P[k][1]
               /\ P[k][1] \in Pictured(run)
    <3>1. k = 1 \/ k = 2 \/ k = 3 \/ (k - 3 \in 1 .. n /\ (k - 3) + 3 = k)
      BY <2>2, <2>4
    <3>2. CASE k \in {1, 2, 3}
      BY <2>2, <2>3, <2>6, <2>7, <3>2
    <3>3. CASE k - 3 \in 1 .. n /\ (k - 3) + 3 = k
      <4>1. PICK j \in 1 .. n : k = j + 3
        BY <3>3
      <4>2. P[k] = <<run.profiles[j], N, k>> /\ f[k].of = run.profiles[j]
        BY <2>2, <2>3, <2>6, <4>1
      <4> QED
        BY <2>2, <2>3, <2>6, <2>7, <4>1, <4>2
    <3> QED
      BY <3>1, <3>2, <3>3
  <2>9. ASSUME NEW p \in Pictured(run) PROVE \E k \in 1 .. N - 1 : P[k][1] = p
    <3>1. 1 \in 1 .. N - 1 /\ 2 \in 1 .. N - 1 /\ 3 \in 1 .. N - 1 /\ \A k \in 1 .. n : k + 3 \in 1 .. N - 1
      BY <2>2, <2>3
    <3>2. P[1][1] = "values" /\ P[2][1] = "ll" /\ P[3][1] = "baseline" /\ \A k \in 1 .. n : P[k + 3][1] = run.profiles[k]
      BY <2>2
    <3> QED
      BY <2>7, <3>1, <3>2
  <2> QED
    BY <2>4, <2>5, <2>8, <2>9, Zenon
<1>2. CASE run.tool # "multi"
  <2>1. PICK n : n = run.subs
    OBVIOUS
  <2>2. /\ n \in Nat /\ Made(P, n + 2)
        /\ P[1] = <<"values", n + 3, 1>> /\ P[2] = <<"mul", n + 3, n + 2>>
        /\ \A k \in 1 .. n : P[k + 2] = <<LengthName[k], n + 3, k + 1>>
    BY <1>2, <2>1, BitmapImages
  <2>3. PICK N : N = n + 3
    OBVIOUS
  <2>4. Width = N /\ N \in Nat /\ N - 1 = n + 2
    BY <1>2, <2>1, <2>2, <2>3 DEF Width
  <2>5. DOMAIN P = 1 .. N - 1
    BY <2>2, <2>4 DEF Made
  <2>6. /\ f[1].of = "values" /\ f[n + 2].of = "mul" /\ f[N].of = "times"
        /\ \A k \in 1 .. n : f[k + 1].of = LengthName[k]
    BY <1>2, <2>1, <2>4, Zenon DEF Named
  <2>7. Pictured(run) = {"values", "mul"} \cup {LengthName[k] : k \in 1 .. n}
    BY <1>2, <2>1 DEF Pictured
  <2>8. ASSUME NEW k \in 1 .. N - 1
        PROVE  /\ P[k][2] \in 1 .. N /\ P[k][3] \in 1 .. N
               /\ f[P[k][2]].of = "times" /\ f[P[k][3]].of = P[k][1]
               /\ P[k][1] \in Pictured(run)
    <3>1. k = 1 \/ k = 2 \/ (k - 2 \in 1 .. n /\ (k - 2) + 2 = k)
      BY <2>2, <2>4
    <3>2. CASE k \in {1, 2}
      BY <2>2, <2>3, <2>6, <2>7, <3>2
    <3>3. CASE k - 2 \in 1 .. n /\ (k - 2) + 2 = k
      <4>1. PICK j \in 1 .. n : k = j + 2
        BY <3>3
      <4>2. P[k] = <<LengthName[j], N, j + 1>> /\ f[j + 1].of = LengthName[j]
        BY <2>2, <2>3, <2>6, <4>1
      <4> QED
        BY <2>2, <2>3, <2>6, <2>7, <4>1, <4>2
    <3> QED
      BY <3>1, <3>2, <3>3
  <2>9. ASSUME NEW p \in Pictured(run) PROVE \E k \in 1 .. N - 1 : P[k][1] = p
    <3>1. 1 \in 1 .. N - 1 /\ 2 \in 1 .. N - 1 /\ \A k \in 1 .. n : k + 2 \in 1 .. N - 1
      BY <2>2, <2>3
    <3>2. P[1][1] = "values" /\ P[2][1] = "mul" /\ \A k \in 1 .. n : P[k + 2][1] = LengthName[k]
      BY <2>2
    <3> QED
      BY <2>7, <3>1, <3>2
  <2> QED
    BY <2>4, <2>5, <2>8, <2>9, Zenon
<1> QED
  BY <1>1, <1>2

LEMMA ScanPlotKeeps == ScanInv /\ Scan!Plot => ScanInv'
<1> SUFFICES ASSUME ScanInv, Scan!Plot PROVE ScanInv'
  OBVIOUS
<1>1. /\ run \in Runs /\ run' = run /\ file' = file /\ dumped' = dumped /\ pc = "plot" /\ images = <<>>
      /\ pc' \in {"sync", "convert", "exit"}
      /\ dumped => ColumnsRight /\ CellsRight
  BY DEF ScanInv, Scan!Plot
<1>2. ASSUME dumped PROVE ColumnsRight' /\ CellsRight'
  BY <1>1, <1>2, SameRun
<1>3. ASSUME dumped, pc' = "exit" PROVE ImagesRight'
  <2>1. images' = <<>>
    BY <1>1, <1>3 DEF Scan!Plot
  <2> QED
    BY <1>3, <2>1 DEF ImagesRight
<1>4. ASSUME dumped, pc' # "exit" PROVE ImagesRight'
  <2>1. PICK P : P = Scan!Plots
    OBVIOUS
  <2>2. PICK N : N = Width
    OBVIOUS
  <2>3. Made(file, N) /\ Named(file)
    BY <1>1, <1>4, <2>2 DEF ColumnsRight
  <2>4. /\ N \in Nat /\ DOMAIN P = 1 .. N - 1
        /\ \A k \in 1 .. N - 1 : /\ P[k][2] \in 1 .. N /\ P[k][3] \in 1 .. N
                                 /\ file[P[k][2]].of = "times" /\ file[P[k][3]].of = P[k][1]
                                 /\ P[k][1] \in Pictured(run)
        /\ \A p \in Pictured(run) : \E k \in 1 .. N - 1 : P[k][1] = p
    <3>1. /\ Width \in Nat /\ DOMAIN P = 1 .. Width - 1
          /\ \A k \in 1 .. Width - 1 : /\ P[k][2] \in 1 .. Width /\ P[k][3] \in 1 .. Width
                                        /\ file[P[k][2]].of = "times" /\ file[P[k][3]].of = P[k][1]
                                        /\ P[k][1] \in Pictured(run)
          /\ \A p \in Pictured(run) : \E k \in 1 .. Width - 1 : P[k][1] = p
      BY <1>1, <2>1, <2>3, ImagesFit
    <3> QED
      BY <2>2, <3>1, Zenon
  <2> DEFINE all == {k \in DOMAIN P : \A j \in 1 .. k : Scan!HasColumns(P[j])}
  <2>5. all = 1 .. N - 1
    <3>1. DOMAIN file = 1 .. N
      BY <2>3 DEF Made
    <3>2. \A j \in 1 .. N - 1 : Scan!HasColumns(P[j])
      BY <2>4, <3>1, Zenon DEF Scan!HasColumns
    <3>3. \A k \in 1 .. N - 1 : \A j \in 1 .. k : j \in 1 .. N - 1
      <4>1. N \in Nat
        BY <2>4
      <4> QED
        BY <4>1
    <3>4. DOMAIN P = 1 .. N - 1
      BY <2>4
    <3> QED
      BY <3>2, <3>3, <3>4, Zenon
  <2>6. images' = [p \in {P[k][1] : k \in all} |->
                      LET k == CHOOSE j \in all : P[j][1] = p
                      IN  [x |-> file[P[k][2]], y |-> file[P[k][3]]]]
    <3>1. images' = LET drawn == {k \in DOMAIN Scan!Plots : \A j \in 1 .. k : Scan!HasColumns(Scan!Plots[j])}
                    IN  [p \in {Scan!Plots[k][1] : k \in drawn} |->
                            LET k == CHOOSE j \in drawn : Scan!Plots[j][1] = p
                            IN  [x |-> file[Scan!Plots[k][2]], y |-> file[Scan!Plots[k][3]]]]
      BY <1>1, <1>4, Zenon DEF Scan!Plot
    <3> QED
      BY <2>1, <3>1
  <2> HIDE DEF all
  <2> DEFINE at(p) == CHOOSE j \in 1 .. N - 1 : P[j][1] = p
  <2>7. images' = [p \in {P[k][1] : k \in 1 .. N - 1} |-> [x |-> file[P[at(p)][2]], y |-> file[P[at(p)][3]]]]
    BY <2>5, <2>6
  <2>8. {P[k][1] : k \in 1 .. N - 1} = Pictured(run)
    <3>1. \A p : (\E k \in 1 .. N - 1 : P[k][1] = p) <=> p \in Pictured(run)
      BY <2>4, Zenon
    <3> QED
      BY <3>1
  <2>9. \A p \in Pictured(run) : at(p) \in 1 .. N - 1 /\ P[at(p)][1] = p
    <3> SUFFICES ASSUME NEW p \in Pictured(run) PROVE at(p) \in 1 .. N - 1 /\ P[at(p)][1] = p
      OBVIOUS
    <3>1. \E j \in 1 .. N - 1 : P[j][1] = p
      BY <2>4, Zenon
    <3> QED
      BY <3>1, Zenon
  <2> HIDE DEF at
  <2>10. PICK I : I = images'
    OBVIOUS
  <2>11. DOMAIN I = Pictured(run) /\ \A p \in Pictured(run) : I[p].x = file[P[at(p)][2]] /\ I[p].y = file[P[at(p)][3]]
    BY <2>7, <2>8, <2>10
  <2>12. \A p \in Pictured(run) : I[p].x.of = "times" /\ I[p].y.of = p
    <3> SUFFICES ASSUME NEW p \in Pictured(run) PROVE I[p].x.of = "times" /\ I[p].y.of = p
      OBVIOUS
    <3>1. PICK a : a = at(p)
      OBVIOUS
    <3>2. a \in 1 .. N - 1 /\ P[a][1] = p /\ I[p].x = file[P[a][2]] /\ I[p].y = file[P[a][3]]
      BY <2>9, <2>11, <3>1, Zenon
    <3>3. file[P[a][2]].of = "times" /\ file[P[a][3]].of = P[a][1]
      BY <2>4, <3>2, Zenon
    <3> QED
      BY <3>2, <3>3
  <2>13. run' = run
    BY <1>1
  <2> QED
    BY <2>10, <2>11, <2>12, <2>13 DEF ImagesRight
<1>5. dumped' => ColumnsRight' /\ CellsRight' /\ ImagesRight'
  BY <1>1, <1>2, <1>3, <1>4
<1> QED
  BY <1>1, <1>5 DEF ScanInv

LEMMA ScanEndKeeps == ScanInv /\ (Scan!Sync \/ Scan!Convert) => ScanInv'
<1> SUFFICES ASSUME ScanInv, Scan!Sync \/ Scan!Convert PROVE ScanInv'
  OBVIOUS
<1>1. /\ run \in Runs /\ run' = run /\ file' = file /\ dumped' = dumped /\ images' = images
      /\ pc \in {"sync", "convert"} /\ pc' \in {"convert", "end", "panic"}
      /\ dumped => ColumnsRight /\ CellsRight /\ ImagesRight
      /\ pc' = "end" => montage' = images'
  BY DEF ScanInv, Scan!Sync, Scan!Convert
<1>2. dumped' => ColumnsRight' /\ CellsRight'
  BY <1>1, SameRun
<1>3. dumped' => ImagesRight'
  BY <1>1 DEF ImagesRight
<1> QED
  BY <1>1, <1>2, <1>3 DEF ScanInv

LEMMA ScanIdle == ScanInv /\ UNCHANGED Scan!vars => ScanInv'
<1> SUFFICES ASSUME ScanInv, UNCHANGED Scan!vars PROVE ScanInv'
  OBVIOUS
<1>1. /\ run' = run /\ file' = file /\ dumped' = dumped /\ images' = images /\ pc' = pc /\ stored' = stored
      /\ montage' = montage
  BY DEF Scan!vars
<1>2. /\ ColumnsRight' <=> ColumnsRight
      /\ CellsRight' <=> CellsRight
      /\ RowsRight' <=> RowsRight
  BY <1>1, SameRun
<1>3. ImagesRight' <=> ImagesRight
  BY <1>1 DEF ImagesRight
<1> QED
  BY <1>1, <1>2, <1>3 DEF ScanInv

LEMMA ScanStays == ScanInv /\ [Scan!Next]_(Scan!vars) => ScanInv'
  BY GatherKeeps, ScanDumpKeeps, ScanPlotKeeps, ScanEndKeeps, ScanIdle DEF Scan!Next

LEMMA ScanShows == ScanInv => Scan!PicturesShowTheirAnalysis
<1> SUFFICES ASSUME ScanInv PROVE Scan!PicturesShowTheirAnalysis
  OBVIOUS
<1>1. run \in Runs
  BY DEF ScanInv
<1>2. ASSUME dumped PROVE \A p \in DOMAIN images : images[p].x.of = "times" /\ images[p].y.of = p
  BY <1>2 DEF ScanInv, ImagesRight
<1>3. ASSUME dumped, pc = "end" PROVE DOMAIN montage = {Scan!Plots[k][1] : k \in DOMAIN Scan!Plots}
  <2>1. DOMAIN montage = Pictured(run) /\ Named(file)
    BY <1>3 DEF ScanInv, ImagesRight, ColumnsRight
  <2>2. PICK P : P = Scan!Plots
    OBVIOUS
  <2>3. /\ DOMAIN P = 1 .. Width - 1
        /\ \A k \in 1 .. Width - 1 : P[k][1] \in Pictured(run)
        /\ \A p \in Pictured(run) : \E k \in 1 .. Width - 1 : P[k][1] = p
    BY <1>1, <2>1, <2>2, ImagesFit
  <2>4. {P[k][1] : k \in DOMAIN P} = Pictured(run)
    <3>1. \A p : (\E k \in DOMAIN P : P[k][1] = p) <=> p \in Pictured(run)
      BY <2>3, Zenon
    <3> QED
      BY <3>1
  <2> QED
    BY <2>1, <2>2, <2>4
<1>4. ASSUME NEW p \in DOMAIN images, images[p].y.of = "old", dumped PROVE FALSE
  <2>1. p = "old" /\ p \in Pictured(run)
    BY <1>4 DEF ScanInv, ImagesRight
  <2>2. \A q \in Pictured(run) : q # "old"
    <3>1. /\ \A k \in 1 .. Len(run.profiles) : run.profiles[k] \notin {"old", "ll", "baseline"}
          /\ \A k \in 1 .. run.subs : LengthName[k] # "old"
      BY <1>1, RunNumbers, Zenon
    <3>2. CASE run.tool = "multi"
      BY <3>1, <3>2 DEF Pictured
    <3>3. CASE run.tool # "multi"
      BY <3>1, <3>3 DEF Pictured
    <3> QED
      BY <3>2, <3>3
  <2> QED
    BY <2>1, <2>2
<1> QED
  BY <1>2, <1>3, <1>4 DEF Scan!PicturesShowTheirAnalysis

LEMMA ScanStored == ScanInv => Scan!StoredWithinTheirWindow
<1> SUFFICES ASSUME ScanInv, dumped
             PROVE  \A k \in 2 .. Len(file) - 1 : Drawn(file[k].cells)
  BY DEF Scan!StoredWithinTheirWindow, Drawn
<1>1. ColumnsRight /\ CellsRight /\ run \in Runs
  BY DEF ScanInv
<1>2. Len(file) = Width
  <2>1. PICK N \in Nat : N = Width
    BY <1>1, DumpFits
  <2>2. file = [k \in 1 .. N |-> file[k]]
    BY <1>1, <2>1 DEF ColumnsRight, Made
  <2>3. PICK S : S = {file[k] : k \in 1 .. N}
    OBVIOUS
  <2>4. \A k \in 1 .. N : file[k] \in S
    BY <2>3
  <2>5. Len(file) = N
    BY <2>2, <2>4, MadeSequence
  <2> QED
    BY <2>1, <2>5
<1> QED
  BY <1>1, <1>2 DEF CellsRight

----------------------------------------------------------------------------
(* The tools together: only the variables of the one that runs change.     *)
ReportsInv == /\ Reports("hosts") => HostInv
              /\ Reports("properties") => PairInv
              /\ Reports("scan") => ScanInv

LEMMA ReportsStart == ReportsInit => ReportsInv
<1> SUFFICES ASSUME ReportsInit PROVE ReportsInv
  OBVIOUS
<1>1. "hosts" # "properties" /\ "hosts" # "scan" /\ "properties" # "scan"
  OBVIOUS
<1>2. CASE Reports("hosts") /\ Init
  BY <1>1, <1>2, InitHosts DEF ReportsInv, Reports
<1>3. CASE Reports("properties") /\ Property!Init
  BY <1>1, <1>3, InitPairs DEF ReportsInv, Reports
<1>4. CASE Reports("scan") /\ Scan!Init
  BY <1>1, <1>4, InitScan DEF ReportsInv, Reports
<1> QED
  BY <1>2, <1>3, <1>4, Zenon DEF ReportsInit

LEMMA ReportsStay == ReportsInv /\ [ReportsNext]_allVars => ReportsInv'
<1> SUFFICES ASSUME ReportsInv, [ReportsNext]_allVars PROVE ReportsInv'
  OBVIOUS
<1>1. "hosts" # "properties" /\ "hosts" # "scan" /\ "properties" # "scan"
  OBVIOUS
<1>2. tool' = tool
  BY DEF ReportsNext, allVars
<1>3. ASSUME Reports("hosts") PROVE HostInv'
  <2>1. [Next]_vars
    BY <1>1, <1>3 DEF ReportsNext, Reports, allVars, ofHosts, ofPages, vars, files
  <2> QED
    BY <1>3, <2>1, HostStays, Zenon DEF ReportsInv
<1>4. ASSUME Reports("properties") PROVE PairInv'
  <2>1. [Property!Next]_(Property!vars)
    BY <1>1, <1>4 DEF ReportsNext, Reports, allVars, ofPages, ofProperty, Property!vars
  <2> QED
    BY <1>4, <2>1, PairsStay, Zenon DEF ReportsInv
<1>5. ASSUME Reports("scan") PROVE ScanInv'
  <2>1. [Scan!Next]_(Scan!vars)
    BY <1>1, <1>5 DEF ReportsNext, Reports, allVars, ofScan, Scan!vars
  <2> QED
    BY <1>5, <2>1, ScanStays, Zenon DEF ReportsInv
<1> QED
  BY <1>2, <1>3, <1>4, <1>5 DEF ReportsInv, Reports

LEMMA ReportsInvariant == ReportsSpec => []ReportsInv
  BY ReportsStart, ReportsStay, PTL DEF ReportsSpec

(* anomaly_check_prop.go:202: what a host's page shows was drawn from the  *)
(* column of its own name, or from the file of before where this run's     *)
(* could not be written; only a property whose plot failed may have its    *)
(* image of before.  So for any hosts, properties and profiles.            *)
THEOREM HostPlotsEver == ReportsSpec => []HostPlotsShowTheirColumns
<1>1. ReportsInv => HostPlotsShowTheirColumns
  BY HostShows, Zenon DEF ReportsInv, HostPlotsShowTheirColumns
<1> QED
  BY <1>1, ReportsInvariant, PTL

(* anomaly_check_prop.go:113: a page plots baselines of its own host only, *)
(* and no property twice.                                                  *)
THEOREM HostPagesEver == ReportsSpec => []HostPagesAreTheirOwn
<1>1. ReportsInv => HostPagesAreTheirOwn
  BY HostOwns, Zenon DEF ReportsInv, HostPagesAreTheirOwn
<1> QED
  BY <1>1, ReportsInvariant, PTL

(* anomaly_check.go:169: an image on the page of a pair was drawn from the *)
(* columns of its name of that pair's file, or, where the file could not   *)
(* be written, of the file that was there before.                          *)
THEOREM ImagesEver == ReportsSpec => []ImagesAreOfTheirRun
<1>1. ReportsInv => ImagesAreOfTheirRun
  BY PairsShow, Zenon DEF ReportsInv, ImagesAreOfTheirRun
<1> QED
  BY <1>1, ReportsInvariant, PTL

(* multi_search.go:274: an image shows the analysis of its name over the   *)
(* time, a montage has every image, and none shows the file of an earlier  *)
(* run once this run has written its own.                                  *)
THEOREM PicturesEver == ReportsSpec => []PicturesShowTheirAnalysis
<1>1. ReportsInv => PicturesShowTheirAnalysis
  BY ScanShows, Zenon DEF ReportsInv, PicturesShowTheirAnalysis
<1> QED
  BY <1>1, ReportsInvariant, PTL

(* multi_search.go:21: whatever the words and the windows, a result is     *)
(* drawn at a sample of its own lead window, and none is lost.             *)
THEOREM StoredEver == ReportsSpec => []StoredWithinTheirWindow
<1>1. ReportsInv => StoredWithinTheirWindow
  BY ScanStored, Zenon DEF ReportsInv, StoredWithinTheirWindow
<1> QED
  BY <1>1, ReportsInvariant, PTL
================================================================================
