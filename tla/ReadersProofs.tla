---------------------------- MODULE ReadersProofs ----------------------------
(***************************************************************************)
(* Proofs about the readers of files, for files of any length and fields   *)
(* of any size.  A reader is shown to have read what stands at some places *)
(* of its file, in their order (Selections); each line or word read adds a *)
(* place behind the others, and an invariant says what was made of them.   *)
(*                                                                         *)
(*   CommandsInv        config.c: the slots that count hold the complete   *)
(*                      command lines, and the last line for a setting     *)
(*                      has given it.                                      *)
(*   SplitInv, SaxInv   nsutil.go: the lines and the tokens before the     *)
(*                      place of the reader are those of the file, and the *)
(*                      options are what the lines taken so far give.      *)
(*   PairsInv, DataInv  saxutil.go, scomp_local.go: twice as many words    *)
(*                      stand before the place of the reader as it has     *)
(*                      pairs.                                             *)
(***************************************************************************)
EXTENDS Readers, NaturalsInduction, WellFoundedInduction, FiniteSetTheorems, SequenceTheorems, TLAPS

(* Induction over the natural numbers, for a set of them. *)
LEMMA NaturalsFrom ==
    ASSUME NEW A, 0 \in A, \A n \in Nat : n \in A => n + 1 \in A PROVE \A n \in Nat : n \in A
<1> DEFINE Below == {p \in Nat \X Nat : p[1] < p[2]}
           T == {n \in Nat : n \notin A}
<1>1. IsWellFoundedOn(Below, Nat)
  BY NatLessThanWellFounded, Zenon DEF OpToRel
<1>2. SUFFICES ASSUME T # {} PROVE FALSE
  OBVIOUS
<1>3. T \subseteq Nat
  OBVIOUS
<1>4. PICK x \in T : \A y \in T : ~ (<<y, x>> \in Below)
  <2> HIDE DEF T, Below
  <2> QED
    BY <1>1, <1>2, <1>3, WFMin, Zenon
<1>5. x \in Nat /\ x # 0
  OBVIOUS
<1>6. x - 1 \in Nat /\ x - 1 < x
  BY <1>5
<1>7. <<x - 1, x>> \in Below
  BY <1>5, <1>6
<1>8. x - 1 \in A
  BY <1>4, <1>6, <1>7
<1>9. (x - 1) + 1 = x
  BY <1>5
<1> QED
  BY <1>5, <1>6, <1>8, <1>9

(* Of numbers from k on there is a first. *)
LEMMA FirstFrom ==
    ASSUME NEW k \in Int, NEW S \in SUBSET Int, NEW n \in S, k <= n, \A m \in S : k <= m
    PROVE  \E f \in S : \A m \in S : f <= m
<1> DEFINE A == {d \in Nat : (\E m \in S : m <= k + d) => \E f \in S : \A m \in S : f <= m}
<1>1. 0 \in A
  <2> SUFFICES ASSUME NEW f \in S, f <= k PROVE \A m \in S : f <= m
    OBVIOUS
  <2> QED
    OBVIOUS
<1>2. ASSUME NEW d \in Nat, d \in A PROVE d + 1 \in A
  <2> SUFFICES ASSUME NEW f \in S, f <= k + (d + 1) PROVE \E g \in S : \A m \in S : g <= m
    OBVIOUS
  <2>1. CASE \E m \in S : m <= k + d
    BY <1>2, <2>1
  <2>2. CASE \A m \in S : ~ (m <= k + d)
    <3>1. \A m \in S : f <= m
      BY <2>2
    <3> QED
      BY <3>1
  <2> QED
    BY <2>1, <2>2
<1>3. \A d \in Nat : d \in A
  <2> HIDE DEF A
  <2> QED
    BY <1>1, <1>2, NaturalsFrom
<1>4. n - k \in Nat /\ n <= k + (n - k)
  OBVIOUS
<1> QED
  BY <1>3, <1>4

----------------------------------------------------------------------------
(* Selections: what stands at some places, in order. *)

UpToPlace(places, p) == {q \in places : q <= p}

(* The number of a place is that of no other. *)
LEMMA PlaceNumbers ==
    ASSUME NEW P \in SUBSET Int, IsFiniteSet(P), NEW p \in P
    PROVE  /\ IsFiniteSet(UpToPlace(P, p)) /\ Cardinality(UpToPlace(P, p)) \in 1 .. Cardinality(P)
           /\ \A q \in P : Cardinality(UpToPlace(P, q)) = Cardinality(UpToPlace(P, p)) => q = p
<1>1. \A q : UpToPlace(P, q) \in SUBSET P
  BY DEF UpToPlace
<1>2. \A q : IsFiniteSet(UpToPlace(P, q)) /\ Cardinality(UpToPlace(P, q)) \in Nat
             /\ Cardinality(UpToPlace(P, q)) <= Cardinality(P)
  BY <1>1, FS_Subset, FS_CardinalityType
<1>3. Cardinality(UpToPlace(P, p)) # 0
  <2>1. p \in UpToPlace(P, p)
    BY DEF UpToPlace
  <2> QED
    BY <1>2, <2>1, FS_EmptySet
<1>4. ASSUME NEW q \in P, NEW r \in P, q < r
      PROVE  Cardinality(UpToPlace(P, q)) # Cardinality(UpToPlace(P, r))
  <2>1. UpToPlace(P, q) \subseteq UpToPlace(P, r) /\ r \in UpToPlace(P, r) /\ r \notin UpToPlace(P, q)
    <3>1. q \in Int /\ r \in Int /\ \A x \in P : x \in Int
      OBVIOUS
    <3>2. \A x \in UpToPlace(P, q) : x \in UpToPlace(P, r)
      BY <1>4, <3>1 DEF UpToPlace
    <3>3. r <= r /\ ~ (r <= q)
      BY <1>4, <3>1
    <3> QED
      BY <3>2, <3>3 DEF UpToPlace
  <2> QED
    BY <1>2, <2>1, FS_Subset
<1>5. Cardinality(P) \in Nat
  BY FS_CardinalityType
<1> QED
  BY <1>2, <1>3, <1>4, <1>5

(* What stands at a place is the element of its number. *)
LEMMA ElementOfPlace ==
    ASSUME NEW s, NEW P \in SUBSET Int, IsFiniteSet(P), NEW p \in P
    PROVE  ElementsAt(s, P)[Cardinality(UpToPlace(P, p))] = s[p]
<1> DEFINE m == Cardinality(UpToPlace(P, p))
           x == CHOOSE q \in P : Cardinality({r \in P : r <= q}) = m
<1>1. m \in 1 .. Cardinality(P) /\ \A q \in P : Cardinality(UpToPlace(P, q)) = m => q = p
  BY PlaceNumbers
<1>2. \E q \in P : Cardinality({r \in P : r <= q}) = m
  BY DEF UpToPlace
<1>3. x = p
  BY <1>1, <1>2 DEF UpToPlace
<1>4. ElementsAt(s, P)[m] = s[x]
  BY <1>1 DEF ElementsAt
<1> QED
  BY <1>3, <1>4

LEMMA ElementsLength ==
    ASSUME NEW s, NEW P, IsFiniteSet(P)
    PROVE  Len(ElementsAt(s, P)) = Cardinality(P) /\ Cardinality(P) \in Nat /\ DOMAIN ElementsAt(s, P) = 1 .. Cardinality(P)
           /\ (P = {} => ElementsAt(s, P) = <<>>)
<1>1. Cardinality(P) \in Nat /\ (P = {} => Cardinality(P) = 0)
  BY FS_CardinalityType, FS_EmptySet
<1> DEFINE f == ElementsAt(s, P)
<1>2. f = [m \in 1 .. Cardinality(P) |-> f[m]]
  BY DEF ElementsAt
<1> HIDE DEF f
<1>3. Len(f) = Cardinality(P) /\ DOMAIN f = 1 .. Cardinality(P)
  BY <1>1, <1>2
<1>4. P = {} => f = <<>>
  BY <1>1, <1>2
<1> QED
  BY <1>1, <1>3, <1>4 DEF f

(* A place behind the others adds an element. *)
LEMMA OneMorePlace ==
    ASSUME NEW s, NEW P \in SUBSET Int, IsFiniteSet(P), NEW n \in Int, \A p \in P : p < n
    PROVE  /\ IsFiniteSet(P \cup {n}) /\ Cardinality(P \cup {n}) = Cardinality(P) + 1
           /\ \A m \in 1 .. Cardinality(P) : ElementsAt(s, P \cup {n})[m] = ElementsAt(s, P)[m]
           /\ ElementsAt(s, P \cup {n})[Cardinality(P) + 1] = s[n]
<1> DEFINE Q == P \cup {n}
<1>1. n \notin P /\ IsFiniteSet(Q) /\ Cardinality(Q) = Cardinality(P) + 1 /\ Cardinality(P) \in Nat
  BY FS_AddElement, FS_CardinalityType
<1>2. UpToPlace(Q, n) = Q
  <2>1. \A q \in Q : q <= n
    BY SMT
  <2> HIDE DEF Q
  <2> QED
    BY <2>1 DEF UpToPlace
<1>3. \A p \in P : UpToPlace(Q, p) = UpToPlace(P, p)
  BY DEF UpToPlace
<1>4. ElementsAt(s, Q)[Cardinality(P) + 1] = s[n]
  <2>1. Q \in SUBSET Int /\ n \in Q
    OBVIOUS
  <2> HIDE DEF Q
  <2>2. ElementsAt(s, Q)[Cardinality(UpToPlace(Q, n))] = s[n]
    BY <1>1, <2>1, ElementOfPlace
  <2> QED
    BY <1>1, <1>2, <2>2
<1>5. ASSUME NEW m \in 1 .. Cardinality(P) PROVE ElementsAt(s, Q)[m] = ElementsAt(s, P)[m]
  <2>1. \A q : (q \in Q /\ Cardinality({r \in Q : r <= q}) = m) <=> (q \in P /\ Cardinality({r \in P : r <= q}) = m)
    <3>1. Cardinality({r \in Q : r <= n}) # m
      BY <1>1, <1>2 DEF UpToPlace
    <3> QED
      BY <1>3, <3>1 DEF UpToPlace
  <2>2. (CHOOSE q \in Q : Cardinality({r \in Q : r <= q}) = m) = CHOOSE q \in P : Cardinality({r \in P : r <= q}) = m
    BY <2>1, Zenon
  <2>3. m \in 1 .. Cardinality(Q)
    BY <1>1
  <2> HIDE DEF Q
  <2>4. ElementsAt(s, Q)[m] = s[CHOOSE q \in Q : Cardinality({r \in Q : r <= q}) = m]
    BY <2>3, Zenon DEF ElementsAt
  <2>5. ElementsAt(s, P)[m] = s[CHOOSE q \in P : Cardinality({r \in P : r <= q}) = m]
    BY Zenon DEF ElementsAt
  <2> QED
    BY <2>2, <2>4, <2>5, Zenon
<1> QED
  BY <1>1, <1>4, <1>5

(* A sequence, whatever it is of, and one that is longer by an element. *)
IsArray(c) == Len(c) \in Nat /\ c = [n \in 1 .. Len(c) |-> c[n]]

IsLonger(d, c, x) ==
    IsArray(d) /\ Len(d) = Len(c) + 1 /\ d[Len(c) + 1] = x /\ \A n \in 1 .. Len(c) : d[n] = c[n]

LEMMA AppendArray ==
    ASSUME NEW c, IsArray(c), NEW x, NEW d, d = Append(c, x) PROVE IsLonger(d, c, x)
<1> DEFINE R == {c[n] : n \in 1 .. Len(c)} \cup {x}
<1>1. Len(c) \in Nat /\ c = [n \in 1 .. Len(c) |-> c[n]]
  BY DEF IsArray
<1>2. \A b \in Nat : \A h \in [1 .. b -> R] : h \in Seq(R) /\ Len(h) = b
  OBVIOUS
<1>3. c \in [1 .. Len(c) -> R] /\ x \in R
  BY <1>1
<1> HIDE DEF R
<1>4. c \in Seq(R)
  BY <1>1, <1>2, <1>3
<1>5. d \in Seq(R) /\ Len(d) = Len(c) + 1 /\ d[Len(c) + 1] = x /\ \A n \in 1 .. Len(c) : d[n] = c[n]
  BY <1>3, <1>4
<1>6. \A g \in Seq(R) : IsArray(g)
  BY DEF IsArray
<1> QED
  BY <1>5, <1>6 DEF IsLonger

----------------------------------------------------------------------------
(* nodescape2's reader: settings and commands. *)

LEMMA CommandFacts ==
    /\ Room \in Nat \ {0} /\ Width \in Nat \ {0} /\ LabelSize \in Nat \ {0} /\ TextSize \in Nat \ {0}
    /\ \A f \in CommandFiles : Len(f.lines) \in Nat /\ \A n \in 1 .. Len(f.lines) : Commands!OfAKind(f.lines[n])
<1>1. Commands!CommandConstants
  BY ReaderConstants
<1> QED
  BY <1>1, Zenon DEF Commands!CommandConstants

LEMMA CommandElements == \A s, P : Commands!ElementsAt(s, P) = ElementsAt(s, P)
<1>1. \A S : Commands!Cardinality(S) = Cardinality(S)
  BY Zenon DEF Commands!Cardinality, Cardinality, Commands!IsFiniteSet, IsFiniteSet
<1> SUFFICES ASSUME NEW s, NEW P PROVE Commands!ElementsAt(s, P) = ElementsAt(s, P)
  OBVIOUS
<1>2. \A m, q : Commands!Cardinality({r \in P : r <= q}) = m <=> Cardinality({r \in P : r <= q}) = m
  BY <1>1, Zenon
<1>3. \A m : (CHOOSE q \in P : Commands!Cardinality({r \in P : r <= q}) = m)
              = CHOOSE q \in P : Cardinality({r \in P : r <= q}) = m
  BY <1>2, Zenon
<1>4. Commands!Cardinality(P) = Cardinality(P)
  BY <1>1, Zenon
<1> DEFINE c(m) == CHOOSE q \in P : Commands!Cardinality({r \in P : r <= q}) = m
           d(m) == CHOOSE q \in P : Cardinality({r \in P : r <= q}) = m
<1>5. Commands!ElementsAt(s, P) = [m \in 1 .. Commands!Cardinality(P) |-> s[c(m)]]
  BY Zenon DEF Commands!ElementsAt
<1>6. ElementsAt(s, P) = [m \in 1 .. Cardinality(P) |-> s[d(m)]]
  BY Zenon DEF ElementsAt
<1>7. \A m : c(m) = d(m)
  BY <1>3
<1> HIDE DEF c, d
<1> QED
  BY <1>4, <1>5, <1>6, <1>7

(* Where the complete commands are, and the lines for a setting. *)
IsComplete(l)  == l.kind = "command" /\ l.complete
Gives(l, k)    == l.kind = "set" /\ l.key = k
CompletePlaces == {n \in 1 .. at : IsComplete(file.lines[n])}
GivenPlaces(k) == {n \in 1 .. at : Gives(file.lines[n], k)}

(* A slot holds the command of a line. *)
Holds(slot, l) == slot.label = Commands!Short(l.label, LabelSize) /\ Commands!Executed(slot) = Commands!Asked(l)

SettingsTyped ==
    /\ DOMAIN set = Commands!Texts \cup Commands!Numbers
    /\ \A k \in Commands!Numbers : set[k] \in 0 .. Width - 1
    /\ \A k \in Commands!Texts : Commands!IsText(set[k]) /\ set[k].len < TextSize

ReadTyped ==
    /\ file \in CommandFiles /\ pc \in {"read", "run", "exit"}
    /\ at \in 0 .. Len(file.lines) /\ leaked \in 0 .. at

ArrayHolds ==
    /\ used \in Nat /\ IsArray(coms) /\ used <= Len(coms)
    /\ Commands!WantsCommands =>
          /\ Len(coms) > 0 /\ used = Cardinality(CompletePlaces)
          /\ \A n \in 1 .. used : Holds(coms[n], ElementsAt(file.lines, CompletePlaces)[n])

LastGiven(k) ==
    set[k] = IF GivenPlaces(k) = {} THEN Commands!Empty
             ELSE Commands!Short(ElementsAt(file.lines, GivenPlaces(k))[Cardinality(GivenPlaces(k))].val, TextSize)

SettingsGiven == \A k \in Commands!Texts : LastGiven(k)

CommandsInv == ReadTyped /\ SettingsTyped /\ ArrayHolds /\ SettingsGiven /\ Commands!RunsConfigured

LEMMA PlacesFinite ==
    ASSUME ReadTyped
    PROVE  /\ CompletePlaces \in SUBSET Int /\ IsFiniteSet(CompletePlaces) /\ \A n \in CompletePlaces : n < at + 1
           /\ \A k : /\ GivenPlaces(k) \in SUBSET Int /\ IsFiniteSet(GivenPlaces(k))
                     /\ \A n \in GivenPlaces(k) : n < at + 1
<1>1. at \in Nat
  BY CommandFacts DEF ReadTyped
<1>2. IsFiniteSet(1 .. at)
  BY <1>1, FS_Interval
<1>3. CompletePlaces \in SUBSET (1 .. at) /\ \A k : GivenPlaces(k) \in SUBSET (1 .. at)
  BY DEF CompletePlaces, GivenPlaces
<1>4. \A n \in 1 .. at : n \in Int /\ n < at + 1
  BY <1>1
<1> QED
  BY <1>2, <1>3, <1>4, FS_Subset

(* What a read line adds. *)
LEMMA PlacesGrow ==
    ASSUME ReadTyped, at < Len(file.lines), file' = file, at' = at + 1
    PROVE  /\ CompletePlaces' = IF IsComplete(Commands!Line) THEN CompletePlaces \cup {at + 1} ELSE CompletePlaces
           /\ \A k : GivenPlaces(k)' = IF Gives(Commands!Line, k) THEN GivenPlaces(k) \cup {at + 1} ELSE GivenPlaces(k)
<1>1. at \in Nat
  BY CommandFacts DEF ReadTyped
<1>2. 1 .. at' = (1 .. at) \cup {at + 1}
  BY <1>1
<1>3. Commands!Line = file.lines[at + 1]
  BY DEF Commands!Line
<1> QED
  BY <1>2, <1>3, Zenon DEF CompletePlaces, GivenPlaces

LEMMA ReadLine ==
    ASSUME CommandsInv, Commands!HasLine
    PROVE  /\ at \in Nat /\ Len(file.lines) \in Nat /\ at < Len(file.lines) /\ pc = "read"
           /\ Commands!OfAKind(Commands!Line)
<1>1. at \in Nat /\ Len(file.lines) \in Nat
  BY CommandFacts DEF CommandsInv, ReadTyped
<1>2. at < Len(file.lines) /\ pc = "read"
  <2>1. (IF file.ended THEN 0 ELSE 1) \in {0, 1}
    BY Zenon
  <2>2. pc = "read" /\ at < Len(file.lines) - (IF file.ended THEN 0 ELSE 1)
    BY Zenon DEF Commands!HasLine
  <2>3. PICK d : d = IF file.ended THEN 0 ELSE 1
    OBVIOUS
  <2>4. d \in {0, 1} /\ at < Len(file.lines) - d
    BY <2>1, <2>2, <2>3, Zenon
  <2> QED
    BY <1>1, <2>2, <2>4
<1>3. at + 1 \in 1 .. Len(file.lines)
  BY <1>1, <1>2
<1> QED
  BY <1>1, <1>2, <1>3, CommandFacts DEF CommandsInv, ReadTyped, Commands!Line

(* A line that is no command and sets no text leaves both as they are. *)
LEMMA OtherLinesKeep ==
    ASSUME CommandsInv, Commands!HasLine, file' = file, at' = at + 1, pc' = pc, UNCHANGED <<coms, used, leaked>>,
           ~ IsComplete(Commands!Line) \/ ~ Commands!WantsCommands
    PROVE  ReadTyped' /\ ArrayHolds' /\ Commands!RunsConfigured'
<1>1. /\ at \in Nat /\ Len(file.lines) \in Nat /\ at < Len(file.lines) /\ pc = "read"
  BY ReadLine
<1>2. ReadTyped'
  BY <1>1 DEF CommandsInv, ReadTyped
<1>3. CompletePlaces' = IF IsComplete(Commands!Line) THEN CompletePlaces \cup {at + 1} ELSE CompletePlaces
  BY <1>1, PlacesGrow DEF CommandsInv
<1>4. Commands!WantsCommands' = Commands!WantsCommands
  BY DEF Commands!WantsCommands
<1>5. ArrayHolds'
  BY <1>3, <1>4 DEF CommandsInv, ArrayHolds
<1>6. Commands!RunsConfigured'
  BY <1>1 DEF Commands!RunsConfigured
<1> QED
  BY <1>2, <1>5, <1>6

LEMMA SkipKeeps == ASSUME CommandsInv, Commands!Skip PROVE CommandsInv'
<1>1. Commands!HasLine /\ file' = file /\ at' = at + 1 /\ pc' = pc /\ UNCHANGED <<coms, used, leaked>> /\ set' = set
  BY DEF Commands!Skip
<1>2. at < Len(file.lines)
  BY <1>1, ReadLine
<1>3. Commands!Line.kind \in {"blank", "other"} \/ (Commands!Line.kind = "command" /\ ~ Commands!WantsCommands)
  BY DEF Commands!Skip
<1>4. ~ IsComplete(Commands!Line) \/ ~ Commands!WantsCommands
  BY <1>3 DEF IsComplete
<1>5. \A k : ~ Gives(Commands!Line, k)
  BY <1>3 DEF Gives
<1>6. \A k : GivenPlaces(k)' = GivenPlaces(k)
  BY <1>1, <1>2, <1>5, PlacesGrow DEF CommandsInv
<1>7. SettingsGiven'
  BY <1>1, <1>6 DEF CommandsInv, SettingsGiven, LastGiven, Commands!Texts
<1>8. SettingsTyped'
  BY <1>1 DEF CommandsInv, SettingsTyped, Commands!Texts, Commands!Numbers, Commands!IsText
<1>9. ReadTyped' /\ ArrayHolds' /\ Commands!RunsConfigured'
  BY <1>1, <1>4, OtherLinesKeep
<1> QED
  BY <1>7, <1>8, <1>9 DEF CommandsInv

(* What a setting is made of. *)
LEMMA ShortText ==
    ASSUME NEW t, Commands!IsText(t), NEW size \in Nat \ {0}
    PROVE  /\ Commands!IsText(Commands!Short(t, size)) /\ Commands!Short(t, size).len < size
           /\ Commands!Short(t, size).chars = t.chars
           /\ t.len < size => Commands!Short(t, size) = t
           /\ ~ (t.len < size) => Commands!Short(t, size).len = size - 1
<1> DEFINE u == Commands!Short(t, size)
           n == IF t.len < size THEN t.len ELSE size - 1
<1>1. t = [chars |-> t.chars, len |-> t.len] /\ t.len \in Nat /\ (t.chars = "" => t.len = 0)
  BY DEF Commands!IsText
<1>2. n \in Nat /\ n < size /\ (t.len = 0 => n = 0)
  <2>1. t.len \in Nat /\ size \in Nat /\ size # 0
    BY <1>1
  <2> QED
    BY <2>1
<1>3. u = [t EXCEPT !.len = n]
  BY DEF Commands!Short
<1> HIDE DEF n, u
<1>4. u = [chars |-> t.chars, len |-> n]
  <2>1. PICK c, m : c = t.chars /\ m = t.len
    OBVIOUS
  <2>2. t = [chars |-> c, len |-> m]
    BY <1>1, <2>1, Zenon
  <2>3. [[chars |-> c, len |-> m] EXCEPT !.len = n] = [chars |-> c, len |-> n]
    OBVIOUS
  <2> QED
    BY <1>3, <2>1, <2>2, <2>3, Zenon
<1>5. u.chars = t.chars /\ u.len = n
  BY <1>4
<1>6. Commands!IsText(u)
  BY <1>1, <1>2, <1>4, <1>5 DEF Commands!IsText
<1>7. (t.len < size => n = t.len) /\ (~ (t.len < size) => n = size - 1)
  BY DEF n
<1>8. t.len < size => u = t
  BY <1>1, <1>4, <1>7, Zenon
<1> QED
  BY <1>2, <1>5, <1>6, <1>7, <1>8 DEF u

LEMMA KeysDiffer == Commands!Texts \cap Commands!Numbers = {}
  BY DEF Commands!Texts, Commands!Numbers

LEMMA NextPlace ==
    ASSUME NEW P \in SUBSET Int, IsFiniteSet(P), at \in Nat, \A n \in P : n < at + 1
    PROVE  /\ Cardinality(P \cup {at + 1}) = Cardinality(P) + 1
           /\ \A m \in 1 .. Cardinality(P) : ElementsAt(file.lines, P \cup {at + 1})[m] = ElementsAt(file.lines, P)[m]
           /\ ElementsAt(file.lines, P \cup {at + 1})[Cardinality(P) + 1] = file.lines[at + 1]
<1>1. PICK s, n : s = file.lines /\ n = at + 1
  OBVIOUS
<1>2. n \in Int /\ \A p \in P : p < n
  BY <1>1
<1>3. /\ Cardinality(P \cup {n}) = Cardinality(P) + 1
      /\ \A m \in 1 .. Cardinality(P) : ElementsAt(s, P \cup {n})[m] = ElementsAt(s, P)[m]
      /\ ElementsAt(s, P \cup {n})[Cardinality(P) + 1] = s[n]
  BY <1>2, OneMorePlace
<1> QED
  BY <1>1, <1>3, Zenon

LEMMA SetTextKeeps == ASSUME CommandsInv, Commands!SetText PROVE CommandsInv'
<1> DEFINE key == Commands!Line.key
           val == Commands!Line.val
           new == Commands!Short(val, TextSize)
<1>1. /\ Commands!HasLine /\ file' = file /\ at' = at + 1 /\ pc' = pc /\ UNCHANGED <<coms, used, leaked>>
      /\ Commands!Line.kind = "set" /\ key \in Commands!Texts /\ set' = [set EXCEPT ![key] = new]
  BY DEF Commands!SetText, Commands!Put
<1>2. at \in Nat /\ at < Len(file.lines) /\ Commands!OfAKind(Commands!Line)
  BY <1>1, ReadLine
<1>3. Commands!IsText(val)
  BY <1>1, <1>2, KeysDiffer DEF Commands!OfAKind
<1> HIDE DEF val
<1>4. Commands!IsText(new) /\ new.len < TextSize
  BY <1>3, CommandFacts, ShortText
<1>5. ReadTyped' /\ ArrayHolds' /\ Commands!RunsConfigured'
  <2>1. ~ IsComplete(Commands!Line)
    BY <1>1 DEF IsComplete
  <2> QED
    BY <1>1, <2>1, OtherLinesKeep
<1>6. DOMAIN set = Commands!Texts \cup Commands!Numbers
  BY DEF CommandsInv, SettingsTyped
<1> HIDE DEF key
<1>7. set'[key] = new /\ \A k : k # key => set'[k] = set[k]
  BY <1>1, <1>6
<1>8. SettingsTyped'
  <2>1. DOMAIN set' = Commands!Texts \cup Commands!Numbers
    BY <1>1, <1>6
  <2>2. \A k \in Commands!Numbers : set'[k] \in 0 .. Width - 1
    BY <1>1, <1>7, KeysDiffer DEF CommandsInv, SettingsTyped
  <2>3. \A k \in Commands!Texts : Commands!IsText(set'[k]) /\ set'[k].len < TextSize
    BY <1>4, <1>7 DEF CommandsInv, SettingsTyped
  <2> QED
    BY <2>1, <2>2, <2>3 DEF SettingsTyped, Commands!Texts, Commands!Numbers, Commands!IsText
<1>9. ASSUME NEW k \in Commands!Texts PROVE LastGiven(k)'
  <2>1. GivenPlaces(k)' = IF Gives(Commands!Line, k) THEN GivenPlaces(k) \cup {at + 1} ELSE GivenPlaces(k)
    BY <1>1, <1>2, PlacesGrow DEF CommandsInv
  <2>2. CASE k = key
    <3> DEFINE P == GivenPlaces(k)
    <3>1. P \in SUBSET Int /\ IsFiniteSet(P) /\ \A n \in P : n < at + 1
      BY PlacesFinite DEF CommandsInv
    <3>2. GivenPlaces(k)' = P \cup {at + 1}
      BY <1>1, <2>1, <2>2 DEF Gives, key
    <3> HIDE DEF P
    <3>3. /\ Cardinality(P \cup {at + 1}) = Cardinality(P) + 1
          /\ ElementsAt(file.lines, P \cup {at + 1})[Cardinality(P) + 1] = file.lines[at + 1]
      BY <1>2, <3>1, NextPlace
    <3>4. file.lines[at + 1].val = val
      BY DEF val, Commands!Line
    <3>5. set'[k] = Commands!Short(val, TextSize)
      BY <1>7, <2>2, Zenon
    <3>6. P \cup {at + 1} # {}
      OBVIOUS
    <3> QED
      BY <1>1, <3>2, <3>3, <3>4, <3>5, <3>6 DEF LastGiven
  <2>3. CASE k # key
    <3>1. GivenPlaces(k)' = GivenPlaces(k)
      BY <2>1, <2>3 DEF Gives, key
    <3>2. LastGiven(k)
      BY DEF CommandsInv, SettingsGiven
    <3> QED
      BY <1>1, <1>7, <2>3, <3>1, <3>2 DEF LastGiven
  <2> QED
    BY <2>2, <2>3
<1>10. SettingsGiven'
  BY <1>9 DEF SettingsGiven, Commands!Texts
<1> QED
  BY <1>5, <1>8, <1>10 DEF CommandsInv

LEMMA SetNumberKeeps == ASSUME CommandsInv, Commands!SetNumber PROVE CommandsInv'
<1> DEFINE key == Commands!Line.key
           new == Commands!Line.val % Width
<1>1. /\ Commands!HasLine /\ file' = file /\ at' = at + 1 /\ pc' = pc /\ UNCHANGED <<coms, used, leaked>>
      /\ Commands!Line.kind = "set" /\ key \in Commands!Numbers /\ set' = [set EXCEPT ![key] = new]
  BY DEF Commands!SetNumber, Commands!Put
<1>2. at \in Nat /\ at < Len(file.lines) /\ Commands!OfAKind(Commands!Line)
  BY <1>1, ReadLine
<1>3. new \in 0 .. Width - 1
  <2>1. Commands!Line.val \in Int
    BY <1>1, <1>2, KeysDiffer DEF Commands!OfAKind
  <2>2. \A v \in Int : v % Width \in 0 .. Width - 1
    BY CommandFacts
  <2> QED
    BY <2>1, <2>2
<1> HIDE DEF new
<1>4. ReadTyped' /\ ArrayHolds' /\ Commands!RunsConfigured'
  <2>1. ~ IsComplete(Commands!Line)
    BY <1>1 DEF IsComplete
  <2> QED
    BY <1>1, <2>1, OtherLinesKeep
<1>5. DOMAIN set = Commands!Texts \cup Commands!Numbers
  BY DEF CommandsInv, SettingsTyped
<1> HIDE DEF key
<1>6. set'[key] = new /\ \A k : k # key => set'[k] = set[k]
  BY <1>1, <1>5
<1>7. SettingsTyped'
  <2>1. DOMAIN set' = Commands!Texts \cup Commands!Numbers
    BY <1>1, <1>5
  <2>2. \A k \in Commands!Numbers : set'[k] \in 0 .. Width - 1
    BY <1>3, <1>6 DEF CommandsInv, SettingsTyped
  <2>3. \A k \in Commands!Texts : Commands!IsText(set'[k]) /\ set'[k].len < TextSize
    BY <1>1, <1>6, KeysDiffer DEF CommandsInv, SettingsTyped
  <2> QED
    BY <2>1, <2>2, <2>3 DEF SettingsTyped, Commands!Texts, Commands!Numbers, Commands!IsText
<1>8. ASSUME NEW k \in Commands!Texts PROVE LastGiven(k)'
  <2>1. k # key
    BY <1>1, KeysDiffer
  <2>2. GivenPlaces(k)' = GivenPlaces(k)
    BY <1>1, <1>2, <2>1, PlacesGrow DEF CommandsInv, Gives, key
  <2>3. LastGiven(k)
    BY DEF CommandsInv, SettingsGiven
  <2> QED
    BY <1>1, <1>6, <2>1, <2>2, <2>3 DEF LastGiven
<1>9. SettingsGiven'
  BY <1>8 DEF SettingsGiven, Commands!Texts
<1> QED
  BY <1>4, <1>7, <1>9 DEF CommandsInv

(* The array has a slot for one more. *)
LEMMA GrownIs ==
    ASSUME IsArray(coms), used \in Nat, used <= Len(coms), Len(coms) > 0
    PROVE  /\ IsArray(Commands!Grown) /\ Len(Commands!Grown) >= used + 1
           /\ Len(Commands!Grown) >= Len(coms) /\ \A n \in 1 .. used : Commands!Grown[n] = coms[n]
<1> DEFINE R == {coms[n] : n \in 1 .. Len(coms)} \cup {Commands!Slot}
           more == [n \in 1 .. Len(coms) |-> Commands!Slot]
<1>1. Len(coms) \in Nat /\ coms = [n \in 1 .. Len(coms) |-> coms[n]]
  BY DEF IsArray
<1>2. \A b \in Nat : \A h \in [1 .. b -> R] : h \in Seq(R) /\ Len(h) = b
  OBVIOUS
<1>3. more \in [1 .. Len(coms) -> R] /\ coms \in [1 .. Len(coms) -> R]
  BY <1>1
<1>4. Commands!Grown = IF used < Len(coms) THEN coms ELSE coms \o more
  BY DEF Commands!Grown
<1> HIDE DEF more, R
<1>5. coms \in Seq(R) /\ more \in Seq(R) /\ Len(more) = Len(coms)
  BY <1>1, <1>2, <1>3
<1>6. coms \o more \in Seq(R) /\ Len(coms \o more) = Len(coms) + Len(coms)
      /\ \A n \in 1 .. Len(coms) : (coms \o more)[n] = coms[n]
  BY <1>5
<1>7. \A c \in Seq(R) : IsArray(c)
  BY DEF IsArray
<1>8. CASE used < Len(coms)
  BY <1>1, <1>4, <1>5, <1>7, <1>8
<1>9. CASE ~ (used < Len(coms))
  <2>1. PICK w : w = coms \o more
    OBVIOUS
  <2>2. IsArray(w) /\ Len(w) = Len(coms) + Len(coms) /\ \A n \in 1 .. Len(coms) : w[n] = coms[n]
    BY <1>6, <1>7, <2>1, Zenon
  <2>3. Commands!Grown = w
    BY <1>4, <1>9, <2>1, Zenon
  <2>4. used = Len(coms)
    BY <1>1, <1>9
  <2>5. Len(w) >= used + 1 /\ Len(w) >= Len(coms) /\ \A n \in 1 .. used : w[n] = coms[n]
    BY <1>1, <2>2, <2>4
  <2> QED
    BY <2>2, <2>3, <2>5, Zenon
<1> QED
  BY <1>8, <1>9

(* A command is put where the array has room, and a line that is not       *)
(* complete touches none of the slots that count.                          *)
LEMMA CommandKeeps == ASSUME CommandsInv, Commands!Command PROVE CommandsInv'
<1> DEFINE l == Commands!Line
           old == Commands!Grown[used + 1]
           new == [label |-> Commands!Short(l.label, LabelSize),
                   comm |-> IF l.complete THEN Commands!Short(l.comm, TextSize + 1) ELSE old.comm]
<1>1. Commands!HasLine /\ file' = file /\ at' = at + 1 /\ set' = set /\ l.kind = "command" /\ Commands!WantsCommands
  BY DEF Commands!Command
<1>2. at \in Nat /\ Len(file.lines) \in Nat /\ at < Len(file.lines) /\ pc = "read" /\ Commands!OfAKind(l)
  BY <1>1, ReadLine
<1>3. Commands!IsText(l.label) /\ Commands!IsText(l.comm) /\ l.complete \in BOOLEAN
  BY <1>1, <1>2 DEF Commands!OfAKind
<1>4. /\ used \in Nat /\ IsArray(coms) /\ used <= Len(coms) /\ Len(coms) > 0 /\ used = Cardinality(CompletePlaces)
      /\ \A n \in 1 .. used : Holds(coms[n], ElementsAt(file.lines, CompletePlaces)[n])
  BY <1>1 DEF CommandsInv, ArrayHolds
<1>5. /\ IsArray(Commands!Grown) /\ Len(Commands!Grown) >= used + 1
      /\ \A n \in 1 .. used : Commands!Grown[n] = coms[n]
  BY <1>4, GrownIs
<1>6. /\ coms' = [Commands!Grown EXCEPT ![used + 1] = new]
      /\ used' = (IF l.complete THEN used + 1 ELSE used)
      /\ leaked' = leaked + (IF l.complete THEN 0 ELSE 1) /\ pc' = pc
  <2>1. ~ (used + 1 > Len(Commands!Grown))
    BY <1>4, <1>5
  <2> QED
    BY <2>1 DEF Commands!Command, Commands!Counted
<1> HIDE DEF l
<1>7. l.complete => Holds(new, l)
  <2> SUFFICES ASSUME l.complete PROVE Holds(new, l)
    OBVIOUS
  <2>1. PICK u, size, w, lab : /\ u = l.comm /\ size = TextSize + 1
                               /\ w = Commands!Short(u, size) /\ lab = Commands!Short(l.label, LabelSize)
    OBVIOUS
  <2>2. size \in Nat \ {0} /\ TextSize \in Nat /\ u.len \in Nat
    <3>1. TextSize \in Nat /\ size = TextSize + 1
      BY <2>1, CommandFacts
    <3>2. Commands!IsText(u)
      BY <1>3, <2>1, Zenon
    <3>3. u.len \in Nat
      BY <3>2, Zenon DEF Commands!IsText
    <3> QED
      BY <3>1, <3>3
  <2>3. (u.len < size => w = u) /\ (~ (u.len < size) => w.len = size - 1)
    BY <1>3, <2>1, <2>2, ShortText
  <2>4. (u.len < TextSize => w = u) /\ (w.len < TextSize <=> u.len < TextSize)
    <3>1. u.len < TextSize => u.len < size
      BY <2>1, <2>2
    <3>2. ~ (size - 1 < TextSize)
      BY <2>1, <2>2
    <3>3. ~ (u.len < size) => ~ (u.len < TextSize)
      BY <2>1, <2>2
    <3> QED
      BY <2>3, <3>1, <3>2, <3>3, Zenon
  <2>5. new = [label |-> lab, comm |-> w]
    BY <2>1
  <2>6. new.label = lab /\ new.comm = w
    BY <2>5
  <2>7. Commands!Executed(new) = (IF w.len < TextSize THEN <<w>> ELSE <<w, lab>>)
    BY <2>6, Zenon DEF Commands!Executed
  <2>8. Commands!Asked(l) = (IF u.len < TextSize THEN <<u>> ELSE <<w, lab>>)
    BY <2>1, Zenon DEF Commands!Asked
  <2>9. Commands!Executed(new) = Commands!Asked(l)
    BY <2>4, <2>7, <2>8, Zenon
  <2> QED
    BY <2>1, <2>6, <2>9, Zenon DEF Holds
<1> HIDE DEF new
<1>8. IsArray(coms') /\ Len(coms') >= used + 1 /\ coms'[used + 1] = new /\ \A n \in 1 .. used : coms'[n] = coms[n]
  <2>1. PICK g, b : g = Commands!Grown /\ b = Len(g)
    OBVIOUS
  <2>2. b \in Nat /\ g = [n \in 1 .. b |-> g[n]] /\ b >= used + 1 /\ coms' = [g EXCEPT ![used + 1] = new]
        /\ \A n \in 1 .. used : g[n] = coms[n]
    BY <1>5, <1>6, <2>1, Zenon DEF IsArray
  <2>3. used + 1 \in 1 .. b
    BY <1>4, <2>2
  <2>4. coms' = [n \in 1 .. b |-> IF n = used + 1 THEN new ELSE g[n]]
    BY <2>2
  <2>5. DOMAIN coms' = 1 .. b /\ coms'[used + 1] = new /\ \A n \in 1 .. used : coms'[n] = g[n]
    <3>1. \A n \in 1 .. used : n \in 1 .. b /\ n # used + 1
      BY <1>4, <2>2
    <3> QED
      BY <2>3, <2>4, <3>1
  <2>6. Len(coms') = b
    BY <2>2, <2>4
  <2> QED
    BY <2>2, <2>4, <2>5, <2>6 DEF IsArray
<1>9. CompletePlaces' = IF l.complete THEN CompletePlaces \cup {at + 1} ELSE CompletePlaces
  BY <1>1, <1>2, PlacesGrow DEF CommandsInv, IsComplete, l
<1>10. ReadTyped'
  <2>1. leaked \in 0 .. at
    BY DEF CommandsInv, ReadTyped
  <2>2. leaked' \in 0 .. at'
    BY <1>1, <1>2, <1>6, <2>1
  <2> QED
    BY <1>1, <1>2, <1>6, <2>2 DEF CommandsInv, ReadTyped
<1>11. Commands!WantsCommands' = Commands!WantsCommands
  BY <1>1 DEF Commands!WantsCommands
<1>12. ASSUME l.complete PROVE ArrayHolds'
  <2> DEFINE P == CompletePlaces
  <2>1. P \in SUBSET Int /\ IsFiniteSet(P) /\ \A n \in P : n < at + 1
    BY PlacesFinite DEF CommandsInv
  <2>2. CompletePlaces' = P \cup {at + 1}
    BY <1>9, <1>12
  <2>3. used = Cardinality(P) /\ \A n \in 1 .. used : Holds(coms[n], ElementsAt(file.lines, P)[n])
    BY <1>4
  <2> HIDE DEF P
  <2>4. /\ Cardinality(P \cup {at + 1}) = used + 1
        /\ \A m \in 1 .. used : ElementsAt(file.lines, P \cup {at + 1})[m] = ElementsAt(file.lines, P)[m]
        /\ ElementsAt(file.lines, P \cup {at + 1})[used + 1] = file.lines[at + 1]
    <3>1. /\ Cardinality(P \cup {at + 1}) = Cardinality(P) + 1
          /\ \A m \in 1 .. Cardinality(P) : ElementsAt(file.lines, P \cup {at + 1})[m] = ElementsAt(file.lines, P)[m]
          /\ ElementsAt(file.lines, P \cup {at + 1})[Cardinality(P) + 1] = file.lines[at + 1]
      BY <1>2, <2>1, NextPlace
    <3> QED
      BY <2>3, <3>1, Zenon
  <2>5. \A n \in 1 .. used + 1 : Holds(coms'[n], ElementsAt(file.lines, P \cup {at + 1})[n])
    <3>1. \A n \in 1 .. used : Holds(coms'[n], ElementsAt(file.lines, P \cup {at + 1})[n])
      BY <1>8, <2>3, <2>4
    <3>2. file.lines[at + 1] = l
      BY DEF l, Commands!Line
    <3>3. Holds(coms'[used + 1], ElementsAt(file.lines, P \cup {at + 1})[used + 1])
      BY <1>7, <1>8, <1>12, <2>4, <3>2
    <3>4. \A n \in 1 .. used + 1 : n \in 1 .. used \/ n = used + 1
      BY <1>4
    <3> QED
      BY <3>1, <3>3, <3>4
  <2>6. used' = used + 1
    BY <1>6, <1>12
  <2>7. used' \in Nat /\ used' <= Len(coms') /\ Len(coms') > 0
    BY <1>4, <1>8, <2>6
  <2>8. \A n \in 1 .. used' : Holds(coms'[n], ElementsAt(file.lines', CompletePlaces')[n])
    BY <1>1, <2>2, <2>5, <2>6
  <2> QED
    BY <1>8, <2>2, <2>4, <2>6, <2>7, <2>8 DEF ArrayHolds
<1>13. ASSUME ~ l.complete PROVE ArrayHolds'
  <2>1. used' = used /\ CompletePlaces' = CompletePlaces
    BY <1>6, <1>9, <1>13
  <2>2. used' <= Len(coms') /\ Len(coms') > 0
    BY <1>4, <1>8, <2>1
  <2>3. \A n \in 1 .. used : Holds(coms'[n], ElementsAt(file.lines, CompletePlaces)[n])
    BY <1>4, <1>8
  <2> QED
    BY <1>1, <1>4, <1>8, <2>1, <2>2, <2>3 DEF ArrayHolds
<1>14. SettingsGiven'
  <2>1. \A k : ~ Gives(l, k)
    BY <1>1 DEF Gives, l
  <2>2. \A k : GivenPlaces(k)' = GivenPlaces(k)
    BY <1>1, <1>2, <2>1, PlacesGrow DEF CommandsInv, l
  <2> QED
    BY <1>1, <2>2 DEF CommandsInv, SettingsGiven, LastGiven, Commands!Texts
<1>15. SettingsTyped' /\ Commands!RunsConfigured'
  BY <1>1, <1>2, <1>6 DEF CommandsInv, SettingsTyped, Commands!Texts, Commands!Numbers, Commands!IsText, Commands!RunsConfigured
<1>16. l.complete \in BOOLEAN
  BY <1>3
<1> QED
  BY <1>10, <1>12, <1>13, <1>14, <1>15, <1>16 DEF CommandsInv

LEMMA StartKeeps == ASSUME CommandsInv, Commands!Start PROVE CommandsInv'
<1>1. /\ UNCHANGED <<file, at, set, coms, used, leaked>>
      /\ pc' = IF \E k \in Commands!Needs : set[k] = Commands!Empty THEN "exit" ELSE "run"
  BY DEF Commands!Start
<1>2. ReadTyped'
  BY <1>1 DEF CommandsInv, ReadTyped
<1>3. CompletePlaces' = CompletePlaces /\ \A k : GivenPlaces(k)' = GivenPlaces(k)
  BY <1>1 DEF CompletePlaces, GivenPlaces
<1>4. SettingsTyped' /\ SettingsGiven' /\ ArrayHolds'
  BY <1>1, <1>3 DEF CommandsInv, SettingsTyped, SettingsGiven, LastGiven, ArrayHolds, Commands!WantsCommands,
                    Commands!Texts, Commands!Numbers, Commands!IsText
<1>5. Commands!RunsConfigured'
  <2> SUFFICES ASSUME pc' = "run" PROVE Commands!RunsConfigured'
    BY DEF Commands!RunsConfigured
  <2>1. \A k \in Commands!Needs : set[k] # Commands!Empty
    BY <1>1
  <2>2. \A k \in Commands!Texts : set[k] # Commands!Empty => set[k].chars # ""
    <3> SUFFICES ASSUME NEW k \in Commands!Texts, set[k].chars = "" PROVE set[k] = Commands!Empty
      OBVIOUS
    <3>1. Commands!IsText(set[k])
      BY DEF CommandsInv, SettingsTyped
    <3>2. set[k] = [chars |-> set[k].chars, len |-> set[k].len] /\ set[k].len = 0
      BY <3>1 DEF Commands!IsText
    <3> QED
      BY <3>2 DEF Commands!Empty
  <2>3. CASE file.program = "epacsedon"
    <3>1. Commands!Needs = {"host"}
      BY <2>3 DEF Commands!Needs
    <3>2. set["host"].chars # ""
      BY <2>1, <2>2, <3>1 DEF Commands!Texts
    <3> QED
      BY <1>1, <2>3, <3>2 DEF Commands!RunsConfigured
  <2>4. CASE file.program = "nodescape"
    <3>1. Commands!Needs = {"user", "dbhost", "dbname", "table"}
      BY <2>4 DEF Commands!Needs
    <3>2. \A k \in {"user", "dbhost", "dbname", "table"} : set[k].chars # ""
      BY <2>1, <2>2, <3>1 DEF Commands!Texts
    <3>3. "" \notin {set[k].chars : k \in {"user", "dbhost", "dbname", "table"}}
      BY <3>2
    <3> QED
      BY <1>1, <2>4, <3>3 DEF Commands!RunsConfigured
  <2>5. CASE file.program # "epacsedon" /\ file.program # "nodescape"
    BY <1>1, <2>5 DEF Commands!RunsConfigured
  <2> QED
    BY <2>3, <2>4, <2>5
<1> QED
  BY <1>2, <1>4, <1>5 DEF CommandsInv

LEMMA UnchangedKeepsCommands == ASSUME CommandsInv, UNCHANGED Commands!vars PROVE CommandsInv'
<1>1. UNCHANGED <<file, pc, at, set, coms, used, leaked>>
  BY DEF Commands!vars
<1>2. CompletePlaces' = CompletePlaces /\ \A k : GivenPlaces(k)' = GivenPlaces(k)
  BY <1>1 DEF CompletePlaces, GivenPlaces
<1>3. ReadTyped' /\ ArrayHolds'
  BY <1>1, <1>2 DEF CommandsInv, ReadTyped, ArrayHolds, Commands!WantsCommands
<1>4. SettingsTyped'
  BY <1>1 DEF CommandsInv, SettingsTyped, Commands!Texts, Commands!Numbers, Commands!IsText
<1>5. SettingsGiven'
  BY <1>1, <1>2 DEF CommandsInv, SettingsGiven, LastGiven, Commands!Texts
<1>6. Commands!RunsConfigured'
  BY <1>1 DEF CommandsInv, Commands!RunsConfigured
<1> QED
  BY <1>3, <1>4, <1>5, <1>6 DEF CommandsInv

LEMMA InitCommands == ASSUME Commands!Init PROVE CommandsInv
<1>1. /\ file \in CommandFiles /\ pc = "read" /\ at = 0 /\ used = 0 /\ leaked = 0
      /\ coms = IF file.program = "epacsedon" THEN [n \in 1 .. Room |-> Commands!Slot] ELSE <<>>
  BY DEF Commands!Init
<1>10. set = [k \in Commands!Texts \cup Commands!Numbers |-> Commands!Default(k)]
  BY DEF Commands!Init
<1>2. ReadTyped
  BY <1>1, CommandFacts DEF ReadTyped
<1>3. CompletePlaces = {} /\ \A k : GivenPlaces(k) = {}
  BY <1>1 DEF CompletePlaces, GivenPlaces
<1>4. DOMAIN set = Commands!Texts \cup Commands!Numbers /\ \A k \in Commands!Texts : set[k] = Commands!Empty
  BY <1>10 DEF Commands!Texts, Commands!Numbers, Commands!Default
<1>5. SettingsTyped
  <2>1. \A k \in Commands!Numbers : set[k] \in 0 .. Width - 1
    <3>1. Width \in Nat \ {0}
      BY CommandFacts
    <3>2. \A k \in {"port", "ageint"} : Commands!Default(k) \in 0 .. Width - 1
      BY <3>1 DEF Commands!Default
    <3> QED
      BY <1>10, <3>2 DEF Commands!Numbers
  <2>2. Commands!IsText(Commands!Empty) /\ Commands!Empty.len < TextSize
    BY CommandFacts DEF Commands!IsText, Commands!Empty
  <2> QED
    BY <1>4, <2>1, <2>2 DEF SettingsTyped
<1>6. SettingsGiven
  BY <1>3, <1>4, Zenon DEF SettingsGiven, LastGiven
<1>7. IsArray(coms) /\ (Commands!WantsCommands => Len(coms) > 0)
  <2>1. Room \in Nat /\ Room > 0
    BY CommandFacts
  <2>2. CASE file.program = "epacsedon"
    <3>1. PICK c : c = coms
      OBVIOUS
    <3>2. c = [n \in 1 .. Room |-> Commands!Slot]
      BY <1>1, <2>2, <3>1
    <3>3. Len(c) = Room /\ c = [n \in 1 .. Room |-> c[n]]
      BY <2>1, <3>2
    <3>4. IsArray(c) /\ Len(c) > 0
      BY <2>1, <3>3 DEF IsArray
    <3> QED
      BY <3>1, <3>4
  <2>3. CASE file.program # "epacsedon"
    <3>1. coms = <<>>
      BY <1>1, <2>3
    <3> QED
      BY <2>3, <3>1 DEF IsArray, Commands!WantsCommands
  <2> QED
    BY <2>2, <2>3
<1>8. ArrayHolds
  <2>1. Cardinality(CompletePlaces) = 0
    BY <1>3, FS_EmptySet
  <2>2. 0 <= Len(coms)
    BY <1>7 DEF IsArray
  <2>3. used = 0 /\ \A n \in 1 .. used : FALSE
    BY <1>1
  <2> QED
    BY <1>7, <2>1, <2>2, <2>3 DEF ArrayHolds
<1>9. Commands!RunsConfigured
  <2>1. pc # "run"
    BY <1>1
  <2> QED
    BY <2>1 DEF Commands!RunsConfigured
<1> QED
  BY <1>2, <1>5, <1>6, <1>8, <1>9 DEF CommandsInv

LEMMA NextCommands == ASSUME CommandsInv, [Commands!Next]_Commands!vars PROVE CommandsInv'
<1>1. CASE Commands!Skip
  BY <1>1, SkipKeeps
<1>2. CASE Commands!SetText
  BY <1>2, SetTextKeeps
<1>3. CASE Commands!SetNumber
  BY <1>3, SetNumberKeeps
<1>4. CASE Commands!Command
  BY <1>4, CommandKeeps
<1>5. CASE Commands!Start
  BY <1>5, StartKeeps
<1>6. CASE UNCHANGED Commands!vars
  BY <1>6, UnchangedKeepsCommands
<1> QED
  BY <1>1, <1>2, <1>3, <1>4, <1>5, <1>6, Zenon DEF Commands!Next

(* What is said of the reader follows. *)
LEMMA CommandsAreKept ==
    ASSUME CommandsInv
    PROVE  /\ Commands!TypeOK /\ Commands!NoOverrun /\ Commands!CommandsInOrder
           /\ Commands!LastSettingCounts /\ Commands!RunsConfigured
<1>1. Commands!TypeOK
  BY DEF CommandsInv, ReadTyped, SettingsTyped, Commands!TypeOK
<1>2. Commands!NoOverrun
  BY DEF CommandsInv, ReadTyped, ArrayHolds, Commands!NoOverrun
<1>3. /\ IsFiniteSet(CompletePlaces) /\ \A k : IsFiniteSet(GivenPlaces(k))
  BY PlacesFinite DEF CommandsInv
<1>4. Commands!Complete = ElementsAt(file.lines, CompletePlaces)
  BY CommandElements, Zenon DEF Commands!Complete, CompletePlaces, IsComplete
<1>5. Commands!CommandsInOrder
  <2> SUFFICES ASSUME Commands!WantsCommands
               PROVE  /\ used = Len(Commands!Complete)
                      /\ \A n \in 1 .. used : /\ coms[n].label = Commands!Short(Commands!Complete[n].label, LabelSize)
                                              /\ Commands!Executed(coms[n]) = Commands!Asked(Commands!Complete[n])
    BY DEF Commands!CommandsInOrder
  <2>1. /\ used = Cardinality(CompletePlaces)
        /\ \A n \in 1 .. used : Holds(coms[n], ElementsAt(file.lines, CompletePlaces)[n])
    BY DEF CommandsInv, ArrayHolds
  <2>2. Len(Commands!Complete) = Cardinality(CompletePlaces)
    BY <1>3, <1>4, ElementsLength, Zenon
  <2> QED
    BY <1>4, <2>1, <2>2, Zenon DEF Holds
<1>6. Commands!LastSettingCounts
  <2> DEFINE L(k) == ElementsAt(file.lines, GivenPlaces(k))
  <2>1. SUFFICES ASSUME NEW k \in Commands!Texts
                 PROVE  set[k] = IF L(k) = <<>> THEN Commands!Empty
                                     ELSE Commands!Short(Commands!Last(L(k)).val, TextSize)
    BY CommandElements, Zenon DEF Commands!LastSettingCounts, GivenPlaces, Gives
  <2>2. LastGiven(k)
    BY DEF CommandsInv, SettingsGiven
  <2>3. Len(L(k)) = Cardinality(GivenPlaces(k)) /\ (GivenPlaces(k) = {} => L(k) = <<>>) /\ Cardinality(GivenPlaces(k)) \in Nat
    BY <1>3, ElementsLength
  <2>4. Commands!Last(L(k)) = L(k)[Len(L(k))]
    BY Zenon DEF Commands!Last
  <2>5. CASE GivenPlaces(k) = {}
    BY <2>2, <2>3, <2>5, Zenon DEF LastGiven
  <2>6. CASE GivenPlaces(k) # {}
    <3>1. Cardinality(GivenPlaces(k)) # 0
      BY <1>3, <2>6, FS_EmptySet
    <3>2. L(k) # <<>>
      <4>1. Len(<<>>) = 0
        OBVIOUS
      <4> QED
        BY <2>3, <3>1, <4>1, Zenon
    <3> QED
      BY <2>2, <2>3, <2>4, <2>6, <3>2, Zenon DEF LastGiven
  <2> QED
    BY <2>5, <2>6
<1> QED
  BY <1>1, <1>2, <1>5, <1>6 DEF CommandsInv

(* config.c:72-220 and nodescape.c:23-50: the array of commands grows      *)
(* before it is full, the slots that count are the complete command lines, *)
(* in their order, each run with its own command, or, where that is as     *)
(* long as its field, with what fits and its own label behind it, and one  *)
(* that is not complete leaves nothing behind; of two lines for a setting  *)
(* the last one counts, and no program runs without a setting it asks for  *)
(* - for files of any length, arrays that begin with any room and fields   *)
(* of any size.                                                            *)
THEOREM CommandsKeptEver == ReadersSpec => []CommandsKept
<1> DEFINE Inv == reader = "nodescape2" => CommandsInv
<1>1. ReadersInit => Inv
  BY InitCommands DEF ReadersInit
<1>2. Inv /\ [ReadersNext]_readerVars => Inv'
  <2> SUFFICES ASSUME Inv, [ReadersNext]_readerVars, reader' = "nodescape2" PROVE CommandsInv'
    OBVIOUS
  <2>1. reader' = reader
    BY DEF ReadersNext, readerVars
  <2>2. CommandsInv
    BY <2>1
  <2>3. [Commands!Next]_Commands!vars
    BY <2>1 DEF ReadersNext, readerVars, Commands!vars, ofCommands
  <2> QED
    BY <2>2, <2>3, NextCommands
<1>3. Inv => CommandsKept
  BY CommandsAreKept, Zenon DEF CommandsKept, Reads
<1> QED
  BY <1>1, <1>2, <1>3, PTL DEF ReadersSpec

----------------------------------------------------------------------------
(* The samples: words and blanks, read two words at a time. *)

LEMMA SampleFacts ==
    /\ SampleBlank \notin SampleNumbers
    /\ \A f \in SampleFiles : /\ Len(f) \in Nat /\ DOMAIN f = 1 .. Len(f)
                              /\ \A k \in 1 .. Len(f) - 1 : SampleBlank \in {f[k], f[k + 1]}
<1>1. Samples!SampleConstants
  BY ReaderConstants
<1> QED
  BY <1>1, Zenon DEF Samples!SampleConstants

LEMMA SampleElements == \A s, P : Samples!ElementsAt(s, P) = ElementsAt(s, P)
<1>1. \A S : Samples!Cardinality(S) = Cardinality(S)
  BY Zenon DEF Samples!Cardinality, Cardinality, Samples!IsFiniteSet, IsFiniteSet
<1> SUFFICES ASSUME NEW s, NEW P PROVE Samples!ElementsAt(s, P) = ElementsAt(s, P)
  OBVIOUS
<1>2. \A m, q : Samples!Cardinality({r \in P : r <= q}) = m <=> Cardinality({r \in P : r <= q}) = m
  BY <1>1, Zenon
<1>3. \A m : (CHOOSE q \in P : Samples!Cardinality({r \in P : r <= q}) = m)
              = CHOOSE q \in P : Cardinality({r \in P : r <= q}) = m
  BY <1>2, Zenon
<1>4. Samples!Cardinality(P) = Cardinality(P)
  BY <1>1, Zenon
<1> DEFINE c(m) == CHOOSE q \in P : Samples!Cardinality({r \in P : r <= q}) = m
           d(m) == CHOOSE q \in P : Cardinality({r \in P : r <= q}) = m
<1>5. Samples!ElementsAt(s, P) = [m \in 1 .. Samples!Cardinality(P) |-> s[c(m)]]
  BY Zenon DEF Samples!ElementsAt
<1>6. ElementsAt(s, P) = [m \in 1 .. Cardinality(P) |-> s[d(m)]]
  BY Zenon DEF ElementsAt
<1>7. \A m : c(m) = d(m)
  BY <1>3
<1> HIDE DEF c, d
<1> QED
  BY <1>4, <1>5, <1>6, <1>7

(* Where the words are, and how many stand before a place. *)
WordPlaces     == {k \in DOMAIN file : file[k] # SampleBlank}
WordsBefore(n) == {k \in WordPlaces : k < n}
Passed(n)      == Cardinality(WordsBefore(n))
AllWords       == Cardinality(WordPlaces)
Nth(n)         == ElementsAt(file, WordPlaces)[n]

LEMMA WordsFinite ==
    ASSUME file \in SampleFiles
    PROVE  /\ IsFiniteSet(WordPlaces) /\ AllWords \in Nat /\ WordPlaces \subseteq 1 .. Len(file)
           /\ \A n : IsFiniteSet(WordsBefore(n)) /\ Passed(n) \in Nat /\ Passed(n) <= AllWords
<1>1. Len(file) \in Nat /\ DOMAIN file = 1 .. Len(file)
  BY SampleFacts
<1>2. IsFiniteSet(1 .. Len(file)) /\ WordPlaces \subseteq 1 .. Len(file)
  BY <1>1, FS_Interval DEF WordPlaces
<1>3. IsFiniteSet(WordPlaces)
  BY <1>2, FS_Subset
<1>4. \A n : WordsBefore(n) \subseteq WordPlaces
  BY DEF WordsBefore
<1> QED
  BY <1>2, <1>3, <1>4, FS_Subset, FS_CardinalityType DEF Passed, AllWords

LEMMA BehindTheFile ==
    ASSUME file \in SampleFiles, NEW n \in Int, n > Len(file)
    PROVE  Passed(n) = AllWords
<1>1. Len(file) \in Nat /\ \A k \in WordPlaces : k \in 1 .. Len(file)
  BY SampleFacts, WordsFinite
<1>2. \A k \in WordPlaces : k < n
  BY <1>1
<1>3. WordsBefore(n) = WordPlaces
  BY <1>2 DEF WordsBefore
<1> QED
  BY <1>3 DEF Passed, AllWords

(* Blanks are not counted. *)
LEMMA BlanksPass ==
    ASSUME file \in SampleFiles, NEW n \in Int, NEW m \in Int, n <= m,
           \A j \in n .. m - 1 : j \notin WordPlaces
    PROVE  Passed(m) = Passed(n)
<1>1. \A k \in WordPlaces : k \in Int
  BY SampleFacts, WordsFinite
<1>2. \A k \in WordPlaces : k < m <=> k < n
  BY <1>1
<1>3. WordsBefore(m) = WordsBefore(n)
  BY <1>2 DEF WordsBefore
<1> QED
  BY <1>3 DEF Passed

LEMMA WordPasses ==
    ASSUME file \in SampleFiles, NEW e \in WordPlaces
    PROVE  e \in Nat /\ Passed(e + 1) = Passed(e) + 1 /\ Nth(Passed(e) + 1) = file[e]
<1>1. Len(file) \in Nat /\ IsFiniteSet(WordPlaces) /\ IsFiniteSet(WordsBefore(e))
      /\ \A k \in WordPlaces : k \in 1 .. Len(file)
  BY SampleFacts, WordsFinite
<1>2. e \in Nat /\ WordPlaces \in SUBSET Int
  BY <1>1
<1>3. \A k \in WordPlaces : (k < e + 1 <=> k < e \/ k = e) /\ (k <= e <=> k < e + 1)
  BY <1>1, <1>2
<1>4. WordsBefore(e + 1) = WordsBefore(e) \cup {e} /\ UpToPlace(WordPlaces, e) = WordsBefore(e + 1)
  BY <1>3 DEF WordsBefore, UpToPlace
<1>5. e \notin WordsBefore(e)
  BY <1>2 DEF WordsBefore
<1>6. Cardinality(WordsBefore(e) \cup {e}) = Cardinality(WordsBefore(e)) + 1
  BY <1>1, <1>5, FS_AddElement
<1>7. Nth(Cardinality(UpToPlace(WordPlaces, e))) = file[e]
  BY <1>1, <1>2, ElementOfPlace DEF Nth
<1> QED
  BY <1>2, <1>4, <1>6, <1>7, Zenon DEF Passed

(* eat_white: the place it gives is a word or behind the file, and between *)
(* stand blanks only.                                                      *)
LEMMA EatWhiteFinds ==
    ASSUME file \in SampleFiles, NEW from \in Nat \ {0}, NEW e, e = Samples!EatWhite(from)
    PROVE  e \in Nat /\ e >= from /\ (e > Len(file) \/ e \in WordPlaces) /\ Passed(e) = Passed(from)
<1> DEFINE OK(k) == /\ k > Len(file) \/ file[k] # SampleBlank
                    /\ \A j \in from .. k - 1 : file[j] = SampleBlank
           S == {k \in from .. from + Len(file) : k > Len(file) \/ file[k] # SampleBlank}
<1>1. Len(file) \in Nat /\ DOMAIN file = 1 .. Len(file)
  BY SampleFacts
<1>2. \E k \in from .. from + Len(file) : OK(k)
  <2>1. from + Len(file) \in S /\ S \in SUBSET Int /\ \A k \in S : from <= k
    BY <1>1
  <2>2. PICK f \in S : \A k \in S : f <= k
    <3>1. PICK n : n = from + Len(file)
      OBVIOUS
    <3>2. n \in S /\ from <= n /\ from \in Int
      BY <1>1, <2>1, <3>1
    <3> HIDE DEF S
    <3> QED
      BY <2>1, <3>2, FirstFrom
  <2>3. \A j \in from .. f - 1 : j \in from .. from + Len(file) /\ ~ (f <= j)
    BY <1>1
  <2>4. \A j \in from .. f - 1 : file[j] = SampleBlank
    BY <2>2, <2>3
  <2> QED
    BY <2>4
<1>3. e = CHOOSE k \in from .. from + Len(file) : OK(k)
  BY Zenon DEF Samples!EatWhite
<1>4. e \in from .. from + Len(file) /\ OK(e)
  <2> HIDE DEF OK
  <2> QED
    BY <1>2, <1>3, Zenon
<1>5. e \in Nat /\ e >= from
  BY <1>1, <1>4
<1>6. e > Len(file) \/ e \in WordPlaces
  BY <1>1, <1>4, <1>5 DEF WordPlaces
<1>7. \A j \in from .. e - 1 : j \notin WordPlaces
  BY <1>4 DEF WordPlaces
<1>8. Passed(e) = Passed(from)
  BY <1>5, <1>7, BlanksPass
<1> QED
  BY <1>5, <1>6, <1>8

(* What a pass finds: two words, the last one, or none. *)
PairFound(p, q, n, here) ==
    /\ n \in Nat \ {0}
    /\ \/ p = <<>> /\ q = <<>> /\ here = AllWords /\ n > Len(file)
       \/ p = <<Nth(here + 1)>> /\ q = <<>> /\ here + 1 = AllWords /\ n > Len(file)
       \/ /\ p = <<Nth(here + 1)>> /\ q = <<Nth(here + 2)>> /\ here + 2 <= AllWords
          /\ Passed(n) = here + 2

LEMMA WordIs ==
    ASSUME file \in SampleFiles, NEW e \in Nat \ {0}, e > Len(file) \/ e \in WordPlaces
    PROVE  /\ e \in WordPlaces => Samples!Word(e) = <<Nth(Passed(e) + 1)>> /\ Samples!After(e) = e + 1
                                  /\ Passed(e + 1) = Passed(e) + 1 /\ e <= Len(file)
           /\ e \notin WordPlaces => Samples!Word(e) = <<>> /\ Samples!After(e) = e /\ e > Len(file)
<1>1. Len(file) \in Nat /\ DOMAIN file = 1 .. Len(file)
  BY SampleFacts
<1>2. ASSUME e \in WordPlaces
      PROVE  Samples!Word(e) = <<Nth(Passed(e) + 1)>> /\ Samples!After(e) = e + 1 /\ Passed(e + 1) = Passed(e) + 1 /\ e <= Len(file)
  <2>1. e \in 1 .. Len(file) /\ file[e] # SampleBlank
    BY <1>1, <1>2 DEF WordPlaces
  <2>2. Samples!Word(e) = <<file[e]>>
    BY <2>1 DEF Samples!Word
  <2>3. Passed(e + 1) = Passed(e) + 1 /\ Nth(Passed(e) + 1) = file[e]
    BY <1>2, WordPasses
  <2>4. Len(Samples!Word(e)) = 1
    BY <2>2
  <2> QED
    BY <2>1, <2>2, <2>3, <2>4 DEF Samples!After
<1>3. ASSUME e \notin WordPlaces
      PROVE  Samples!Word(e) = <<>> /\ Samples!After(e) = e /\ e > Len(file)
  <2>1. ~ (e <= Len(file))
    BY <1>1, <1>3
  <2>2. Samples!Word(e) = <<>>
    BY <2>1 DEF Samples!Word
  <2>3. Len(Samples!Word(e)) = 0
    BY <2>2
  <2> QED
    BY <1>3, <2>2, <2>3 DEF Samples!After
<1> QED
  BY <1>2, <1>3

LEMMA PassFinds ==
    ASSUME file \in SampleFiles, i \in Nat \ {0}
    PROVE  LET first  == Samples!EatWhite(i)
               second == Samples!EatWhite(Samples!After(first))
           IN  PairFound(Samples!Word(first), Samples!Word(second), Samples!After(second) + 1, Passed(i))
<1>1. PICK first : first = Samples!EatWhite(i)
  OBVIOUS
<1>2. PICK second : second = Samples!EatWhite(Samples!After(first))
  OBVIOUS
<1>3. Len(file) \in Nat /\ DOMAIN file = 1 .. Len(file) /\ Passed(i) \in Nat /\ AllWords \in Nat
  BY SampleFacts, WordsFinite
<1>4. first \in Nat \ {0} /\ (first > Len(file) \/ first \in WordPlaces) /\ Passed(first) = Passed(i)
  <2>1. first \in Nat /\ first >= i /\ (first > Len(file) \/ first \in WordPlaces) /\ Passed(first) = Passed(i)
    BY <1>1, EatWhiteFinds
  <2> QED
    BY <2>1
<1>5. Samples!After(first) \in Nat \ {0}
  <2>1. Samples!After(first) = first \/ Samples!After(first) = first + 1
    BY <1>4, WordIs
  <2> QED
    BY <1>4, <2>1
<1>6. second \in Nat \ {0} /\ (second > Len(file) \/ second \in WordPlaces) /\ second >= Samples!After(first)
      /\ Passed(second) = Passed(Samples!After(first))
  <2>1. PICK a : a = Samples!After(first)
    OBVIOUS
  <2>2. second = Samples!EatWhite(a) /\ a \in Nat \ {0}
    BY <1>2, <1>5, <2>1, Zenon
  <2>3. second \in Nat /\ (second > Len(file) \/ second \in WordPlaces) /\ second >= a /\ Passed(second) = Passed(a)
    BY <2>2, EatWhiteFinds
  <2>4. second \in Nat \ {0}
    BY <2>2, <2>3
  <2> QED
    BY <2>1, <2>3, <2>4, Zenon
<1>7. PICK p, q, n, here : /\ p = Samples!Word(first) /\ q = Samples!Word(second) /\ n = Samples!After(second) + 1
                           /\ here = Passed(i)
  OBVIOUS
<1>8. CASE first \notin WordPlaces
  <2>1. p = <<>> /\ Samples!After(first) = first /\ first > Len(file)
    BY <1>4, <1>7, <1>8, WordIs
  <2>2. second > Len(file) /\ second \notin WordPlaces
    BY <1>3, <1>4, <1>6, <2>1 DEF WordPlaces
  <2>3. q = <<>> /\ Samples!After(second) = second
    BY <1>6, <1>7, <2>2, WordIs
  <2>4. n \in Nat \ {0} /\ n > Len(file)
    BY <1>3, <1>6, <1>7, <2>2, <2>3
  <2>5. here = AllWords
    BY <1>4, <1>7, <2>1, BehindTheFile
  <2> QED
    BY <1>1, <1>2, <1>7, <2>1, <2>3, <2>4, <2>5, Zenon DEF PairFound
<1>9. CASE first \in WordPlaces
  <2>1. p = <<Nth(here + 1)>> /\ Samples!After(first) = first + 1 /\ Passed(first + 1) = here + 1 /\ first <= Len(file)
    BY <1>4, <1>7, <1>9, WordIs
  <2>2. CASE second \notin WordPlaces
    <3>1. q = <<>> /\ Samples!After(second) = second /\ second > Len(file)
      BY <1>6, <1>7, <2>2, WordIs
    <3>2. n \in Nat \ {0} /\ n > Len(file)
      BY <1>3, <1>6, <1>7, <3>1
    <3>3. Passed(second) = AllWords
      BY <1>6, <3>1, BehindTheFile
    <3>4. here + 1 = AllWords
      BY <1>6, <2>1, <3>3
    <3> QED
      BY <1>1, <1>2, <1>7, <2>1, <3>1, <3>2, <3>4, Zenon DEF PairFound
  <2>3. CASE second \in WordPlaces
    <3>1. q = <<Nth(Passed(second) + 1)>> /\ Samples!After(second) = second + 1 /\ Passed(second + 1) = Passed(second) + 1
          /\ second <= Len(file)
      BY <1>6, <1>7, <2>3, WordIs
    <3>2. Passed(second) = here + 1 /\ here \in Nat
      BY <1>3, <1>6, <1>7, <2>1
    <3>3. q = <<Nth(here + 2)>>
      <4>1. (here + 1) + 1 = here + 2
        BY <3>2
      <4> QED
        BY <3>1, <3>2, <4>1, Zenon
    <3>4. n = second + 2 /\ n \in Nat \ {0}
      BY <1>6, <1>7, <3>1
    <3>5. second + 1 \notin WordPlaces
      <4>1. second + 1 <= Len(file) => SampleBlank \in {file[second], file[second + 1]}
        <5>1. second \in Nat \ {0}
          BY <1>6
        <5> SUFFICES ASSUME second + 1 <= Len(file) PROVE SampleBlank \in {file[second], file[second + 1]}
          OBVIOUS
        <5>2. second \in 1 .. Len(file) - 1
          BY <1>3, <5>1
        <5> QED
          BY <5>2, SampleFacts
      <4>2. file[second] # SampleBlank
        BY <2>3 DEF WordPlaces
      <4>3. second + 1 \in DOMAIN file => second + 1 <= Len(file)
        BY <1>3
      <4> QED
        BY <4>1, <4>2, <4>3 DEF WordPlaces
    <3>6. Passed(n) = Passed(second + 1)
      <4>1. PICK m : m = second + 1
        OBVIOUS
      <4>2. m \in Int /\ n = m + 1 /\ m \notin WordPlaces
        BY <1>6, <3>4, <3>5, <4>1
      <4>3. n \in Int /\ m <= n /\ \A j \in m .. n - 1 : j = m
        BY <4>2
      <4>4. \A j \in m .. n - 1 : j \notin WordPlaces
        BY <4>2, <4>3, Zenon
      <4>5. Passed(n) = Passed(m)
        BY <4>2, <4>3, <4>4, BlanksPass
      <4> QED
        BY <4>1, <4>5, Zenon
    <3>7. Passed(n) = here + 2
      BY <3>1, <3>2, <3>6
    <3>8. here + 2 <= AllWords
      BY <3>7, WordsFinite
    <3> QED
      BY <1>1, <1>2, <1>7, <2>1, <3>3, <3>4, <3>7, <3>8, Zenon DEF PairFound
  <2> QED
    BY <2>2, <2>3
<1> QED
  BY <1>8, <1>9

SamplesTyped == file \in SampleFiles /\ i \in Nat \ {0} /\ IsArray(values) /\ err \in BOOLEAN

PairsRead == \A k \in 1 .. Len(values) : 2 * k <= AllWords /\ values[k] = << <<Nth(2 * k - 1)>>, <<Nth(2 * k)>> >>

ErrorIsThere(k) == k >= AllWords - 1 \/ Nth(k + 1) \notin SampleNumbers \/ Nth(k + 2) \notin SampleNumbers

PairsInv == SamplesTyped /\ PairsRead /\ Passed(i) = 2 * Len(values) /\ (err => ErrorIsThere(2 * Len(values)))

WordOrNone(k) == IF k <= AllWords THEN <<Nth(k)>> ELSE <<>>

DataInv ==
    /\ SamplesTyped
    /\ \A k \in 1 .. Len(values) : values[k] = <<WordOrNone(2 * k - 1), WordOrNone(2 * k)>>
    /\ i <= Len(file) => Passed(i) = 2 * Len(values)
    /\ i > Len(file) => 2 * Len(values) \in AllWords .. AllWords + 2

LEMMA FileKept ==
    ASSUME file' = file
    PROVE  /\ AllWords' = AllWords /\ \A n : Nth(n)' = Nth(n) /\ Passed(n)' = Passed(n)
           /\ Passed(i)' = Passed(i')
<1>1. WordPlaces' = WordPlaces
  BY DEF WordPlaces
<1>2. AllWords' = AllWords
  BY <1>1 DEF AllWords
<1>3. \A n : Nth(n)' = Nth(n)
  BY <1>1 DEF Nth
<1>4. \A n : Passed(n)' = Passed(n)
  BY <1>1 DEF Passed, WordsBefore
<1>5. Passed(i)' = Passed(i')
  BY <1>1 DEF Passed, WordsBefore
<1> QED
  BY <1>2, <1>3, <1>4, <1>5

LEMMA PairsStep ==
    ASSUME PairsInv, NEW b \in BOOLEAN, Samples!Pass(b)
    PROVE  PairsInv'
<1>1. /\ file \in SampleFiles /\ i \in Nat \ {0} /\ IsArray(values) /\ err \in BOOLEAN /\ PairsRead
      /\ Passed(i) = 2 * Len(values) /\ (err => ErrorIsThere(2 * Len(values))) /\ Len(values) \in Nat
  BY DEF PairsInv, SamplesTyped, IsArray
<1>2. AllWords \in Nat
  BY <1>1, WordsFinite
<1>3. PICK p, q, n :
        /\ PairFound(p, q, n, Passed(i))
        /\ IF (b => Samples!IsNumber(p)) /\ Samples!IsNumber(q)
           THEN values' = Append(values, <<p, q>>) /\ i' = n /\ err' = err
           ELSE err' = TRUE /\ i' = i /\ values' = values
  BY <1>1, PassFinds, Zenon DEF Samples!Pass
<1>4. file' = file /\ ~ err
  BY DEF Samples!Pass
<1>5. AllWords' = AllWords /\ (\A k : Nth(k)' = Nth(k)) /\ Passed(i)' = Passed(i')
  BY <1>4, FileKept
<1>6. CASE (b => Samples!IsNumber(p)) /\ Samples!IsNumber(q)
  <2>1. values' = Append(values, <<p, q>>) /\ i' = n /\ err' = err
    BY <1>3, <1>6
  <2>2. q # <<>>
    BY <1>6 DEF Samples!IsNumber
  <2>3. /\ p = <<Nth(Passed(i) + 1)>> /\ q = <<Nth(Passed(i) + 2)>> /\ Passed(i) + 2 <= AllWords
        /\ Passed(n) = Passed(i) + 2 /\ n \in Nat \ {0}
    BY <1>3, <2>2 DEF PairFound
  <2>4. /\ IsArray(values') /\ Len(values') = Len(values) + 1 /\ values'[Len(values) + 1] = <<p, q>>
        /\ \A k \in 1 .. Len(values) : values'[k] = values[k]
    <3>1. PICK c, x, d : c = values /\ x = <<p, q>> /\ d = values'
      OBVIOUS
    <3>2. IsArray(c) /\ d = Append(c, x)
      BY <1>1, <2>1, <3>1, Zenon
    <3>3. IsLonger(d, c, x)
      BY <3>2, AppendArray
    <3> QED
      BY <3>1, <3>3, Zenon DEF IsLonger
  <2>5. PairsRead'
    <3>1. ASSUME NEW k \in 1 .. Len(values) + 1
          PROVE  2 * k <= AllWords /\ values'[k] = << <<Nth(2 * k - 1)>>, <<Nth(2 * k)>> >>
      <4>1. CASE k \in 1 .. Len(values)
        BY <1>1, <2>4, <4>1 DEF PairsRead
      <4>2. CASE k = Len(values) + 1
        <5>1. 2 * k = Passed(i) + 2 /\ 2 * k - 1 = Passed(i) + 1
          BY <1>1, <4>2
        <5> QED
          BY <2>3, <2>4, <4>2, <5>1
      <4> QED
        BY <1>1, <4>1, <4>2
    <3> QED
      BY <1>5, <2>4, <3>1 DEF PairsRead
  <2>6. Passed(i)' = 2 * Len(values)'
    BY <1>1, <1>5, <2>1, <2>3, <2>4
  <2>7. SamplesTyped'
    BY <1>1, <1>4, <2>1, <2>3, <2>4 DEF SamplesTyped, IsArray
  <2> QED
    BY <1>4, <2>1, <2>5, <2>6, <2>7 DEF PairsInv
<1>7. CASE ~ ((b => Samples!IsNumber(p)) /\ Samples!IsNumber(q))
  <2>1. err' = TRUE /\ i' = i /\ values' = values
    BY <1>3, <1>7
  <2>2. ErrorIsThere(Passed(i))
    <3>1. CASE Passed(i) = AllWords \/ Passed(i) + 1 = AllWords
      BY <1>1, <1>2, <3>1 DEF ErrorIsThere
    <3>2. CASE p = <<Nth(Passed(i) + 1)>> /\ q = <<Nth(Passed(i) + 2)>>
      <4>1. \A x : <<x>> # <<>> /\ <<x>>[1] = x
        OBVIOUS
      <4> QED
        BY <1>7, <3>2, <4>1, Zenon DEF ErrorIsThere, Samples!IsNumber
    <3> QED
      BY <1>3, <3>1, <3>2 DEF PairFound
  <2>3. ErrorIsThere(2 * Len(values))'
    BY <1>1, <1>5, <2>1, <2>2 DEF ErrorIsThere
  <2>4. SamplesTyped' /\ PairsRead'
    BY <1>1, <1>4, <1>5, <2>1 DEF SamplesTyped, PairsRead, IsArray
  <2> QED
    BY <1>1, <1>5, <2>1, <2>3, <2>4 DEF PairsInv
<1> QED
  BY <1>6, <1>7

LEMMA DataStep == ASSUME DataInv, Samples!ReadData PROVE DataInv'
<1>1. /\ file \in SampleFiles /\ i \in Nat \ {0} /\ IsArray(values) /\ err \in BOOLEAN /\ Len(values) \in Nat
      /\ \A k \in 1 .. Len(values) : values[k] = <<WordOrNone(2 * k - 1), WordOrNone(2 * k)>>
  BY DEF DataInv, SamplesTyped, IsArray
<1>2. AllWords \in Nat
  BY <1>1, WordsFinite
<1>3. PICK p, q, n : PairFound(p, q, n, Passed(i)) /\ values' = Append(values, <<p, q>>) /\ i' = n
  BY <1>1, PassFinds, Zenon DEF Samples!ReadData
<1>4. file' = file /\ err' = err /\ i <= Len(file)
  BY DEF Samples!ReadData
<1>5. AllWords' = AllWords /\ (\A k : Nth(k)' = Nth(k)) /\ Passed(i)' = Passed(i')
  BY <1>4, FileKept
<1>6. Passed(i) = 2 * Len(values)
  BY <1>4 DEF DataInv
<1>7. n \in Nat \ {0}
  BY <1>3 DEF PairFound
<1>8. /\ IsArray(values') /\ Len(values') = Len(values) + 1 /\ values'[Len(values) + 1] = <<p, q>>
      /\ \A k \in 1 .. Len(values) : values'[k] = values[k]
  <2>1. PICK c, x, d : c = values /\ x = <<p, q>> /\ d = values'
    OBVIOUS
  <2>2. IsArray(c) /\ d = Append(c, x)
    BY <1>1, <1>3, <2>1, Zenon
  <2>3. IsLonger(d, c, x)
    BY <2>2, AppendArray
  <2> QED
    BY <2>1, <2>3, Zenon DEF IsLonger
<1>9. /\ p = WordOrNone(Passed(i) + 1) /\ q = WordOrNone(Passed(i) + 2)
      /\ \/ Passed(i) + 2 \in AllWords .. AllWords + 2 /\ n > Len(file)
         \/ Passed(n) = Passed(i) + 2
  <2>1. CASE p = <<>> /\ q = <<>> /\ Passed(i) = AllWords /\ n > Len(file)
    BY <1>2, <2>1 DEF WordOrNone
  <2>2. CASE p = <<Nth(Passed(i) + 1)>> /\ q = <<>> /\ Passed(i) + 1 = AllWords /\ n > Len(file)
    BY <1>1, <1>2, <1>6, <2>2 DEF WordOrNone
  <2>3. CASE /\ p = <<Nth(Passed(i) + 1)>> /\ q = <<Nth(Passed(i) + 2)>> /\ Passed(i) + 2 <= AllWords
             /\ Passed(n) = Passed(i) + 2
    BY <1>1, <1>2, <1>6, <2>3 DEF WordOrNone
  <2> QED
    BY <1>3, <2>1, <2>2, <2>3 DEF PairFound
<1>10. SamplesTyped'
  BY <1>1, <1>3, <1>4, <1>7, <1>8 DEF SamplesTyped, IsArray
<1>11. (\A k \in 1 .. Len(values) : values[k] = <<WordOrNone(2 * k - 1), WordOrNone(2 * k)>>)'
  <2>1. ASSUME NEW k \in 1 .. Len(values) + 1
        PROVE  values'[k] = <<WordOrNone(2 * k - 1), WordOrNone(2 * k)>>
    <3>1. CASE k \in 1 .. Len(values)
      BY <1>1, <1>8, <3>1
    <3>2. CASE k = Len(values) + 1
      <4>1. 2 * k = Passed(i) + 2 /\ 2 * k - 1 = Passed(i) + 1
        BY <1>1, <1>6, <3>2
      <4> QED
        BY <1>8, <1>9, <3>2, <4>1
    <3> QED
      BY <1>1, <3>1, <3>2
  <2> QED
    BY <1>5, <1>8, <2>1 DEF WordOrNone
<1>12. Passed(n) = Passed(i) + 2 /\ n > Len(file) => Passed(i) + 2 \in AllWords .. AllWords + 2
  BY <1>1, <1>2, <1>7, BehindTheFile
<1>13. (i <= Len(file) => Passed(i) = 2 * Len(values))' /\ (i > Len(file) => 2 * Len(values) \in AllWords .. AllWords + 2)'
  <2>1. 2 * Len(values') = Passed(i) + 2
    BY <1>1, <1>6, <1>8
  <2>2. Len(file) \in Nat
    BY <1>1, SampleFacts
  <2> QED
    BY <1>3, <1>4, <1>5, <1>7, <1>9, <1>12, <2>1, <2>2
<1> QED
  BY <1>10, <1>11, <1>13 DEF DataInv

LEMMA InitSamples == ASSUME Samples!Init PROVE PairsInv /\ DataInv
<1>1. file \in SampleFiles /\ i = 1 /\ values = <<>> /\ err = FALSE
  BY DEF Samples!Init
<1>2. IsArray(values) /\ Len(values) = 0
  BY <1>1 DEF IsArray
<1>3. SamplesTyped
  <2>1. i \in Nat \ {0}
    BY <1>1
  <2> QED
    BY <1>1, <1>2, <2>1, Zenon DEF SamplesTyped
<1>4. Passed(i) = 0 /\ AllWords \in Nat
  <2>1. WordsBefore(i) = {}
    <3>1. \A k \in WordPlaces : k \in 1 .. Len(file)
      BY <1>1, WordsFinite
    <3> QED
      BY <1>1, <3>1 DEF WordsBefore
  <2> QED
    BY <1>1, <2>1, WordsFinite, FS_EmptySet DEF Passed
<1>5. i > Len(file) => AllWords = 0
  BY <1>1, <1>4, BehindTheFile
<1>6. \A k \in 1 .. Len(values) : FALSE
  BY <1>2
<1> QED
  BY <1>1, <1>2, <1>3, <1>4, <1>5, <1>6 DEF PairsInv, DataInv, PairsRead

LEMMA UnchangedKeepsSamples ==
    ASSUME UNCHANGED Samples!vars PROVE (PairsInv => PairsInv') /\ (DataInv => DataInv')
<1>1. file' = file /\ i' = i /\ values' = values /\ err' = err
  BY DEF Samples!vars
<1>2. AllWords' = AllWords /\ (\A k : Nth(k)' = Nth(k)) /\ Passed(i)' = Passed(i)
  BY <1>1, FileKept
<1>3. SamplesTyped' = SamplesTyped
  BY <1>1 DEF SamplesTyped, IsArray
<1>4. PairsRead' = PairsRead /\ ErrorIsThere(2 * Len(values))' = ErrorIsThere(2 * Len(values))
  BY <1>1, <1>2 DEF PairsRead, ErrorIsThere
<1> QED
  BY <1>1, <1>2, <1>3, <1>4 DEF PairsInv, DataInv, WordOrNone

(* What is said of the reader follows. *)
LEMMA TheWordsAre ==
    ASSUME file \in SampleFiles
    PROVE  /\ Len(Samples!TheWords) = AllWords /\ AllWords \in Nat
           /\ \A k : Samples!TheWords[k] = Nth(k)
<1>1. Samples!TheWords = ElementsAt(file, WordPlaces)
  BY SampleElements, Zenon DEF Samples!TheWords, WordPlaces
<1>2. Len(ElementsAt(file, WordPlaces)) = AllWords /\ AllWords \in Nat
  BY WordsFinite, ElementsLength DEF AllWords
<1> QED
  BY <1>1, <1>2, Zenon DEF Nth

LEMMA PairsAreKept ==
    ASSUME PairsInv PROVE Samples!PairsInOrder /\ Samples!NothingLeftOver /\ Samples!ErrorsKeepWhatWasRead
<1>1. /\ file \in SampleFiles /\ i \in Nat \ {0} /\ IsArray(values) /\ PairsRead
      /\ Passed(i) = 2 * Len(values) /\ (err => ErrorIsThere(2 * Len(values)))
  BY DEF PairsInv, SamplesTyped
<1>2. Len(Samples!TheWords) = AllWords /\ \A k : Samples!TheWords[k] = Nth(k)
  BY <1>1, TheWordsAre
<1>3. DOMAIN values = 1 .. Len(values)
  BY <1>1 DEF IsArray
<1>4. Samples!PairsInOrder
  BY <1>1, <1>2, <1>3, Zenon DEF Samples!PairsInOrder, PairsRead
<1>5. Samples!NothingLeftOver
  BY <1>1, <1>2, BehindTheFile DEF Samples!NothingLeftOver
<1>6. Samples!ErrorsKeepWhatWasRead
  BY <1>1, <1>2, Zenon DEF Samples!ErrorsKeepWhatWasRead, ErrorIsThere
<1> QED
  BY <1>4, <1>5, <1>6

LEMMA DataAreKept == ASSUME DataInv PROVE Samples!BadPairsKeepTheirPlace
<1>1. /\ file \in SampleFiles /\ IsArray(values)
      /\ \A k \in 1 .. Len(values) : values[k] = <<WordOrNone(2 * k - 1), WordOrNone(2 * k)>>
      /\ i > Len(file) => 2 * Len(values) \in AllWords .. AllWords + 2
  BY DEF DataInv, SamplesTyped
<1>2. Len(Samples!TheWords) = AllWords /\ \A k : Samples!TheWords[k] = Nth(k)
  BY <1>1, TheWordsAre
<1>3. DOMAIN values = 1 .. Len(values)
  BY <1>1 DEF IsArray
<1> QED
  BY <1>1, <1>2, <1>3, Zenon DEF Samples!BadPairsKeepTheirPlace, WordOrNone

(* saxutil.go:76-152 and scomp_local.go:189-233: the pairs that are read   *)
(* are those of the file, in order, whatever the blanks between them; a    *)
(* file read without an error leaves none over, an error comes no earlier  *)
(* than the pair that is bad, and the reader without errors moves no pair  *)
(* out of its place - for files of any length.                             *)
THEOREM SamplesReadBackEver == ReadersSpec => []SamplesReadBack
<1> DEFINE Inv == /\ reader \in {"samples", "profile"} => PairsInv
                  /\ reader = "data" => DataInv
<1>1. ReadersInit => Inv
  BY InitSamples DEF ReadersInit
<1>2. Inv /\ [ReadersNext]_readerVars => Inv'
  <2> SUFFICES ASSUME Inv, [ReadersNext]_readerVars, reader' \in {"samples", "profile", "data"} PROVE Inv'
    OBVIOUS
  <2>1. reader' = reader
    BY DEF ReadersNext, readerVars
  <2>2. CASE reader = "samples" /\ Samples!ArraysFromFile
    <3>1. PairsInv /\ Samples!Pass(TRUE)
      BY <2>2 DEF Samples!ArraysFromFile
    <3> QED
      BY <2>1, <2>2, <3>1, PairsStep
  <2>3. CASE reader = "profile" /\ Samples!ReadProfile
    <3>1. PairsInv /\ Samples!Pass(FALSE)
      BY <2>3 DEF Samples!ReadProfile
    <3> QED
      BY <2>1, <2>3, <3>1, PairsStep
  <2>4. CASE reader = "data" /\ Samples!ReadData
    BY <2>1, <2>4, DataStep
  <2>5. CASE UNCHANGED Samples!vars
    BY <2>1, <2>5, UnchangedKeepsSamples
  <2> QED
    BY <2>1, <2>2, <2>3, <2>4, <2>5 DEF ReadersNext, readerVars, Samples!vars, ofSamples
<1>3. Inv => SamplesReadBack
  BY PairsAreKept, DataAreKept, Zenon DEF SamplesReadBack, Reads
<1> QED
  BY <1>1, <1>2, <1>3, PTL DEF ReadersSpec

----------------------------------------------------------------------------
(* The options of the SAX tools: first the file is split into lines of     *)
(* tokens, without its comments.                                           *)

SaxWords == DOMAIN WordLengths
SaxMarks == {Sax!Blank, Sax!Hash, Sax!NL}

LEMMA SaxFacts ==
    /\ SaxFiles \subseteq Seq(SaxWords \cup SaxMarks)
    /\ \A w \in DOMAIN SaxNumbers : SaxNumbers[w] \in Int
<1>1. Sax!SaxConstants
  BY ReaderConstants
<1> QED
  BY <1>1, Zenon DEF Sax!SaxConstants, SaxWords, SaxMarks

LEMMA SaxFile ==
    ASSUME file \in SaxFiles
    PROVE  /\ Len(file) \in Nat /\ DOMAIN file = 1 .. Len(file) /\ file = [k \in 1 .. Len(file) |-> file[k]]
           /\ \A k \in 1 .. Len(file) : file[k] \in SaxWords \cup SaxMarks
<1>1. file \in Seq(SaxWords \cup SaxMarks)
  BY SaxFacts
<1> HIDE DEF SaxWords, SaxMarks
<1> QED
  BY <1>1

LEMMA MarksDiffer == Sax!Blank # Sax!Hash /\ Sax!Blank # Sax!NL /\ Sax!Hash # Sax!NL
  BY DEF Sax!Blank, Sax!Hash, Sax!NL

LEMMA SaxElements == \A s, P : Sax!ElementsAt(s, P) = ElementsAt(s, P)
<1>1. \A S : Sax!Cardinality(S) = Cardinality(S)
  BY Zenon DEF Sax!Cardinality, Cardinality, Sax!IsFiniteSet, IsFiniteSet
<1> SUFFICES ASSUME NEW s, NEW P PROVE Sax!ElementsAt(s, P) = ElementsAt(s, P)
  OBVIOUS
<1>2. \A m, q : Sax!Cardinality({r \in P : r <= q}) = m <=> Cardinality({r \in P : r <= q}) = m
  BY <1>1, Zenon
<1>3. \A m : (CHOOSE q \in P : Sax!Cardinality({r \in P : r <= q}) = m)
              = CHOOSE q \in P : Cardinality({r \in P : r <= q}) = m
  BY <1>2, Zenon
<1>4. Sax!Cardinality(P) = Cardinality(P)
  BY <1>1, Zenon
<1> DEFINE c(m) == CHOOSE q \in P : Sax!Cardinality({r \in P : r <= q}) = m
           d(m) == CHOOSE q \in P : Cardinality({r \in P : r <= q}) = m
<1>5. Sax!ElementsAt(s, P) = [m \in 1 .. Sax!Cardinality(P) |-> s[c(m)]]
  BY Zenon DEF Sax!ElementsAt
<1>6. ElementsAt(s, P) = [m \in 1 .. Cardinality(P) |-> s[d(m)]]
  BY Zenon DEF ElementsAt
<1>7. \A m : c(m) = d(m)
  BY <1>3
<1> HIDE DEF c, d
<1> QED
  BY <1>4, <1>5, <1>6, <1>7

(* The line a place is in: one more than lines end before it. *)
EndsBefore(k) == {j \in 1 .. k - 1 : file[j] = Sax!NL}
LineAt(k)     == 1 + Cardinality(EndsBefore(k))

LEMMA LineNumbers == \A k : Sax!LineNumber(k) = LineAt(k)
<1>1. \A S : Sax!Cardinality(S) = Cardinality(S)
  BY Zenon DEF Sax!Cardinality, Cardinality, Sax!IsFiniteSet, IsFiniteSet
<1> QED
  BY <1>1, Zenon DEF Sax!LineNumber, LineAt, EndsBefore

LEMMA LineType == \A k \in Int : IsFiniteSet(EndsBefore(k)) /\ LineAt(k) \in Nat \ {0}
<1> SUFFICES ASSUME NEW k \in Int PROVE IsFiniteSet(EndsBefore(k)) /\ LineAt(k) \in Nat \ {0}
  OBVIOUS
<1>1. IsFiniteSet(1 .. k - 1)
  BY FS_Interval
<1>2. IsFiniteSet(EndsBefore(k))
  BY <1>1, FS_Subset DEF EndsBefore
<1>3. Cardinality(EndsBefore(k)) \in Nat
  BY <1>2, FS_CardinalityType
<1> QED
  BY <1>2, <1>3 DEF LineAt

(* The end of a line begins the next one, anything else stays in it. *)
LEMMA LineSteps ==
    ASSUME NEW k \in Nat \ {0}
    PROVE  LineAt(k + 1) = IF file[k] = Sax!NL THEN LineAt(k) + 1 ELSE LineAt(k)
<1>1. IsFiniteSet(EndsBefore(k)) /\ Cardinality(EndsBefore(k)) \in Nat
  BY LineType, FS_CardinalityType
<1>2. 1 .. (k + 1) - 1 = (1 .. k - 1) \cup {k} /\ k \notin 1 .. k - 1
  OBVIOUS
<1>3. CASE file[k] = Sax!NL
  <2>1. EndsBefore(k + 1) = EndsBefore(k) \cup {k} /\ k \notin EndsBefore(k)
    BY <1>2, <1>3 DEF EndsBefore
  <2>2. Cardinality(EndsBefore(k) \cup {k}) = Cardinality(EndsBefore(k)) + 1
    BY <1>1, <2>1, FS_AddElement
  <2>3. PICK c : c = Cardinality(EndsBefore(k))
    OBVIOUS
  <2>4. LineAt(k + 1) = 1 + (c + 1) /\ LineAt(k) = 1 + c /\ c \in Nat
    BY <1>1, <2>1, <2>2, <2>3, Zenon DEF LineAt
  <2> QED
    BY <1>3, <2>4
<1>4. CASE file[k] # Sax!NL
  <2>1. EndsBefore(k + 1) = EndsBefore(k)
    BY <1>2, <1>4 DEF EndsBefore
  <2> QED
    BY <1>4, <2>1, Zenon DEF LineAt
<1> QED
  BY <1>3, <1>4

LEMMA LinesGrow ==
    ASSUME NEW j \in Nat \ {0}, NEW k \in Nat \ {0}, j <= k
    PROVE  /\ LineAt(j) <= LineAt(k)
           /\ (\A m \in j .. k - 1 : file[m] # Sax!NL) => LineAt(k) = LineAt(j)
           /\ file[j] = Sax!NL /\ j < k => LineAt(j) < LineAt(k)
<1>1. \A a \in Int : IsFiniteSet(EndsBefore(a)) /\ Cardinality(EndsBefore(a)) \in Nat /\ LineAt(a) \in Nat
  BY LineType, FS_CardinalityType
<1>2. ASSUME NEW a \in Int, NEW b \in Int, a <= b PROVE LineAt(a) <= LineAt(b)
  <2>1. EndsBefore(a) \subseteq EndsBefore(b)
    BY <1>2 DEF EndsBefore
  <2>2. Cardinality(EndsBefore(a)) <= Cardinality(EndsBefore(b))
    BY <1>1, <2>1, FS_Subset
  <2> QED
    BY <1>1, <2>2 DEF LineAt
<1>3. LineAt(j) <= LineAt(k)
  BY <1>2
<1>4. ASSUME \A m \in j .. k - 1 : file[m] # Sax!NL PROVE LineAt(k) = LineAt(j)
  <2>1. EndsBefore(k) = EndsBefore(j)
    BY <1>4 DEF EndsBefore
  <2> QED
    BY <2>1, Zenon DEF LineAt
<1>5. ASSUME file[j] = Sax!NL, j < k PROVE LineAt(j) < LineAt(k)
  <2>1. LineAt(j + 1) = LineAt(j) + 1
    BY <1>5, LineSteps
  <2>2. LineAt(j + 1) <= LineAt(k)
    <3>1. j + 1 \in Int /\ k \in Int /\ j + 1 <= k
      BY <1>5
    <3> QED
      BY <1>2, <3>1
  <2> QED
    BY <1>1, <2>1, <2>2
<1> QED
  BY <1>3, <1>4, <1>5

(* The next place of a sequence is appended. *)
LEMMA AppendElement ==
    ASSUME NEW s, NEW P \in SUBSET Int, IsFiniteSet(P), NEW n \in Int, \A p \in P : p < n,
           NEW old, old = ElementsAt(s, P), NEW x, x = s[n], NEW new, new = Append(old, x)
    PROVE  new = ElementsAt(s, P \cup {n})
<1>1. Len(old) = Cardinality(P) /\ Cardinality(P) \in Nat /\ IsArray(old)
  <2>1. Len(old) = Cardinality(P) /\ Cardinality(P) \in Nat
    BY ElementsLength
  <2>2. old = [m \in 1 .. Cardinality(P) |-> old[m]]
    BY DEF ElementsAt
  <2> QED
    BY <2>1, <2>2 DEF IsArray
<1>2. IsLonger(new, old, x)
  BY <1>1, AppendArray
<1>3. PICK both, c : both = ElementsAt(s, P \cup {n}) /\ c = Cardinality(P)
  OBVIOUS
<1>4. /\ IsFiniteSet(P \cup {n}) /\ Cardinality(P \cup {n}) = c + 1
      /\ (\A m \in 1 .. c : both[m] = old[m]) /\ both[c + 1] = x
  <2>1. /\ IsFiniteSet(P \cup {n}) /\ Cardinality(P \cup {n}) = Cardinality(P) + 1
        /\ (\A m \in 1 .. Cardinality(P) : ElementsAt(s, P \cup {n})[m] = ElementsAt(s, P)[m])
        /\ ElementsAt(s, P \cup {n})[Cardinality(P) + 1] = s[n]
    BY OneMorePlace
  <2> QED
    BY <1>3, <2>1, Zenon
<1>5. both = [m \in 1 .. c + 1 |-> both[m]]
  <2>1. PICK k : k = Cardinality(P \cup {n})
    OBVIOUS
  <2>2. both = [m \in 1 .. k |-> both[m]]
    BY <1>3, <2>1 DEF ElementsAt
  <2>3. k = c + 1
    BY <1>4, <2>1
  <2> QED
    BY <2>2, <2>3
<1>6. new = [m \in 1 .. c + 1 |-> new[m]] /\ (\A m \in 1 .. c : new[m] = old[m]) /\ new[c + 1] = x /\ c \in Nat
  BY <1>1, <1>2, <1>3, Zenon DEF IsLonger, IsArray
<1>7. \A m \in 1 .. c + 1 : new[m] = both[m]
  <2>1. \A m \in 1 .. c + 1 : m \in 1 .. c \/ m = c + 1
    BY <1>6
  <2> QED
    BY <1>4, <1>6, <2>1, Zenon
<1>8. new = both
  BY <1>5, <1>6, <1>7
<1> QED
  BY <1>3, <1>8

(* The tokens of a line: its words before the first hash. *)
Commented(k, n)    == \E j \in 1 .. k - 1 : file[j] = Sax!Hash /\ LineAt(j) = n
TokenPlaces(n)     == {k \in DOMAIN file : Sax!IsWord(k) /\ LineAt(k) = n /\ ~ Commented(k, n)}
TokensBefore(n, k) == {p \in TokenPlaces(n) : p < k}

LEMMA WordsOfLine == \A n : Sax!WordsOf(n) = ElementsAt(file, TokenPlaces(n))
<1>1. \A n : TokenPlaces(n) = {k \in DOMAIN file : Sax!IsWord(k) /\ Sax!LineNumber(k) = n
                                /\ ~ \E j \in 1 .. k - 1 : file[j] = Sax!Hash /\ Sax!LineNumber(j) = n}
  BY LineNumbers, Zenon DEF TokenPlaces, Commented
<1> QED
  BY <1>1, SaxElements, Zenon DEF Sax!WordsOf

LEMMA TokensFinite ==
    ASSUME file \in SaxFiles, NEW n
    PROVE  /\ IsFiniteSet(TokenPlaces(n)) /\ TokenPlaces(n) \subseteq 1 .. Len(file)
           /\ \A k : IsFiniteSet(TokensBefore(n, k)) /\ TokensBefore(n, k) \in SUBSET Int
<1>1. Len(file) \in Nat /\ DOMAIN file = 1 .. Len(file)
  BY SaxFile
<1>2. IsFiniteSet(1 .. Len(file)) /\ TokenPlaces(n) \subseteq 1 .. Len(file)
  BY <1>1, FS_Interval DEF TokenPlaces
<1>3. IsFiniteSet(TokenPlaces(n))
  BY <1>2, FS_Subset
<1>4. \A k : TokensBefore(n, k) \subseteq TokenPlaces(n)
  BY DEF TokensBefore
<1>5. 1 .. Len(file) \in SUBSET Int
  BY <1>1
<1> QED
  BY <1>2, <1>3, <1>4, <1>5, FS_Subset

LEMMA NoTokensBetween ==
    ASSUME file \in SaxFiles, NEW n, NEW a \in Int, NEW b \in Int, a <= b,
           \A m \in a .. b - 1 : m \notin TokenPlaces(n)
    PROVE  TokensBefore(n, b) = TokensBefore(n, a)
<1>1. \A p \in TokenPlaces(n) : p \in Int
  BY SaxFile, TokensFinite
<1>2. \A p \in TokenPlaces(n) : p < b <=> p < a
  BY <1>1
<1> QED
  BY <1>2 DEF TokensBefore

(* Whatever is looked for and is found at the latest behind the file. *)
LEMMA FirstPlace ==
    ASSUME file \in SaxFiles, NEW k \in Nat \ {0}, k <= Len(file) + 1, NEW S \in SUBSET Int, Len(file) + 1 \in S
    PROVE  \E m \in k .. Len(file) + 1 : m \in S /\ \A j \in k .. m - 1 : j \notin S
<1> DEFINE T == {m \in k .. Len(file) + 1 : m \in S}
<1>1. Len(file) \in Nat
  BY SaxFile
<1>2. T \in SUBSET Int /\ \A m \in T : k <= m
  BY <1>1
<1>3. PICK n : n = Len(file) + 1
  OBVIOUS
<1>4. n \in T /\ k <= n
  BY <1>1, <1>3
<1>5. PICK f \in T : \A m \in T : f <= m
  <2> HIDE DEF T
  <2>1. k \in Int
    OBVIOUS
  <2> QED
    BY <1>2, <1>4, <2>1, FirstFrom
<1>6. \A j \in k .. f - 1 : j \in k .. Len(file) + 1 /\ ~ (f <= j)
  BY <1>1
<1>7. \A j \in k .. f - 1 : j \notin S
  BY <1>5, <1>6
<1> QED
  BY <1>7

LEMMA PastBlanksFinds ==
    ASSUME file \in SaxFiles, NEW k \in Nat \ {0}, k <= Len(file) + 1, NEW f, f = Sax!PastBlanks(k)
    PROVE  /\ f \in k .. Len(file) + 1 /\ ~ Sax!Is(f, Sax!Blank)
           /\ \A j \in k .. f - 1 : j <= Len(file) /\ file[j] = Sax!Blank
<1> DEFINE S == {m \in Int : ~ Sax!Is(m, Sax!Blank)}
           OK(m) == ~ Sax!Is(m, Sax!Blank) /\ \A j \in k .. m - 1 : Sax!Is(j, Sax!Blank)
<1>1. Len(file) \in Nat
  BY SaxFile
<1>2. Len(file) + 1 \in S
  BY <1>1 DEF Sax!Is
<1>3. \E m \in k .. Len(file) + 1 : m \in S /\ \A j \in k .. m - 1 : j \notin S
  <2> HIDE DEF S
  <2>1. S \in SUBSET Int
    BY DEF S
  <2> QED
    BY <1>2, <2>1, FirstPlace
<1>4. \E m \in k .. Len(file) + 1 : OK(m)
  <2>1. \A m : \A j \in k .. m - 1 : j \in Int
    OBVIOUS
  <2> QED
    BY <1>3, <2>1, Zenon
<1>5. f = CHOOSE m \in k .. Len(file) + 1 : OK(m)
  BY Zenon DEF Sax!PastBlanks
<1>6. f \in k .. Len(file) + 1 /\ OK(f)
  <2> HIDE DEF OK
  <2> QED
    BY <1>4, <1>5, Zenon
<1> QED
  BY <1>6 DEF Sax!Is

LEMMA EndOfCommentFinds ==
    ASSUME file \in SaxFiles, NEW k \in Nat \ {0}, k <= Len(file) + 1, NEW f, f = Sax!EndOfComment(k)
    PROVE  /\ f \in k .. Len(file) + 1 /\ (f > Len(file) \/ file[f] = Sax!NL)
           /\ \A j \in k .. f - 1 : j <= Len(file) /\ file[j] # Sax!NL
<1> DEFINE S == {m \in Int : m > Len(file) \/ Sax!Is(m, Sax!NL)}
           OK(m) == (m > Len(file) \/ Sax!Is(m, Sax!NL)) /\ \A j \in k .. m - 1 : ~ Sax!Is(j, Sax!NL)
<1>1. Len(file) \in Nat
  BY SaxFile
<1>2. Len(file) + 1 \in S
  BY <1>1
<1>3. \E m \in k .. Len(file) + 1 : m \in S /\ \A j \in k .. m - 1 : j \notin S
  <2> HIDE DEF S
  <2>1. S \in SUBSET Int
    BY DEF S
  <2> QED
    BY <1>2, <2>1, FirstPlace
<1>4. \E m \in k .. Len(file) + 1 : OK(m)
  <2>1. \A m : \A j \in k .. m - 1 : j \in Int
    OBVIOUS
  <2> QED
    BY <1>3, <2>1, Zenon
<1>5. f = CHOOSE m \in k .. Len(file) + 1 : OK(m)
  BY Zenon DEF Sax!EndOfComment
<1>6. f \in k .. Len(file) + 1 /\ OK(f)
  <2> HIDE DEF OK
  <2> QED
    BY <1>4, <1>5, Zenon
<1>7. \A j \in k .. f - 1 : j <= Len(file)
  BY <1>1, <1>6
<1> QED
  BY <1>6, <1>7 DEF Sax!Is

(* Blanks leave the tokens of a line as they are. *)
LEMMA BlanksPassed ==
    ASSUME file \in SaxFiles, NEW k \in Nat \ {0}, k <= Len(file) + 1, NEW f, f = Sax!PastBlanks(k),
           ~ Commented(k, LineAt(k))
    PROVE  /\ f \in Nat \ {0} /\ f <= Len(file) + 1 /\ ~ Sax!Is(f, Sax!Blank)
           /\ LineAt(f) = LineAt(k) /\ ~ Commented(f, LineAt(k))
           /\ TokensBefore(LineAt(k), f) = TokensBefore(LineAt(k), k)
<1>1. /\ f \in k .. Len(file) + 1 /\ ~ Sax!Is(f, Sax!Blank)
      /\ \A j \in k .. f - 1 : j <= Len(file) /\ file[j] = Sax!Blank
  BY PastBlanksFinds
<1>2. Len(file) \in Nat
  BY SaxFile
<1>3. f \in Nat \ {0} /\ f <= Len(file) + 1 /\ k <= f
  BY <1>1, <1>2
<1>4. LineAt(f) = LineAt(k)
  <2>1. \A j \in k .. f - 1 : file[j] # Sax!NL
    BY <1>1, MarksDiffer
  <2> QED
    BY <1>3, <2>1, LinesGrow
<1>5. ~ Commented(f, LineAt(k))
  <2>1. \A j \in 1 .. f - 1 : j \in 1 .. k - 1 \/ j \in k .. f - 1
    BY <1>3
  <2>2. \A j \in k .. f - 1 : file[j] # Sax!Hash
    BY <1>1, MarksDiffer
  <2> QED
    BY <2>1, <2>2, Zenon DEF Commented
<1>6. \A m \in k .. f - 1 : m \notin TokenPlaces(LineAt(k))
  BY <1>1 DEF TokenPlaces, Sax!IsWord
<1>7. TokensBefore(LineAt(k), f) = TokensBefore(LineAt(k), k)
  BY <1>3, <1>6, NoTokensBetween
<1> QED
  BY <1>1, <1>3, <1>4, <1>5, <1>7

(* A word that is not in a comment is the next token of its line. *)
LEMMA WordTaken ==
    ASSUME file \in SaxFiles, NEW k \in Nat \ {0}, Sax!IsWord(k), ~ Commented(k, LineAt(k))
    PROVE  /\ LineAt(k + 1) = LineAt(k) /\ ~ Commented(k + 1, LineAt(k))
           /\ TokensBefore(LineAt(k), k + 1) = TokensBefore(LineAt(k), k) \cup {k}
<1>1. k <= Len(file) /\ file[k] \notin {Sax!Blank, Sax!Hash, Sax!NL}
  BY DEF Sax!IsWord
<1>2. LineAt(k + 1) = LineAt(k)
  BY <1>1, LineSteps
<1>3. ~ Commented(k + 1, LineAt(k))
  <2>1. \A j \in 1 .. (k + 1) - 1 : j \in 1 .. k - 1 \/ j = k
    OBVIOUS
  <2> QED
    BY <1>1, <2>1, Zenon DEF Commented
<1>4. k \in DOMAIN file
  BY <1>1, SaxFile
<1>5. k \in TokenPlaces(LineAt(k))
  BY <1>4 DEF TokenPlaces
<1>6. \A p \in TokenPlaces(LineAt(k)) : p < k + 1 <=> p < k \/ p = k
  BY SaxFile, TokensFinite
<1> QED
  BY <1>2, <1>3, <1>5, <1>6 DEF TokensBefore

(* A comment leaves them as they are, and goes to the end of the line. *)
LEMMA CommentPassed ==
    ASSUME file \in SaxFiles, NEW k \in Nat \ {0}, Sax!Is(k, Sax!Hash), NEW f, f = Sax!EndOfComment(k)
    PROVE  /\ f \in Nat \ {0} /\ f <= Len(file) + 1 /\ (f <= Len(file) => file[f] = Sax!NL)
           /\ LineAt(f) = LineAt(k) /\ TokensBefore(LineAt(k), f) = TokensBefore(LineAt(k), k)
           /\ f > Len(file) => Len(file) >= 1 /\ file[Len(file)] # Sax!NL
<1>1. k <= Len(file) /\ file[k] = Sax!Hash /\ Len(file) \in Nat
  BY SaxFile DEF Sax!Is
<1>2. /\ f \in k .. Len(file) + 1 /\ (f > Len(file) \/ file[f] = Sax!NL)
      /\ \A j \in k .. f - 1 : j <= Len(file) /\ file[j] # Sax!NL
  BY <1>1, EndOfCommentFinds
<1>3. f \in Nat \ {0} /\ f <= Len(file) + 1 /\ k <= f
  BY <1>1, <1>2
<1>4. LineAt(f) = LineAt(k)
  BY <1>2, <1>3, LinesGrow
<1>5. \A m \in k .. f - 1 : m \notin TokenPlaces(LineAt(k))
  <2> SUFFICES ASSUME NEW m \in k .. f - 1, m \in TokenPlaces(LineAt(k)) PROVE FALSE
    OBVIOUS
  <2>1. Sax!IsWord(m) /\ ~ Commented(m, LineAt(k))
    BY DEF TokenPlaces
  <2>2. m # k
    BY <1>1, <2>1 DEF Sax!IsWord
  <2>3. k \in 1 .. m - 1
    BY <1>3, <2>2
  <2> QED
    BY <1>1, <2>1, <2>3 DEF Commented
<1>6. TokensBefore(LineAt(k), f) = TokensBefore(LineAt(k), k)
  BY <1>3, <1>5, NoTokensBetween
<1>7. f > Len(file) => Len(file) >= 1 /\ file[Len(file)] # Sax!NL
  <2> SUFFICES ASSUME f > Len(file) PROVE Len(file) >= 1 /\ Len(file) \in k .. f - 1
    BY <1>2
  <2> QED
    BY <1>1, <1>3
<1> QED
  BY <1>1, <1>2, <1>3, <1>4, <1>6, <1>7

----------------------------------------------------------------------------
(* The state of the reader while it splits the file. *)

SaxTyped ==
    /\ file \in SaxFiles /\ pc \in {"line", "tokens", "options", "done", "panic"}
    /\ i \in 1 .. Len(file) + 2 /\ IsArray(lines) /\ line \in Seq(SaxWords)

LinesRead ==
    \A m \in 1 .. Len(lines) : lines[m] \in Seq(SaxWords) /\ lines[m] = ElementsAt(file, TokenPlaces(m))

NoEndAtEnd == Len(file) >= 1 /\ file[Len(file)] # Sax!NL

AtLine ==
    \/ i <= Len(file) + 1 /\ Len(lines) + 1 = LineAt(i) /\ (i > 1 => file[i - 1] = Sax!NL)
    \/ i = Len(file) + 2 /\ Len(lines) = LineAt(Len(file) + 1) /\ NoEndAtEnd

InLine ==
    /\ i <= Len(file) + 1 /\ Len(lines) + 1 = LineAt(i)
    /\ line = ElementsAt(file, TokensBefore(LineAt(i), i))
    /\ i <= Len(file) /\ file[i] # Sax!NL => ~ Commented(i, LineAt(i))
    /\ i > Len(file) => NoEndAtEnd

AllLines == Len(lines) = LineAt(Len(file) + 1) - (IF NoEndAtEnd THEN 0 ELSE 1)

SplitInv ==
    /\ SaxTyped /\ LinesRead
    /\ pc = "line" => AtLine
    /\ pc = "tokens" => InLine
    /\ pc \in {"options", "done"} => AllLines

(* The lines depend on the file alone. *)
LEMMA SameFile ==
    ASSUME file' = file
    PROVE  /\ \A k : LineAt(k)' = LineAt(k) /\ TokenPlaces(k)' = TokenPlaces(k)
           /\ \A k, n : Commented(k, n)' = Commented(k, n) /\ TokensBefore(n, k)' = TokensBefore(n, k)
           /\ NoEndAtEnd' = NoEndAtEnd
<1>1. \A k : LineAt(k)' = LineAt(k)
  BY DEF LineAt, EndsBefore
<1>2. \A k, n : Commented(k, n)' = Commented(k, n)
  BY <1>1 DEF Commented
<1>3. \A n : TokenPlaces(n)' = TokenPlaces(n)
  BY <1>1, <1>2 DEF TokenPlaces, Sax!IsWord
<1>4. \A k, n : TokensBefore(n, k)' = TokensBefore(n, k)
  BY <1>3 DEF TokensBefore
<1>5. NoEndAtEnd' = NoEndAtEnd
  BY DEF NoEndAtEnd
<1> QED
  BY <1>1, <1>2, <1>3, <1>4, <1>5

LEMMA BeginLineKeeps == ASSUME SplitInv, Sax!BeginLine PROVE SplitInv'
<1>1. pc = "line" /\ i <= Len(file) /\ pc' = "tokens" /\ line' = <<>> /\ file' = file /\ i' = i /\ lines' = lines
  BY DEF Sax!BeginLine
<1>2. SaxTyped /\ LinesRead /\ AtLine /\ Len(file) \in Nat /\ i \in Nat \ {0} /\ file \in SaxFiles
  BY <1>1, SaxFile DEF SplitInv, SaxTyped
<1>3. Len(lines) + 1 = LineAt(i) /\ (i > 1 => file[i - 1] = Sax!NL)
  BY <1>1, <1>2 DEF AtLine
<1>4. \A j \in 1 .. i - 1 : LineAt(j) < LineAt(i)
  <2> SUFFICES ASSUME NEW j \in 1 .. i - 1 PROVE LineAt(j) < LineAt(i)
    OBVIOUS
  <2>1. j \in Nat \ {0} /\ i - 1 \in Nat \ {0} /\ j <= i - 1 /\ i - 1 < i /\ file[i - 1] = Sax!NL
    BY <1>2, <1>3
  <2>2. LineAt(j) <= LineAt(i - 1) /\ LineAt(i - 1) < LineAt(i)
    BY <1>2, <2>1, LinesGrow
  <2>3. LineAt(j) \in Nat /\ LineAt(i - 1) \in Nat /\ LineAt(i) \in Nat
    <3>1. \A k \in Int : LineAt(k) \in Nat
      BY LineType
    <3>2. j \in Int /\ i - 1 \in Int /\ i \in Int
      BY <1>2, <2>1
    <3> QED
      BY <3>1, <3>2, Zenon
  <2> QED
    BY <2>2, <2>3
<1>5. LineAt(i) \in Nat /\ \A j \in 1 .. i - 1 : LineAt(j) \in Nat
  BY <1>2, LineType
<1>6. ~ Commented(i, LineAt(i))
  BY <1>4, <1>5 DEF Commented
<1>7. TokensBefore(LineAt(i), i) = {}
  <2> SUFFICES ASSUME NEW p \in TokenPlaces(LineAt(i)), p < i PROVE FALSE
    BY DEF TokensBefore
  <2>1. p \in 1 .. Len(file) /\ LineAt(p) = LineAt(i)
    BY <1>2, TokensFinite DEF TokenPlaces
  <2>2. p \in 1 .. i - 1
    BY <1>2, <2>1
  <2> QED
    BY <1>4, <1>5, <2>1, <2>2
<1>8. ElementsAt(file, TokensBefore(LineAt(i), i)) = <<>>
  BY <1>2, <1>7, TokensFinite, ElementsLength
<1>9. SaxTyped' /\ LinesRead'
  <2>1. <<>> \in Seq(SaxWords)
    OBVIOUS
  <2> QED
    BY <1>1, <1>2, <2>1, SameFile DEF SaxTyped, LinesRead, SaxWords
<1>10. InLine'
  BY <1>1, <1>2, <1>3, <1>6, <1>8, SameFile DEF InLine
<1> QED
  BY <1>1, <1>9, <1>10 DEF SplitInv

LEMMA TokenKeeps == ASSUME SplitInv, Sax!Token PROVE SplitInv'
<1>1. /\ pc = "tokens" /\ i <= Len(file) /\ ~ Sax!Is(i, Sax!NL) /\ file' = file /\ lines' = lines
  BY DEF Sax!Token
<1>2. /\ SaxTyped /\ LinesRead /\ InLine /\ Len(file) \in Nat /\ i \in Nat \ {0} /\ file \in SaxFiles
      /\ i <= Len(file) + 1
  BY <1>1, SaxFile DEF SplitInv, SaxTyped
<1>3. PICK n : n = LineAt(i)
  OBVIOUS
<1>4. ~ Commented(i, n) /\ Len(lines) + 1 = n /\ line = ElementsAt(file, TokensBefore(n, i))
  BY <1>1, <1>2, <1>3 DEF InLine, Sax!Is
<1>5. PICK from, end, f : /\ from = Sax!PastBlanks(i)
                          /\ end = IF Sax!IsWord(from) THEN from + 1 ELSE from
                          /\ f = Sax!EndOfComment(end)
  OBVIOUS
<1>6. /\ line' = IF Sax!IsWord(from) THEN Append(line, file[from]) ELSE line
      /\ pc' = IF end > Len(file) THEN "panic" ELSE pc
      /\ i' = IF Sax!Is(end, Sax!Hash) THEN f ELSE end
  BY <1>5, Zenon DEF Sax!Token
<1>7. /\ from \in Nat \ {0} /\ from <= Len(file) + 1 /\ LineAt(from) = n /\ ~ Commented(from, n)
      /\ TokensBefore(n, from) = TokensBefore(n, i) /\ ~ Sax!Is(from, Sax!Blank)
  BY <1>2, <1>3, <1>4, <1>5, BlanksPassed
<1>8. /\ end \in Nat \ {0} /\ end <= Len(file) + 1 /\ LineAt(end) = n /\ ~ Commented(end, n)
      /\ line' = ElementsAt(file, TokensBefore(n, end))
  <2>1. CASE Sax!IsWord(from)
    <3>1. end = from + 1 /\ line' = Append(line, file[from]) /\ from <= Len(file)
      BY <1>5, <1>6, <2>1 DEF Sax!IsWord
    <3>2. LineAt(end) = n /\ ~ Commented(end, n) /\ TokensBefore(n, end) = TokensBefore(n, i) \cup {from}
      BY <1>2, <1>7, <2>1, <3>1, WordTaken
    <3>3. \A p \in TokensBefore(n, i) : p < from
      BY <1>7 DEF TokensBefore
    <3>4. TokensBefore(n, i) \in SUBSET Int /\ IsFiniteSet(TokensBefore(n, i))
      BY <1>2, TokensFinite
    <3>5. from \in Int
      BY <1>7
    <3>6. PICK w, l : w = file[from] /\ l = line'
      OBVIOUS
    <3>7. l = Append(line, w)
      BY <3>1, <3>6
    <3>8. l = ElementsAt(file, TokensBefore(n, i) \cup {from})
      BY <1>4, <3>3, <3>4, <3>5, <3>6, <3>7, AppendElement
    <3>9. end \in Nat \ {0} /\ end <= Len(file) + 1
      BY <1>2, <1>7, <3>1
    <3>10. line' = ElementsAt(file, TokensBefore(n, end))
      BY <3>2, <3>6, <3>8, Zenon
    <3> QED
      BY <3>2, <3>9, <3>10
  <2>2. CASE ~ Sax!IsWord(from)
    BY <1>4, <1>5, <1>6, <1>7, <2>2
  <2> QED
    BY <2>1, <2>2
<1>9. line' \in Seq(SaxWords)
  <2>1. CASE Sax!IsWord(from)
    <3>1. file[from] \in SaxWords
      <4>1. from \in 1 .. Len(file)
        BY <1>7, <2>1 DEF Sax!IsWord
      <4>2. file[from] \in SaxWords \cup SaxMarks
        BY <1>2, <4>1, SaxFile
      <4> QED
        BY <2>1, <4>2 DEF Sax!IsWord, SaxMarks
    <3>2. line \in Seq(SaxWords) /\ line' = Append(line, file[from])
      BY <1>2, <1>6, <2>1 DEF SaxTyped
    <3> HIDE DEF SaxWords
    <3> QED
      BY <3>1, <3>2
  <2>2. CASE ~ Sax!IsWord(from)
    BY <1>2, <1>6, <2>2 DEF SaxTyped
  <2> QED
    BY <2>1, <2>2
<1>10. SaxTyped' /\ LinesRead' /\ (pc' = "tokens" => InLine') /\ pc' \in {"tokens", "panic"}
  <2>1. CASE Sax!Is(end, Sax!Hash)
    <3>1. i' = f /\ pc' = "tokens"
      BY <1>1, <1>2, <1>6, <1>8, <2>1 DEF Sax!Is
    <3>2. /\ f \in Nat \ {0} /\ f <= Len(file) + 1 /\ (f <= Len(file) => file[f] = Sax!NL)
          /\ LineAt(f) = n /\ TokensBefore(n, f) = TokensBefore(n, end)
          /\ f > Len(file) => NoEndAtEnd
      BY <1>2, <1>5, <1>8, <2>1, CommentPassed DEF NoEndAtEnd
    <3>3. SaxTyped' /\ LinesRead'
      BY <1>1, <1>2, <1>9, <3>1, <3>2, SameFile DEF SaxTyped, LinesRead, SaxWords
    <3>4. InLine'
      BY <1>1, <1>2, <1>4, <1>8, <3>1, <3>2, SameFile DEF InLine
    <3> QED
      BY <3>1, <3>3, <3>4
  <2>2. CASE ~ Sax!Is(end, Sax!Hash)
    <3>1. i' = end /\ pc' \in {"tokens", "panic"} /\ (pc' = "tokens" => end <= Len(file))
      BY <1>1, <1>2, <1>6, <1>8, <2>2
    <3>2. SaxTyped' /\ LinesRead'
      BY <1>1, <1>2, <1>8, <1>9, <3>1, SameFile DEF SaxTyped, LinesRead, SaxWords
    <3>3. ASSUME pc' = "tokens" PROVE InLine'
      BY <1>1, <1>2, <1>4, <1>8, <3>1, <3>3, SameFile DEF InLine
    <3> QED
      BY <3>1, <3>2, <3>3
  <2> QED
    BY <2>1, <2>2
<1> QED
  BY <1>10 DEF SplitInv

LEMMA EndLineKeeps == ASSUME SplitInv, Sax!EndLine PROVE SplitInv'
<1>1. /\ pc = "tokens" /\ (i > Len(file) \/ Sax!Is(i, Sax!NL)) /\ file' = file /\ i' = i + 1 /\ pc' = "line"
      /\ lines' = Append(lines, line) /\ line' = line
  BY DEF Sax!EndLine
<1>2. /\ SaxTyped /\ LinesRead /\ Len(file) \in Nat /\ i \in Nat \ {0} /\ file \in SaxFiles /\ i <= Len(file) + 1
  BY <1>1, SaxFile DEF SplitInv, SaxTyped, InLine
<1>3. PICK n, c : n = LineAt(i) /\ c = Len(lines)
  OBVIOUS
<1>4. /\ c + 1 = n /\ c \in Nat /\ line = ElementsAt(file, TokensBefore(n, i)) /\ (i > Len(file) => NoEndAtEnd)
  BY <1>1, <1>2, <1>3 DEF SplitInv, InLine, SaxTyped, IsArray
<1>5. \A p \in TokenPlaces(n) : p < i
  <2> SUFFICES ASSUME NEW p \in TokenPlaces(n) PROVE p < i
    OBVIOUS
  <2>1. p \in 1 .. Len(file) /\ LineAt(p) = n /\ Sax!IsWord(p)
    BY <1>2, TokensFinite DEF TokenPlaces
  <2>2. CASE i > Len(file)
    BY <1>2, <2>1, <2>2
  <2>3. CASE file[i] = Sax!NL
    <3>1. p # i
      BY <2>1, <2>3 DEF Sax!IsWord
    <3>2. i < p => LineAt(i) < LineAt(p)
      BY <1>2, <2>1, <2>3, LinesGrow
    <3>3. LineAt(i) \in Nat
      BY <1>2, LineType
    <3> QED
      BY <1>2, <1>3, <2>1, <3>1, <3>2, <3>3
  <2> QED
    BY <1>1, <2>2, <2>3 DEF Sax!Is
<1>6. TokensBefore(n, i) = TokenPlaces(n)
  BY <1>5 DEF TokensBefore
<1>7. PICK d, l : d = lines' /\ l = line
  OBVIOUS
<1>8. IsLonger(d, lines, l)
  <2>1. d = Append(lines, l) /\ IsArray(lines)
    BY <1>1, <1>2, <1>7 DEF SaxTyped
  <2> QED
    BY <2>1, AppendArray
<1>9. IsArray(d) /\ Len(d) = c + 1 /\ d[c + 1] = l /\ \A m \in 1 .. c : d[m] = lines[m]
  BY <1>3, <1>8 DEF IsLonger
<1>10. \A m \in 1 .. Len(d) : d[m] \in Seq(SaxWords) /\ d[m] = ElementsAt(file, TokenPlaces(m))
  <2>1. \A m \in 1 .. Len(d) : m \in 1 .. c \/ m = n
    BY <1>4, <1>9
  <2>2. d[n] \in Seq(SaxWords) /\ d[n] = ElementsAt(file, TokenPlaces(n))
    BY <1>2, <1>4, <1>6, <1>7, <1>9 DEF SaxTyped
  <2> QED
    BY <1>2, <1>3, <1>9, <2>1, <2>2 DEF LinesRead
<1>11. LinesRead'
  BY <1>1, <1>7, <1>10, SameFile DEF LinesRead, SaxWords
<1>12. SaxTyped'
  BY <1>1, <1>2, <1>7, <1>9 DEF SaxTyped, SaxWords
<1>13. AtLine'
  <2>1. CASE i > Len(file)
    <3>1. i = Len(file) + 1 /\ NoEndAtEnd
      BY <1>2, <1>4, <2>1
    <3>2. Len(lines') = LineAt(Len(file) + 1) /\ i' = Len(file) + 2
      BY <1>1, <1>3, <1>4, <1>7, <1>9, <3>1
    <3> QED
      BY <1>1, <3>1, <3>2, SameFile DEF AtLine
  <2>2. CASE i <= Len(file)
    <3>1. file[i] = Sax!NL
      BY <1>1, <1>2, <2>2 DEF Sax!Is
    <3>2. LineAt(i + 1) = n + 1
      BY <1>2, <1>3, <3>1, LineSteps
    <3>3. Len(lines') + 1 = LineAt(i + 1)
      BY <1>4, <1>7, <1>9, <3>2
    <3>4. i' <= Len(file) + 1 /\ i' - 1 = i
      BY <1>1, <1>2, <2>2
    <3> QED
      BY <1>1, <3>1, <3>3, <3>4, SameFile DEF AtLine
  <2> QED
    BY <1>2, <2>1, <2>2
<1> QED
  BY <1>1, <1>11, <1>12, <1>13 DEF SplitInv

LEMMA TokenizedKeeps == ASSUME SplitInv, Sax!Tokenized PROVE SplitInv'
<1>1. pc = "line" /\ i > Len(file) /\ pc' = "options" /\ i' = 1 /\ UNCHANGED <<file, line, lines>>
  BY DEF Sax!Tokenized
<1>2. SaxTyped /\ LinesRead /\ AtLine /\ Len(file) \in Nat /\ i \in Nat \ {0} /\ file \in SaxFiles
  BY <1>1, SaxFile DEF SplitInv, SaxTyped
<1>3. SaxTyped' /\ LinesRead'
  BY <1>1, <1>2, SameFile DEF SaxTyped, LinesRead, SaxWords
<1>4. LineAt(Len(file) + 1) \in Nat /\ Len(lines) \in Nat
  BY <1>2, LineType DEF SaxTyped, IsArray
<1>5. AllLines
  <2>1. CASE i <= Len(file) + 1 /\ Len(lines) + 1 = LineAt(i) /\ (i > 1 => file[i - 1] = Sax!NL)
    <3>1. i = Len(file) + 1
      BY <1>1, <1>2, <2>1
    <3>2. ~ NoEndAtEnd
      <4> SUFFICES ASSUME NoEndAtEnd PROVE FALSE
        OBVIOUS
      <4>1. Len(file) >= 1 /\ file[Len(file)] # Sax!NL
        BY DEF NoEndAtEnd
      <4>2. i > 1 /\ i - 1 = Len(file)
        BY <1>2, <3>1, <4>1
      <4> QED
        BY <2>1, <4>1, <4>2
    <3> QED
      BY <1>4, <2>1, <3>1, <3>2 DEF AllLines
  <2>2. CASE i = Len(file) + 2 /\ Len(lines) = LineAt(Len(file) + 1) /\ NoEndAtEnd
    BY <1>4, <2>2 DEF AllLines
  <2> QED
    BY <1>2, <2>1, <2>2 DEF AtLine
<1>6. AllLines'
  BY <1>1, <1>5, SameFile DEF AllLines
<1> QED
  BY <1>1, <1>3, <1>6 DEF SplitInv

LEMMA TakeLineKeepsLines == ASSUME SplitInv, i <= Len(lines), Sax!TakeLine PROVE SplitInv'
<1>1. /\ pc = "options" /\ i' = i + 1 /\ pc' \in {"options", "done"} /\ UNCHANGED <<file, line, lines>>
  BY DEF Sax!TakeLine
<1>2. SaxTyped /\ LinesRead /\ AllLines /\ Len(file) \in Nat /\ i \in Nat \ {0} /\ file \in SaxFiles
  BY <1>1, SaxFile DEF SplitInv, SaxTyped
<1>3. Len(lines) <= Len(file) + 1
  <2>1. PICK n, e : n = Len(file) /\ e = EndsBefore(n + 1)
    OBVIOUS
  <2>2. IsFiniteSet(e) /\ Cardinality(e) \in Nat /\ LineAt(n + 1) = 1 + Cardinality(e)
    <3>1. n + 1 \in Int
      BY <1>2, <2>1
    <3> QED
      BY <2>1, <3>1, LineType, FS_CardinalityType DEF LineAt
  <2>3. e \subseteq 1 .. n
    BY <1>2, <2>1 DEF EndsBefore
  <2>4. PICK c : c = Cardinality(1 .. n)
    OBVIOUS
  <2>5. IsFiniteSet(1 .. n) /\ c = n
    <3>1. n \in Nat /\ 1 \in Int /\ n \in Int
      BY <1>2, <2>1
    <3>2. IsFiniteSet(1 .. n) /\ Cardinality(1 .. n) = IF 1 > n THEN 0 ELSE n - 1 + 1
      BY <3>1, FS_Interval
    <3> QED
      BY <2>4, <3>1, <3>2
  <2>6. Cardinality(e) <= n
    <3>1. PICK r : r = 1 .. n
      OBVIOUS
    <3>2. IsFiniteSet(r) /\ Cardinality(r) = n /\ e \in SUBSET r
      BY <2>3, <2>4, <2>5, <3>1
    <3>3. Cardinality(e) <= Cardinality(r)
      BY <3>2, FS_Subset, Zenon
    <3> QED
      BY <3>2, <3>3
  <2>7. Len(lines) <= LineAt(n + 1)
    BY <1>2, <2>1, <2>2 DEF AllLines
  <2> QED
    BY <1>2, <2>1, <2>2, <2>6, <2>7 DEF SaxTyped, IsArray
<1>4. i' \in 1 .. Len(file) + 2
  BY <1>1, <1>2, <1>3 DEF SaxTyped, IsArray
<1>5. SaxTyped' /\ LinesRead'
  BY <1>1, <1>2, <1>4, SameFile DEF SaxTyped, LinesRead, SaxWords
<1>6. AllLines'
  BY <1>1, <1>2, SameFile DEF AllLines
<1> QED
  BY <1>1, <1>5, <1>6 DEF SplitInv

(* What is said of the lines. *)
LEMMA LinesWereSplit ==
    ASSUME SplitInv PROVE Sax!LinesAreSplit /\ \A m \in 1 .. Len(lines) : lines[m] \in Seq(SaxWords)
<1>1. file \in SaxFiles /\ IsArray(lines) /\ LinesRead
  BY DEF SplitInv, SaxTyped
<1>2. Len(file) \in Nat /\ file = [k \in 1 .. Len(file) |-> file[k]] /\ DOMAIN file = 1 .. Len(file)
      /\ \A k \in 1 .. Len(file) : file[k] \in SaxWords \cup SaxMarks
  BY <1>1, SaxFile
<1>3. \A m \in 1 .. Len(lines) : lines[m] \in Seq(SaxWords)
  BY <1>1 DEF LinesRead
<1>4. Sax!LinesAreSplit
  <2> SUFFICES ASSUME pc \in {"options", "done"}
               PROVE  lines = [n \in 1 .. Sax!LineNumber(Len(file) + 1)
                                 - (IF file = <<>> \/ Sax!Last(file) = Sax!NL THEN 1 ELSE 0) |-> Sax!WordsOf(n)]
    BY DEF Sax!LinesAreSplit
  <2>1. AllLines
    BY DEF SplitInv
  <2>2. (file = <<>> \/ Sax!Last(file) = Sax!NL) <=> ~ NoEndAtEnd
    <3>1. file = <<>> <=> ~ (Len(file) >= 1)
      BY <1>2
    <3>2. Sax!Last(file) = file[Len(file)]
      BY Zenon DEF Sax!Last
    <3> QED
      BY <3>1, <3>2, Zenon DEF NoEndAtEnd
  <2>3. (IF file = <<>> \/ Sax!Last(file) = Sax!NL THEN 1 ELSE 0) = IF NoEndAtEnd THEN 0 ELSE 1
    BY <2>2, Zenon
  <2>4. Sax!LineNumber(Len(file) + 1) = LineAt(Len(file) + 1)
    BY LineNumbers
  <2>5. PICK c : c = Len(lines)
    OBVIOUS
  <2>6. Sax!LineNumber(Len(file) + 1) - (IF file = <<>> \/ Sax!Last(file) = Sax!NL THEN 1 ELSE 0) = c
    BY <2>1, <2>3, <2>4, <2>5, Zenon DEF AllLines
  <2>7. lines = [m \in 1 .. c |-> lines[m]]
    BY <1>1, <2>5 DEF IsArray
  <2>8. \A m \in 1 .. c : lines[m] = Sax!WordsOf(m)
    BY <1>1, <2>5, WordsOfLine DEF LinesRead
  <2>9. lines = [m \in 1 .. c |-> Sax!WordsOf(m)]
    <3>1. PICK w : w = [m \in 1 .. c |-> Sax!WordsOf(m)]
      OBVIOUS
    <3>2. \A m \in 1 .. c : w[m] = Sax!WordsOf(m)
      BY <3>1
    <3>3. w = [m \in 1 .. c |-> w[m]]
      BY <3>1
    <3>4. \A m \in 1 .. c : w[m] = lines[m]
      BY <2>8, <3>2
    <3> QED
      BY <2>7, <3>1, <3>3, <3>4
  <2> QED
    BY <2>6, <2>9, Zenon
<1> QED
  BY <1>3, <1>4

----------------------------------------------------------------------------
(* Joining the parts of a list. *)

IsJoin(f, s) == f = [m \in 1 .. Len(s) |-> IF m = 1 THEN s[m] ELSE f[m - 1] \o s[m]]

LEMMA JoinExists == ASSUME NEW s, IsArray(s) PROVE \E f : IsJoin(f, s)
<1> DEFINE B(f, n) == f = [m \in 1 .. n |-> IF m = 1 THEN s[m] ELSE f[m - 1] \o s[m]]
           A == {n \in Nat : \E f : B(f, n)}
<1>1. 0 \in A
  <2>1. PICK f : f = [m \in 1 .. 0 |-> s[m]]
    OBVIOUS
  <2>2. B(f, 0)
    BY <2>1
  <2> QED
    BY <2>2
<1>2. ASSUME NEW n \in Nat, n \in A PROVE n + 1 \in A
  <2>1. PICK f : B(f, n)
    BY <1>2
  <2>2. PICK g : g = [m \in 1 .. n + 1 |-> IF m = 1 THEN s[m] ELSE f[m - 1] \o s[m]]
    OBVIOUS
  <2>3. \A m \in 1 .. n : g[m] = f[m]
    <3>1. \A m \in 1 .. n : f[m] = IF m = 1 THEN s[m] ELSE f[m - 1] \o s[m]
      BY <2>1
    <3>2. \A m \in 1 .. n + 1 : g[m] = IF m = 1 THEN s[m] ELSE f[m - 1] \o s[m]
      BY <2>2
    <3>3. \A m \in 1 .. n : m \in 1 .. n + 1
      OBVIOUS
    <3> QED
      BY <3>1, <3>2, <3>3, Zenon
  <2>4. \A m \in 1 .. n + 1 : m # 1 => m - 1 \in 1 .. n
    OBVIOUS
  <2>5. \A m \in 1 .. n + 1 : m # 1 => g[m - 1] = f[m - 1]
    BY <2>3, <2>4
  <2>6. B(g, n + 1)
    BY <2>2, <2>5
  <2>7. n + 1 \in Nat
    OBVIOUS
  <2> HIDE DEF B
  <2> QED
    BY <2>6, <2>7
<1>3. \A n \in Nat : n \in A
  <2> HIDE DEF A
  <2> QED
    BY <1>1, <1>2, NaturalsFrom
<1> QED
  BY <1>3 DEF IsArray, IsJoin

(* A longer sequence is joined as the shorter one is, up to its end. *)
LEMMA JoinAgrees ==
    ASSUME NEW s, NEW t, Len(s) \in Nat, Len(t) = Len(s) + 1, \A m \in 1 .. Len(s) : t[m] = s[m],
           NEW f, IsJoin(f, s), NEW g, IsJoin(g, t)
    PROVE  \A n \in Nat : n \in 1 .. Len(s) => g[n] = f[n]
<1> DEFINE A == {n \in Nat : n \in 1 .. Len(s) => g[n] = f[n]}
<1>1. PICK c : c = Len(s)
  OBVIOUS
<1>2. f = [m \in 1 .. c |-> IF m = 1 THEN s[m] ELSE f[m - 1] \o s[m]] /\ c \in Nat
  BY <1>1 DEF IsJoin
<1>3. g = [m \in 1 .. c + 1 |-> IF m = 1 THEN t[m] ELSE g[m - 1] \o t[m]]
  BY <1>1 DEF IsJoin
<1>4. \A m \in 1 .. c : t[m] = s[m]
  BY <1>1
<1>5. \A m \in 1 .. c : f[m] = IF m = 1 THEN s[m] ELSE f[m - 1] \o s[m]
  BY <1>2
<1>6. \A m \in 1 .. c : g[m] = IF m = 1 THEN t[m] ELSE g[m - 1] \o t[m]
  <2>1. \A m \in 1 .. c + 1 : g[m] = IF m = 1 THEN t[m] ELSE g[m - 1] \o t[m]
    BY <1>3
  <2>2. \A m \in 1 .. c : m \in 1 .. c + 1
    BY <1>2
  <2> QED
    BY <2>1, <2>2, Zenon
<1>7. 0 \in A
  OBVIOUS
<1>8. ASSUME NEW n \in Nat, n \in A PROVE n + 1 \in A
  <2> SUFFICES ASSUME n + 1 \in 1 .. c PROVE g[n + 1] = f[n + 1]
    BY <1>1
  <2>1. CASE n = 0
    BY <1>4, <1>5, <1>6, <2>1
  <2>2. CASE n # 0
    <3>1. n \in 1 .. c /\ (n + 1) - 1 = n /\ n + 1 # 1
      BY <1>2, <2>2
    <3>2. g[n] = f[n]
      BY <1>1, <1>8, <3>1
    <3> QED
      BY <1>4, <1>5, <1>6, <3>1, <3>2
  <2> QED
    BY <2>1, <2>2
<1>9. \A n \in Nat : n \in A
  <2> HIDE DEF A
  <2> QED
    BY <1>7, <1>8, NaturalsFrom
<1> QED
  BY <1>9

(* What SequencesExt joins. *)
LEMMA FlattenIs ==
    ASSUME NEW s, IsArray(s), Len(s) # 0 PROVE \E f : IsJoin(f, s) /\ Sax!FlattenSeq(s) = f[Len(s)]
<1>1. PICK f : f = CHOOSE h : h = [m \in 1 .. Len(s) |-> IF m = 1 THEN s[m] ELSE h[m - 1] \o s[m]]
  OBVIOUS
<1>2. IsJoin(f, s)
  <2>1. \E h : h = [m \in 1 .. Len(s) |-> IF m = 1 THEN s[m] ELSE h[m - 1] \o s[m]]
    BY JoinExists DEF IsJoin
  <2> QED
    BY <1>1, <2>1, Zenon DEF IsJoin
<1>3. Sax!FlattenSeq(s) = f[Len(s)]
  BY <1>1, Zenon DEF Sax!FlattenSeq
<1> QED
  BY <1>2, <1>3

LEMMA FlattenLonger ==
    ASSUME NEW s, IsArray(s), NEW t, NEW x, IsLonger(t, s, x), NEW R, x \in Seq(R)
    PROVE  Sax!FlattenSeq(t) = Sax!FlattenSeq(s) \o x
<1>1. PICK c : c = Len(s)
  OBVIOUS
<1>2. IsArray(t) /\ Len(t) = c + 1 /\ t[c + 1] = x /\ (\A m \in 1 .. c : t[m] = s[m]) /\ c \in Nat
  BY <1>1 DEF IsLonger, IsArray
<1>3. PICK g : IsJoin(g, t) /\ Sax!FlattenSeq(t) = g[c + 1]
  <2>1. Len(t) # 0
    BY <1>2
  <2> QED
    BY <1>2, <2>1, FlattenIs
<1>4. g = [m \in 1 .. c + 1 |-> IF m = 1 THEN t[m] ELSE g[m - 1] \o t[m]]
  BY <1>2, <1>3 DEF IsJoin
<1>5. g[c + 1] = IF c + 1 = 1 THEN t[c + 1] ELSE g[(c + 1) - 1] \o t[c + 1]
  <2>1. \A m \in 1 .. c + 1 : g[m] = IF m = 1 THEN t[m] ELSE g[m - 1] \o t[m]
    BY <1>4
  <2>2. c + 1 \in 1 .. c + 1
    BY <1>2
  <2> QED
    BY <2>1, <2>2, Zenon
<1>6. CASE c = 0
  <2>1. Sax!FlattenSeq(s) = s
    BY <1>1, <1>6, Zenon DEF Sax!FlattenSeq
  <2>2. s = <<>>
    BY <1>1, <1>6 DEF IsArray
  <2>3. <<>> \o x = x
    OBVIOUS
  <2>4. g[c + 1] = x
    BY <1>2, <1>5, <1>6
  <2> QED
    BY <1>3, <2>1, <2>2, <2>3, <2>4, Zenon
<1>7. CASE c # 0
  <2>1. PICK f : IsJoin(f, s) /\ Sax!FlattenSeq(s) = f[c]
    BY <1>1, <1>7, FlattenIs
  <2>2. c \in 1 .. c /\ (c + 1) - 1 = c /\ c + 1 # 1
    BY <1>2, <1>7
  <2>3. g[c] = f[c]
    BY <1>1, <1>2, <1>3, <2>1, <2>2, JoinAgrees
  <2> QED
    BY <1>2, <1>3, <1>5, <2>1, <2>2, <2>3, Zenon
<1> QED
  BY <1>6, <1>7

----------------------------------------------------------------------------
(* Then the options are taken from the lines. *)

SaxLists  == {"Profile", "Subword_lengths"}
ListItems == SaxWords \cup Int

OptionPlaces(o, k) == {n \in 1 .. k - 1 : lines[n] # <<>> /\ lines[n][1] = o}
GivenLines(o, k)   == ElementsAt(lines, OptionPlaces(o, k))
GivenParts(o, k)   == [m \in DOMAIN GivenLines(o, k) |-> Sax!PartOf(o, GivenLines(o, k)[m])]

ConfigTyped ==
    /\ DOMAIN config = DOMAIN Sax!Empty /\ config["Symbol_size"] \in Int /\ config["DB_hist"] \in Int
    /\ \A o \in SaxLists : config[o] \in Seq(ListItems)

SizeOfLines(k) ==
    IF OptionPlaces("Symbol_size", k) = {} THEN 0
    ELSE Sax!GetInt(GivenLines("Symbol_size", k)[Cardinality(OptionPlaces("Symbol_size", k))])

OptionsRead(k) ==
    /\ \A o \in SaxLists : config[o] = Sax!FlattenSeq(GivenParts(o, k))
    /\ config["Symbol_size"] = SizeOfLines(k)

SaxInv ==
    /\ SplitInv /\ ConfigTyped
    /\ OptionsRead(IF pc \in {"options", "done"} THEN i ELSE 1)
    /\ pc = "done" => i = Len(lines) + 1

LEMMA NumbersTyped == \A l : Sax!GetInt(l) \in Int /\ \A w : Sax!NumberOf(w) \in Int
<1>1. \A w : Sax!NumberOf(w) \in Int
  BY SaxFacts DEF Sax!NumberOf
<1>2. \A l : Sax!GetInt(l) \in Int
  <2>1. 0 \in Int
    OBVIOUS
  <2> QED
    BY <1>1, <2>1, Zenon DEF Sax!GetInt
<1> QED
  BY <1>1, <1>2

LEMMA PartsTyped == ASSUME NEW l \in Seq(SaxWords), l # <<>>, NEW o PROVE Sax!PartOf(o, l) \in Seq(ListItems)
<1>1. CASE o = "Profile"
  <2>1. Tail(l) \in Seq(SaxWords)
    <3> HIDE DEF SaxWords
    <3> QED
      OBVIOUS
  <2>2. Tail(l) \in Seq(ListItems)
    BY <2>1 DEF ListItems
  <2> QED
    BY <1>1, <2>2, Zenon DEF Sax!PartOf
<1>2. CASE o # "Profile"
  <2>1. PICK b, p : b = Len(l) - 1 /\ p = [k \in 1 .. b |-> Sax!NumberOf(l[k + 1])]
    OBVIOUS
  <2>2. b \in Nat
    <3> HIDE DEF SaxWords
    <3> QED
      BY <2>1
  <2>3. p \in [1 .. b -> ListItems]
    BY <2>1, NumbersTyped DEF ListItems
  <2>4. \A h \in [1 .. b -> ListItems] : h \in Seq(ListItems)
    <3> HIDE DEF ListItems
    <3> QED
      BY <2>2
  <2> QED
    BY <1>2, <2>1, <2>3, <2>4, Zenon DEF Sax!PartOf
<1> QED
  BY <1>1, <1>2

(* A line without a value adds nothing. *)
LEMMA NoPart == ASSUME NEW l \in Seq(SaxWords), l # <<>>, Len(l) < 2, NEW o PROVE Sax!PartOf(o, l) = <<>>
<1> HIDE DEF SaxWords
<1>1. Len(l) = 1
  <2>1. Len(l) \in Nat \ {0}
    BY EmptySeq
  <2>2. PICK c : c = Len(l)
    OBVIOUS
  <2>3. c \in Nat \ {0} /\ c < 2
    BY <2>1, <2>2
  <2> QED
    BY <2>2, <2>3
<1>2. Tail(l) = <<>>
  <2>1. Tail(l) \in Seq(SaxWords) /\ Len(Tail(l)) = 0
    BY <1>1
  <2> QED
    BY <2>1, EmptySeq
<1>3. PICK b : b = Len(l) - 1
  OBVIOUS
<1>4. [k \in 1 .. b |-> Sax!NumberOf(l[k + 1])] = <<>>
  BY <1>1, <1>3
<1> QED
  BY <1>2, <1>3, <1>4, Zenon DEF Sax!PartOf

LEMMA OptionPlacesGrow ==
    ASSUME NEW k \in Nat \ {0}, NEW o
    PROVE  /\ IsFiniteSet(OptionPlaces(o, k)) /\ OptionPlaces(o, k) \in SUBSET Int
           /\ \A p \in OptionPlaces(o, k) : p < k
           /\ OptionPlaces(o, k + 1) = IF lines[k] # <<>> /\ lines[k][1] = o THEN OptionPlaces(o, k) \cup {k}
                                       ELSE OptionPlaces(o, k)
<1>1. OptionPlaces(o, k) \subseteq 1 .. k - 1
  BY DEF OptionPlaces
<1>2. IsFiniteSet(1 .. k - 1)
  BY FS_Interval
<1>3. 1 .. (k + 1) - 1 = (1 .. k - 1) \cup {k}
  OBVIOUS
<1>4. OptionPlaces(o, k + 1) = IF lines[k] # <<>> /\ lines[k][1] = o THEN OptionPlaces(o, k) \cup {k}
                               ELSE OptionPlaces(o, k)
  BY <1>3, Zenon DEF OptionPlaces
<1>5. \A p \in 1 .. k - 1 : p \in Int /\ p < k
  OBVIOUS
<1> QED
  BY <1>1, <1>2, <1>4, <1>5, FS_Subset

(* What the next line of an option adds to its parts. *)
LEMMA PartsGrow ==
    ASSUME NEW k \in Nat \ {0}, NEW o, lines[k] # <<>>, lines[k][1] = o
    PROVE  /\ IsArray(GivenParts(o, k)) /\ IsLonger(GivenParts(o, k + 1), GivenParts(o, k), Sax!PartOf(o, lines[k]))
           /\ OptionPlaces(o, k + 1) # {}
           /\ GivenLines(o, k + 1)[Cardinality(OptionPlaces(o, k + 1))] = lines[k]
<1>1. PICK P, Q, x : P = OptionPlaces(o, k) /\ Q = OptionPlaces(o, k + 1) /\ x = Sax!PartOf(o, lines[k])
  OBVIOUS
<1>2. Q = P \cup {k} /\ IsFiniteSet(P) /\ P \in SUBSET Int /\ \A p \in P : p < k
  BY <1>1, OptionPlacesGrow
<1>3. PICK L, M, c : L = ElementsAt(lines, P) /\ M = ElementsAt(lines, Q) /\ c = Cardinality(P)
  OBVIOUS
<1>4. IsFiniteSet(Q) /\ Cardinality(Q) = c + 1 /\ (\A m \in 1 .. c : M[m] = L[m]) /\ M[c + 1] = lines[k]
  <2>1. k \in Int
    OBVIOUS
  <2>2. /\ IsFiniteSet(P \cup {k}) /\ Cardinality(P \cup {k}) = Cardinality(P) + 1
        /\ (\A m \in 1 .. Cardinality(P) : ElementsAt(lines, P \cup {k})[m] = ElementsAt(lines, P)[m])
        /\ ElementsAt(lines, P \cup {k})[Cardinality(P) + 1] = lines[k]
    BY <1>2, <2>1, OneMorePlace
  <2> QED
    BY <1>2, <1>3, <2>2, Zenon
<1>5. DOMAIN L = 1 .. c /\ c \in Nat /\ DOMAIN M = 1 .. c + 1
  BY <1>2, <1>3, <1>4, ElementsLength
<1>6. PICK s, t : s = GivenParts(o, k) /\ t = GivenParts(o, k + 1)
  OBVIOUS
<1>7. s = [m \in 1 .. c |-> Sax!PartOf(o, L[m])]
  BY <1>1, <1>3, <1>5, <1>6, Zenon DEF GivenParts, GivenLines
<1>8. t = [m \in 1 .. c + 1 |-> Sax!PartOf(o, M[m])]
  BY <1>1, <1>3, <1>5, <1>6, Zenon DEF GivenParts, GivenLines
<1>9. IsArray(s) /\ Len(s) = c
  BY <1>5, <1>7 DEF IsArray
<1>10. IsArray(t) /\ Len(t) = c + 1
  BY <1>5, <1>8 DEF IsArray
<1>11. t[c + 1] = x
  BY <1>1, <1>4, <1>5, <1>8
<1>12. \A m \in 1 .. c : t[m] = s[m]
  <2> SUFFICES ASSUME NEW m \in 1 .. c PROVE t[m] = s[m]
    OBVIOUS
  <2>1. m \in 1 .. c + 1
    BY <1>5
  <2> QED
    BY <1>4, <1>7, <1>8, <2>1, Zenon
<1>13. IsLonger(t, s, x)
  BY <1>9, <1>10, <1>11, <1>12 DEF IsLonger
<1> QED
  BY <1>1, <1>2, <1>3, <1>4, <1>6, <1>9, <1>13, Zenon DEF GivenLines

LEMMA SaxStarts == ASSUME Sax!Init PROVE SaxInv
<1>1. file \in SaxFiles /\ i = 1 /\ line = <<>> /\ lines = <<>> /\ pc = "line" /\ config = Sax!Empty
  BY DEF Sax!Init
<1>2. Len(file) \in Nat
  BY <1>1, SaxFile
<1>3. IsArray(lines) /\ Len(lines) = 0 /\ line \in Seq(SaxWords)
  <2>1. IsArray(lines) /\ Len(lines) = 0
    BY <1>1 DEF IsArray
  <2> QED
    BY <1>1, <2>1
<1>4. SaxTyped /\ LinesRead
  <2>1. i \in 1 .. Len(file) + 2
    BY <1>1, <1>2
  <2>2. \A m \in 1 .. Len(lines) : FALSE
    BY <1>3
  <2> QED
    BY <1>1, <1>3, <2>1, <2>2 DEF SaxTyped, LinesRead
<1>5. AtLine
  <2>1. LineAt(1) = 1
    <3>1. EndsBefore(1) = {}
      BY DEF EndsBefore
    <3> QED
      BY <3>1, FS_EmptySet DEF LineAt
  <2> QED
    BY <1>1, <1>2, <1>3, <2>1 DEF AtLine
<1>6. SplitInv
  BY <1>1, <1>4, <1>5 DEF SplitInv
<1>7. ConfigTyped
  <2>1. /\ config["Symbol_size"] = 0 /\ config["DB_hist"] = 0
        /\ config["Profile"] = <<>> /\ config["Subword_lengths"] = <<>>
    BY <1>1 DEF Sax!Empty
  <2>2. \A o \in SaxLists : config[o] = <<>>
    BY <2>1 DEF SaxLists
  <2>3. <<>> \in Seq(ListItems)
    OBVIOUS
  <2>4. \A o \in SaxLists : config[o] \in Seq(ListItems)
    BY <2>2, <2>3, Zenon
  <2>5. DOMAIN config = DOMAIN Sax!Empty /\ 0 \in Int
    BY <1>1
  <2> QED
    BY <2>1, <2>4, <2>5, Zenon DEF ConfigTyped
<1>8. OptionsRead(1)
  <2>1. \A o : OptionPlaces(o, 1) = {}
    BY DEF OptionPlaces
  <2>2. \A o : GivenLines(o, 1) = <<>> /\ DOMAIN GivenLines(o, 1) = {}
    <3>1. \A o : IsFiniteSet(OptionPlaces(o, 1)) /\ Cardinality(OptionPlaces(o, 1)) = 0
      BY <2>1, FS_EmptySet
    <3> QED
      BY <2>1, <3>1, ElementsLength DEF GivenLines
  <2>3. \A o : GivenParts(o, 1) = <<>>
    BY <2>2 DEF GivenParts
  <2>4. Sax!FlattenSeq(<<>>) = <<>>
    <3>1. Len(<<>>) = 0
      OBVIOUS
    <3> QED
      BY <3>1, Zenon DEF Sax!FlattenSeq
  <2>5. /\ config["Symbol_size"] = 0 /\ config["Profile"] = <<>> /\ config["Subword_lengths"] = <<>>
    BY <1>1 DEF Sax!Empty
  <2>6. SizeOfLines(1) = 0
    BY <2>1, Zenon DEF SizeOfLines
  <2>7. \A o \in SaxLists : config[o] = Sax!FlattenSeq(GivenParts(o, 1))
    BY <2>3, <2>4, <2>5, Zenon DEF SaxLists
  <2> QED
    BY <2>5, <2>6, <2>7 DEF OptionsRead
<1>9. pc \notin {"options", "done"}
  BY <1>1
<1> QED
  BY <1>6, <1>7, <1>8, <1>9 DEF SaxInv

(* The lines that are not taken yet say nothing of the options. *)
LEMMA NothingTaken ==
    ASSUME config' = config PROVE (ConfigTyped => ConfigTyped') /\ (OptionsRead(1) => OptionsRead(1)')
<1>1. \A o : OptionPlaces(o, 1) = {} /\ OptionPlaces(o, 1)' = {}
  BY DEF OptionPlaces
<1>2. \A s : ElementsAt(s, {}) = <<>> /\ DOMAIN ElementsAt(s, {}) = {}
  <2>1. IsFiniteSet({}) /\ Cardinality({}) = 0
    BY FS_EmptySet
  <2> QED
    BY <2>1, ElementsLength
<1>3. \A o : GivenParts(o, 1) = <<>> /\ GivenParts(o, 1)' = <<>>
  <2>1. \A o : GivenLines(o, 1) = <<>> /\ GivenLines(o, 1)' = <<>>
    BY <1>1, <1>2 DEF GivenLines
  <2> QED
    BY <2>1 DEF GivenParts
<1>4. SizeOfLines(1) = 0 /\ SizeOfLines(1)' = 0
  BY <1>1 DEF SizeOfLines
<1>5. OptionsRead(1) => OptionsRead(1)'
  <2> SUFFICES ASSUME OptionsRead(1) PROVE OptionsRead(1)'
    OBVIOUS
  <2>1. \A o \in SaxLists : config[o] = Sax!FlattenSeq(<<>>)
    BY <1>3, Zenon DEF OptionsRead
  <2>2. \A o \in SaxLists : config'[o] = Sax!FlattenSeq(GivenParts(o, 1)')
    BY <1>3, <2>1, Zenon
  <2> QED
    BY <1>4, <2>2 DEF OptionsRead
<1>6. ConfigTyped => ConfigTyped'
  BY DEF ConfigTyped
<1> QED
  BY <1>5, <1>6

LEMMA SplittingKeeps ==
    ASSUME SaxInv, Sax!BeginLine \/ Sax!Token \/ Sax!EndLine \/ Sax!Tokenized PROVE SaxInv'
<1>1. SplitInv'
  BY BeginLineKeeps, TokenKeeps, EndLineKeeps, TokenizedKeeps DEF SaxInv
<1>2. config' = config /\ pc \notin {"options", "done"} /\ pc' # "done" /\ (pc' = "options" => i' = 1)
  <2>1. CASE Sax!BeginLine
    BY <2>1 DEF Sax!BeginLine
  <2>2. CASE Sax!Token
    <3>1. config' = config /\ pc = "tokens" /\ pc' \in {pc, "panic"}
      BY <2>2 DEF Sax!Token
    <3> QED
      BY <3>1
  <2>3. CASE Sax!EndLine
    BY <2>3 DEF Sax!EndLine
  <2>4. CASE Sax!Tokenized
    BY <2>4 DEF Sax!Tokenized
  <2> QED
    BY <2>1, <2>2, <2>3, <2>4
<1>3. OptionsRead(1)
  BY <1>2 DEF SaxInv
<1>4. ConfigTyped' /\ OptionsRead(1)'
  BY <1>2, <1>3, NothingTaken DEF SaxInv
<1>5. (IF pc' \in {"options", "done"} THEN i' ELSE 1) = 1
  BY <1>2
<1>6. OptionsRead(IF pc \in {"options", "done"} THEN i ELSE 1)'
  BY <1>4, <1>5 DEF OptionsRead, SizeOfLines, GivenParts, GivenLines, OptionPlaces
<1> QED
  BY <1>1, <1>2, <1>4, <1>6 DEF SaxInv

(* A line gives its option a value of the option's kind, and lists grow by *)
(* what it adds.                                                           *)
LEMMA ValueTaken ==
    ASSUME ConfigTyped, NEW l \in Seq(SaxWords), l # <<>>
    PROVE  /\ Sax!Taken("Symbol_size", l) = Sax!GetInt(l) /\ Sax!Taken("DB_hist", l) \in Int
           /\ \A o \in SaxLists : /\ Sax!Taken(o, l) = config[o] \o Sax!PartOf(o, l)
                                  /\ Sax!Taken(o, l) \in Seq(ListItems)
<1>1. Sax!Taken("Symbol_size", l) = Sax!GetInt(l)
  BY DEF Sax!Taken
<1>2. Sax!Taken("DB_hist", l) \in Int
  <2>1. config["DB_hist"] \in Int
    BY DEF ConfigTyped
  <2>2. \A q, u : q \in Int => Sax!GetSeconds(q, u) \in Int
    <3> SUFFICES ASSUME NEW q \in Int, NEW u PROVE Sax!GetSeconds(q, u) \in Int
      OBVIOUS
    <3>1. PICK n : n = IF u \in DOMAIN Sax!Seconds THEN Sax!Seconds[u] ELSE 0
      OBVIOUS
    <3>2. \A x \in DOMAIN Sax!Seconds : Sax!Seconds[x] \in Int
      BY DEF Sax!Seconds
    <3>3. 0 \in Int
      OBVIOUS
    <3>4. n \in Int
      BY <3>1, <3>2, <3>3, Zenon
    <3>5. n * q \in Int
      BY <3>4
    <3> QED
      BY <3>1, <3>5, Zenon DEF Sax!GetSeconds
  <2>3. Sax!GetSeconds(Sax!GetInt(l), l[3]) \in Int
    BY <2>2, NumbersTyped
  <2>4. Sax!Taken("DB_hist", l) = IF Len(l) < 3 THEN config["DB_hist"] ELSE Sax!GetSeconds(Sax!GetInt(l), l[3])
    BY DEF Sax!Taken
  <2> QED
    BY <2>1, <2>3, <2>4, Zenon
<1>3. ASSUME NEW o \in SaxLists
      PROVE  Sax!Taken(o, l) = config[o] \o Sax!PartOf(o, l) /\ Sax!Taken(o, l) \in Seq(ListItems)
  <2>1. PICK v, p : v = config[o] /\ p = Sax!PartOf(o, l)
    OBVIOUS
  <2>2. v \in Seq(ListItems)
    BY <2>1 DEF ConfigTyped
  <2>3. p \in Seq(ListItems)
    BY <2>1, PartsTyped
  <2>4. v \o p \in Seq(ListItems)
    <3> HIDE DEF ListItems
    <3> QED
      BY <2>2, <2>3
  <2>5. Sax!Taken(o, l) = IF Len(l) < 2 THEN v ELSE v \o p
    <3>1. o = "Profile" \/ o = "Subword_lengths"
      BY DEF SaxLists
    <3>2. o \notin {"Symbol_size", "Verbose", "DB_hist"} /\ o \in {"Subword_lengths", "Profile"}
      BY <3>1
    <3>3. Sax!Taken(o, l) = IF Len(l) < 2 THEN config[o] ELSE Sax!ValueOf(o, l)
      BY <3>2 DEF Sax!Taken
    <3>4. Sax!ValueOf(o, l) = Sax!Values(o, l)
      BY <3>1 DEF Sax!ValueOf
    <3> QED
      BY <2>1, <3>3, <3>4, Zenon DEF Sax!Values
  <2>6. Len(l) < 2 => v \o p = v
    <3> SUFFICES ASSUME Len(l) < 2 PROVE v \o p = v
      OBVIOUS
    <3>1. p = <<>>
      BY <2>1, NoPart
    <3> QED
      BY <2>2, <3>1, ConcatEmptySeq
  <2> QED
    BY <2>1, <2>4, <2>5, <2>6, Zenon
<1> QED
  BY <1>1, <1>2, <1>3

(* The lines of options that this line is none of. *)
LEMMA OptionKept ==
    ASSUME NEW k \in Nat \ {0}, NEW o, ~ (lines[k] # <<>> /\ lines[k][1] = o)
    PROVE  GivenParts(o, k + 1) = GivenParts(o, k) /\ (o = "Symbol_size" => SizeOfLines(k + 1) = SizeOfLines(k))
<1>1. OptionPlaces(o, k + 1) = OptionPlaces(o, k)
  BY OptionPlacesGrow
<1> QED
  BY <1>1, Zenon DEF GivenParts, GivenLines, SizeOfLines

LEMMA SameLines ==
    ASSUME lines' = lines, NEW k
    PROVE  (\A o : GivenParts(o, k)' = GivenParts(o, k)) /\ SizeOfLines(k)' = SizeOfLines(k)
<1>1. \A o : OptionPlaces(o, k)' = OptionPlaces(o, k)
  BY DEF OptionPlaces
<1>2. \A o : GivenLines(o, k)' = GivenLines(o, k)
  BY <1>1 DEF GivenLines
<1> QED
  BY <1>1, <1>2 DEF GivenParts, SizeOfLines

LEMMA TakeLineKeeps == ASSUME SaxInv, Sax!TakeLine PROVE SaxInv'
<1>1. /\ pc = "options" /\ i <= Len(lines) /\ i' = i + 1 /\ lines' = lines
      /\ pc' = IF i = Len(lines) THEN "done" ELSE pc
      /\ config' = IF lines[i] # <<>> /\ lines[i][1] \in DOMAIN config
                   THEN [config EXCEPT ![lines[i][1]] = Sax!Taken(lines[i][1], lines[i])]
                   ELSE config
  BY DEF Sax!TakeLine
<1>2. SplitInv /\ ConfigTyped /\ OptionsRead(i)
  BY <1>1 DEF SaxInv
<1>3. SplitInv'
  BY <1>1, <1>2, TakeLineKeepsLines
<1>4. i \in Nat \ {0} /\ Len(lines) \in Nat /\ lines[i] \in Seq(SaxWords)
  <2>1. SaxTyped /\ LinesRead
    BY <1>2 DEF SplitInv
  <2>2. Len(file) \in Nat /\ i \in 1 .. Len(file) + 2 /\ Len(lines) \in Nat
    BY <2>1, SaxFile DEF SaxTyped, IsArray
  <2>3. i \in 1 .. Len(lines)
    BY <1>1, <2>2
  <2> QED
    BY <2>1, <2>2, <2>3 DEF LinesRead
<1>5. PICK k, l, new : k = i /\ l = lines[k] /\ new = config'
  OBVIOUS
<1>6. /\ DOMAIN config = DOMAIN Sax!Empty /\ SaxLists \subseteq DOMAIN config
      /\ {"Symbol_size", "DB_hist"} \subseteq DOMAIN config
  <2>1. DOMAIN config = DOMAIN Sax!Empty
    BY <1>2 DEF ConfigTyped
  <2>2. {"Symbol_size", "DB_hist", "Profile", "Subword_lengths"} \subseteq DOMAIN Sax!Empty
    BY DEF Sax!Empty
  <2> QED
    BY <2>1, <2>2 DEF SaxLists
<1>7. /\ DOMAIN new = DOMAIN config
      /\ \A o \in DOMAIN config : new[o] = IF l # <<>> /\ l[1] = o THEN Sax!Taken(o, l) ELSE config[o]
  <2>1. CASE l # <<>> /\ l[1] \in DOMAIN config
    <3>1. PICK p, v : p = l[1] /\ v = Sax!Taken(p, l)
      OBVIOUS
    <3>2. new = [config EXCEPT ![p] = v]
      BY <1>1, <1>5, <2>1, <3>1
    <3>3. DOMAIN new = DOMAIN config /\ \A o \in DOMAIN config : new[o] = IF p = o THEN v ELSE config[o]
      BY <3>2
    <3> QED
      BY <2>1, <3>1, <3>3, Zenon
  <2>2. CASE ~ (l # <<>> /\ l[1] \in DOMAIN config)
    BY <1>1, <1>5, <2>2
  <2> QED
    BY <2>1, <2>2
<1>8. l # <<>> => /\ Sax!Taken("Symbol_size", l) = Sax!GetInt(l) /\ Sax!Taken("DB_hist", l) \in Int
                  /\ \A o \in SaxLists : /\ Sax!Taken(o, l) = config[o] \o Sax!PartOf(o, l)
                                         /\ Sax!Taken(o, l) \in Seq(ListItems)
  BY <1>2, <1>4, <1>5, ValueTaken, Zenon
<1>9. ConfigTyped'
  <2>1. config["Symbol_size"] \in Int /\ config["DB_hist"] \in Int /\ \A o \in SaxLists : config[o] \in Seq(ListItems)
    BY <1>2 DEF ConfigTyped
  <2>2. Sax!GetInt(l) \in Int
    BY NumbersTyped
  <2>3. new["Symbol_size"] \in Int /\ new["DB_hist"] \in Int
    <3>1. "Symbol_size" \in DOMAIN config /\ "DB_hist" \in DOMAIN config
      BY <1>6
    <3> QED
      BY <1>7, <1>8, <2>1, <2>2, <3>1, Zenon
  <2>4. \A o \in SaxLists : new[o] \in Seq(ListItems)
    BY <1>6, <1>7, <1>8, <2>1, Zenon
  <2>5. DOMAIN new = DOMAIN Sax!Empty
    BY <1>6, <1>7
  <2> QED
    BY <1>5, <2>3, <2>4, <2>5 DEF ConfigTyped, ListItems, SaxWords, SaxLists
<1>10. \A o \in SaxLists : new[o] = Sax!FlattenSeq(GivenParts(o, k + 1))
  <2> SUFFICES ASSUME NEW o \in SaxLists PROVE new[o] = Sax!FlattenSeq(GivenParts(o, k + 1))
    OBVIOUS
  <2>1. config[o] = Sax!FlattenSeq(GivenParts(o, k))
    BY <1>2, <1>5 DEF OptionsRead
  <2>2. k \in Nat \ {0} /\ o \in DOMAIN config
    BY <1>4, <1>5, <1>6
  <2>3. CASE l # <<>> /\ l[1] = o
    <3>1. PICK s, t, x : s = GivenParts(o, k) /\ t = GivenParts(o, k + 1) /\ x = Sax!PartOf(o, l)
      OBVIOUS
    <3>2. IsArray(s) /\ IsLonger(t, s, x)
      BY <1>5, <2>2, <2>3, <3>1, PartsGrow
    <3>3. x \in Seq(ListItems)
      BY <1>4, <1>5, <2>3, <3>1, PartsTyped
    <3>4. Sax!FlattenSeq(t) = Sax!FlattenSeq(s) \o x
      BY <3>2, <3>3, FlattenLonger
    <3>5. new[o] = config[o] \o x
      BY <1>7, <1>8, <2>2, <2>3, <3>1, Zenon
    <3> QED
      BY <2>1, <3>1, <3>4, <3>5, Zenon
  <2>4. CASE ~ (l # <<>> /\ l[1] = o)
    <3>1. GivenParts(o, k + 1) = GivenParts(o, k)
      BY <1>5, <2>2, <2>4, OptionKept
    <3> QED
      BY <1>7, <2>1, <2>2, <2>4, <3>1, Zenon
  <2> QED
    BY <2>3, <2>4
<1>11. new["Symbol_size"] = SizeOfLines(k + 1)
  <2>1. config["Symbol_size"] = SizeOfLines(k)
    BY <1>2, <1>5 DEF OptionsRead
  <2>2. k \in Nat \ {0} /\ "Symbol_size" \in DOMAIN config
    BY <1>4, <1>5, <1>6
  <2>3. PICK o : o = "Symbol_size"
    OBVIOUS
  <2>4. CASE l # <<>> /\ l[1] = o
    <3>1. /\ OptionPlaces(o, k + 1) # {}
          /\ GivenLines(o, k + 1)[Cardinality(OptionPlaces(o, k + 1))] = l
      BY <1>5, <2>2, <2>4, PartsGrow
    <3>2. new[o] = Sax!GetInt(l)
      BY <1>7, <1>8, <2>2, <2>3, <2>4, Zenon
    <3> QED
      BY <2>3, <3>1, <3>2, Zenon DEF SizeOfLines
  <2>5. CASE ~ (l # <<>> /\ l[1] = o)
    <3>1. SizeOfLines(k + 1) = SizeOfLines(k)
      BY <1>5, <2>2, <2>3, <2>5, OptionKept
    <3> QED
      BY <1>7, <2>1, <2>2, <2>3, <2>5, <3>1, Zenon
  <2> QED
    BY <2>4, <2>5
<1>12. OptionsRead(k + 1)'
  <2>1. (\A o : GivenParts(o, k + 1)' = GivenParts(o, k + 1)) /\ SizeOfLines(k + 1)' = SizeOfLines(k + 1)
    BY <1>1, SameLines
  <2> QED
    BY <1>5, <1>10, <1>11, <2>1 DEF OptionsRead
<1>13. (IF pc' \in {"options", "done"} THEN i' ELSE 1) = k + 1
  BY <1>1, <1>5
<1>14. OptionsRead(IF pc \in {"options", "done"} THEN i ELSE 1)'
  BY <1>12, <1>13 DEF OptionsRead, SizeOfLines, GivenParts, GivenLines, OptionPlaces
<1>15. pc' = "done" => i' = Len(lines') + 1
  BY <1>1
<1> QED
  BY <1>3, <1>9, <1>14, <1>15 DEF SaxInv

LEMMA NextSax == ASSUME SaxInv, [Sax!Next]_Sax!vars PROVE SaxInv'
<1>1. CASE Sax!BeginLine \/ Sax!Token \/ Sax!EndLine \/ Sax!Tokenized
  BY <1>1, SplittingKeeps
<1>2. CASE Sax!TakeLine
  BY <1>2, TakeLineKeeps
<1>3. CASE UNCHANGED Sax!vars
  <2>1. file' = file /\ i' = i /\ line' = line /\ lines' = lines /\ pc' = pc /\ config' = config
    BY <1>3 DEF Sax!vars
  <2>2. PICK k : k = IF pc \in {"options", "done"} THEN i ELSE 1
    OBVIOUS
  <2>3. (\A o : GivenParts(o, k)' = GivenParts(o, k)) /\ SizeOfLines(k)' = SizeOfLines(k)
    BY <2>1, SameLines
  <2>4. OptionsRead(k)'
    <3>1. OptionsRead(k)
      BY <2>2 DEF SaxInv
    <3> QED
      BY <2>1, <2>3, <3>1 DEF OptionsRead
  <2>5. OptionsRead(IF pc \in {"options", "done"} THEN i ELSE 1)'
    BY <2>1, <2>2, <2>4 DEF OptionsRead, SizeOfLines, GivenParts, GivenLines, OptionPlaces
  <2>6. ConfigTyped'
    BY <2>1 DEF SaxInv, ConfigTyped, ListItems, SaxWords, SaxLists
  <2>7. SplitInv /\ SplitInv'
    <3>1. SplitInv
      BY DEF SaxInv
    <3>2. SaxTyped' /\ LinesRead'
      BY <2>1, <3>1, SameFile DEF SplitInv, SaxTyped, LinesRead, SaxWords
    <3>3. (pc' = "line" => AtLine') /\ (pc' = "tokens" => InLine') /\ (pc' \in {"options", "done"} => AllLines')
      BY <2>1, <3>1, SameFile DEF SplitInv, AtLine, InLine, AllLines
    <3> QED
      BY <3>1, <3>2, <3>3 DEF SplitInv
  <2> QED
    BY <2>1, <2>5, <2>6, <2>7 DEF SaxInv
<1> QED
  BY <1>1, <1>2, <1>3, Zenon DEF Sax!Next

(* What is said of the reader follows. *)
LEMMA OptionsWereTaken == ASSUME SaxInv PROVE Sax!TypeOK /\ Sax!LinesAreSplit /\ Sax!OptionsAreOfTheirLines
<1>1. SplitInv /\ ConfigTyped
  BY DEF SaxInv
<1>2. Sax!LinesAreSplit /\ \A m \in 1 .. Len(lines) : lines[m] \in Seq(SaxWords)
  BY <1>1, LinesWereSplit
<1>3. DOMAIN lines = 1 .. Len(lines) /\ Len(lines) \in Nat
  BY <1>1 DEF SplitInv, SaxTyped, IsArray
<1>4. Sax!TypeOK
  <2>1. \A l \in Sax!ToSet(lines) : l \in Seq(DOMAIN WordLengths)
    BY <1>2, <1>3, Zenon DEF Sax!ToSet, SaxWords
  <2>2. pc \in {"line", "tokens", "options", "done", "panic"} /\ i \in 1 .. Len(file) + 2
    BY <1>1 DEF SplitInv, SaxTyped
  <2>3. config["Symbol_size"] \in Int /\ config["DB_hist"] \in Int
    BY <1>1 DEF ConfigTyped
  <2> QED
    BY <2>1, <2>2, <2>3 DEF Sax!TypeOK
<1>5. Sax!OptionsAreOfTheirLines
  <2> SUFFICES ASSUME pc = "done"
               PROVE  /\ \A o \in {"Profile", "Subword_lengths"} :
                            config[o] = Sax!FlattenSeq([k \in DOMAIN Sax!LinesOf(o) |->
                                                          Sax!PartOf(o, Sax!LinesOf(o)[k])])
                      /\ config.Symbol_size = IF Sax!LinesOf("Symbol_size") = <<>> THEN 0
                                              ELSE Sax!GetInt(Sax!Last(Sax!LinesOf("Symbol_size")))
    BY DEF Sax!OptionsAreOfTheirLines
  <2>1. PICK k : k = i
    OBVIOUS
  <2>2. OptionsRead(k) /\ k = Len(lines) + 1
    BY <2>1 DEF SaxInv
  <2>3. \A o : OptionPlaces(o, k) = {n \in DOMAIN lines : lines[n] # <<>> /\ lines[n][1] = o}
    <3>1. 1 .. k - 1 = DOMAIN lines
      BY <1>3, <2>2
    <3> QED
      BY <3>1, Zenon DEF OptionPlaces
  <2>4. \A o : Sax!LinesOf(o) = GivenLines(o, k)
    BY <2>3, SaxElements, Zenon DEF Sax!LinesOf, GivenLines
  <2>5. \A o : [m \in DOMAIN Sax!LinesOf(o) |-> Sax!PartOf(o, Sax!LinesOf(o)[m])] = GivenParts(o, k)
    BY <2>4, Zenon DEF GivenParts
  <2>6. \A o \in {"Profile", "Subword_lengths"} :
           config[o] = Sax!FlattenSeq([m \in DOMAIN Sax!LinesOf(o) |-> Sax!PartOf(o, Sax!LinesOf(o)[m])])
    BY <2>2, <2>5, Zenon DEF OptionsRead, SaxLists
  <2>7. PICK P, L : P = OptionPlaces("Symbol_size", k) /\ L = GivenLines("Symbol_size", k)
    OBVIOUS
  <2>8. IsFiniteSet(P)
    <3>1. k \in Nat \ {0}
      BY <1>3, <2>2
    <3> QED
      BY <2>7, <3>1, OptionPlacesGrow
  <2>9. Len(L) = Cardinality(P) /\ (P = {} => L = <<>>) /\ Cardinality(P) \in Nat
    BY <2>7, <2>8, ElementsLength DEF GivenLines
  <2>10. P # {} => L # <<>>
    <3>1. P # {} => Cardinality(P) # 0
      BY <2>8, FS_EmptySet
    <3>2. Len(<<>>) = 0
      OBVIOUS
    <3> QED
      BY <2>9, <3>1, <3>2, Zenon
  <2>11. config["Symbol_size"] = IF P = {} THEN 0 ELSE Sax!GetInt(L[Cardinality(P)])
    BY <2>2, <2>7, Zenon DEF OptionsRead, SizeOfLines
  <2>12. Sax!Last(L) = L[Cardinality(P)]
    BY <2>9, Zenon DEF Sax!Last
  <2>13. config["Symbol_size"] = IF L = <<>> THEN 0 ELSE Sax!GetInt(Sax!Last(L))
    BY <2>9, <2>10, <2>11, <2>12, Zenon
  <2> QED
    BY <2>4, <2>6, <2>7, <2>13, Zenon
<1> QED
  BY <1>2, <1>4, <1>5

(* nsutil.go:55-109, :156 and :220: the lines of tokens are those of the   *)
(* file, each without its comment, none joined to another or lost; a list  *)
(* of options is what all its lines give, in their order, and a number     *)
(* what its last line gives, even if that line gives none - for files of   *)
(* any length and words of any kind.                                       *)
THEOREM OptionsAreOfTheirLinesEver == ReadersSpec => []OptionsAreOfTheirLines
<1> DEFINE Inv == reader = "sax" => SaxInv
<1>1. ReadersInit => Inv
  BY SaxStarts DEF ReadersInit
<1>2. Inv /\ [ReadersNext]_readerVars => Inv'
  <2> SUFFICES ASSUME Inv, [ReadersNext]_readerVars, reader' = "sax" PROVE SaxInv'
    OBVIOUS
  <2>1. reader' = reader
    BY DEF ReadersNext, readerVars
  <2>2. SaxInv
    BY <2>1
  <2>3. [Sax!Next]_Sax!vars
    BY <2>1 DEF ReadersNext, readerVars, Sax!vars, ofSax
  <2> QED
    BY <2>2, <2>3, NextSax
<1>3. Inv => OptionsAreOfTheirLines
  BY OptionsWereTaken, Zenon DEF OptionsAreOfTheirLines, Reads
<1> QED
  BY <1>1, <1>2, <1>3, PTL DEF ReadersSpec
=============================================================================
