----------------------------- MODULE ScansProofs -----------------------------
(***************************************************************************)
(* Proofs about the scans of the SAX tools, for every series and every     *)
(* length of a window, a word and a symbol.                                *)
(*                                                                         *)
(* The sums and maxima of the tools are folds and choices over finite      *)
(* sets.  What they compute is proved without an induction theorem over    *)
(* operators: NaturalsFrom and SubsetsFrom take the SET of what is to be   *)
(* shown, and a fold is a function that takes the steps of Steps.          *)
(*                                                                         *)
(* The parallel window scan comes first: its counts, its words and its     *)
(* schedules, as WindowScan has them for every series and every number of  *)
(* profiles.  Then each of the other tools has an inductive invariant.     *)
(*   SearchInv   profile_search.go: the maps of the lead window are those  *)
(*               of the search alone at every start, a goroutine carries   *)
(*               the distance of its own start, and what was received is   *)
(*               gathered at the place of that start; FileFits says what   *)
(*               the file made of it shows.                                *)
(*   SeriesInv   tsb_comp.go, basecomp.go, scomp.go, scomp_local.go: every *)
(*               row so far is RowDistance, which says nothing of what was *)
(*               counted before; most is the last row that is not 0.       *)
(*   WordsInv    saxutil.go: the words so far are those of their windows,  *)
(*               which lie in the series.  The three parts of              *)
(*               WordsShowTheShape are facts about a word of a window.     *)
(***************************************************************************)
EXTENDS Scans, FiniteSetTheorems, SequenceTheorems, WellFoundedInduction, TLAPS

(***************************************************************************)
(* The counts of subwords: that of a window that slides by a word differs  *)
(* from the one before by the word that leaves and the word that enters,   *)
(* and so far an adjusted count agrees with a recount.                     *)
(***************************************************************************)

(* A subword has a length. *)
LEMMA SubLength == ASSUME NEW s \in Subs PROVE Len(s) \in Nat \ {0}
<1>1. PICK n \in SubLengths : s \in [1 .. n -> Alphabet]
  BY DEF Subs, GenSubwords
<1>2. n \in Nat \ {0}
  BY SubwordConstants DEF SubwordConstants
<1>3. s \in Seq(Alphabet) /\ Len(s) = n
  BY <1>1, <1>2
<1>. QED  BY <1>2, <1>3

(* A word has finitely many places. *)
LEMMA PlacesFinite == ASSUME NEW w \in Seq(Alphabet), NEW s \in Subs
                      PROVE  IsFiniteSet(Places(w, s)) /\ Cardinality(Places(w, s)) \in Nat
<1>1. Len(w) - Len(s) + 1 \in Int
  BY SubLength
<1>2. IsFiniteSet(1 .. Len(w) - Len(s) + 1)
  BY <1>1, FS_Interval
<1>3. Places(w, s) \in SUBSET (1 .. Len(w) - Len(s) + 1)
  BY DEF Places
<1>4. IsFiniteSet(Places(w, s))
  BY <1>2, <1>3, FS_Subset
<1>. QED  BY <1>4, FS_CardinalityType

(* The places of one word of a series. *)
At(list, s, k) == {k} \X Places(list[k], s)

(* There are as many as in the word. *)
LEMMA AtFinite == ASSUME NEW list, NEW k, list[k] \in Seq(Alphabet), NEW s \in Subs
                  PROVE  /\ IsFiniteSet(At(list, s, k))
                         /\ Cardinality(At(list, s, k)) = Cardinality(Places(list[k], s))
<1>1. IsFiniteSet(Places(list[k], s)) /\ Cardinality(Places(list[k], s)) \in Nat
  BY PlacesFinite
<1>2. IsFiniteSet({k}) /\ Cardinality({k}) = 1
  BY FS_Singleton
<1>3. /\ IsFiniteSet({k} \X Places(list[k], s))
      /\ Cardinality({k} \X Places(list[k], s)) = 1 * Cardinality(Places(list[k], s))
  BY <1>1, <1>2, FS_Product
<1>. QED  BY <1>1, <1>3 DEF At

(* The places of the words from..to-1. *)
Window(list, s, from, to) == UNION {At(list, s, k) : k \in from .. to - 1}

(* Their number is the count. *)
LEMMA CountIsCardinality == ASSUME NEW list, NEW from, NEW to, NEW s \in Subs
                            PROVE  CountSubwords(list, from, to)[s] = Cardinality(Window(list, s, from, to))
  BY DEF CountSubwords, Window, At

(* A window has finitely many places. *)
LEMMA WindowFinite ==
  ASSUME NEW list, NEW from \in Int, NEW to \in Int, NEW s \in Subs,
         \A k \in from .. to - 1 : list[k] \in Seq(Alphabet)
  PROVE  IsFiniteSet(Window(list, s, from, to)) /\ Cardinality(Window(list, s, from, to)) \in Nat
<1> DEFINE K == from .. to - 1
           T == {At(list, s, k) : k \in K}
           f == [k \in K |-> At(list, s, k)]
<1>1. IsFiniteSet(K)
  BY FS_Interval
<1>2. f \in Surjection(K, T)
  BY DEF Surjection
<1>3. IsFiniteSet(T)
  BY <1>1, <1>2, FS_Surjection
<1>4. \A t \in T : IsFiniteSet(t)
  BY AtFinite
<1>5. IsFiniteSet(UNION T)
  BY <1>3, <1>4, FS_UNION
<1>. QED  BY <1>5, FS_CardinalityType DEF Window

(* The count of a window is a map. *)
LEMMA CountType ==
  ASSUME NEW list, NEW from \in Int, NEW to \in Int,
         \A k \in from .. to - 1 : list[k] \in Seq(Alphabet)
  PROVE  CountSubwords(list, from, to) \in [Subs -> Int]
<1>1. \A s \in Subs : CountSubwords(list, from, to)[s] \in Int
  BY WindowFinite, CountIsCardinality
<1>. QED  BY <1>1 DEF CountSubwords

(* The places of the leaving word that the loop of Adj_count looks at. *)
Removed(s, remove, add) == {k \in Places(remove, s) : k + Len(s) <= Len(add) + 1}

(* They are not more than its places, and all of them where the entering   *)
(* word is as long.                                                        *)
LEMMA RemovedBound ==
  ASSUME NEW s \in Subs, NEW remove \in Seq(Alphabet), NEW add \in Seq(Alphabet)
  PROVE  /\ Cardinality(Removed(s, remove, add)) \in Nat
         /\ Cardinality(Removed(s, remove, add)) <= Cardinality(Places(remove, s))
         /\ Len(add) = Len(remove) => Removed(s, remove, add) = Places(remove, s)
<1>1. IsFiniteSet(Places(remove, s))
  BY PlacesFinite
<1>2. Removed(s, remove, add) \in SUBSET Places(remove, s)
  BY DEF Removed
<1>3. IsFiniteSet(Removed(s, remove, add)) /\ Cardinality(Removed(s, remove, add)) <= Cardinality(Places(remove, s))
  BY <1>1, <1>2, FS_Subset
<1>4. Len(add) = Len(remove) => Removed(s, remove, add) = Places(remove, s)
  BY SubLength DEF Removed, Places
<1>. QED  BY <1>3, <1>4, FS_CardinalityType

(* An adjusted map is a map. *)
LEMMA AdjustType ==
  ASSUME NEW ct \in [Subs -> Int], NEW remove \in Seq(Alphabet), NEW add \in Seq(Alphabet)
  PROVE  AdjCount(ct, remove, add) \in [Subs -> Int]
<1>1. \A s \in Subs : ct[s] + Cardinality(Places(add, s)) - Cardinality(Removed(s, remove, add)) \in Int
  BY PlacesFinite, RemovedBound
<1>. QED  BY <1>1 DEF AdjCount, Removed

(* Disjoint sets add up. *)
LEMMA DisjointUnion ==
  ASSUME NEW S, NEW T, IsFiniteSet(S), IsFiniteSet(T), S \cap T = {}
  PROVE  Cardinality(S \cup T) = Cardinality(S) + Cardinality(T)
<1>1. Cardinality(S \cup T) = Cardinality(S) + Cardinality(T) - Cardinality(S \cap T)
  BY FS_Union
<1>2. Cardinality(S \cap T) = 0
  BY FS_EmptySet
<1>3. Cardinality(S) \in Nat /\ Cardinality(T) \in Nat
  BY FS_CardinalityType
<1>. QED  BY <1>1, <1>2, <1>3

(* A window that slides by one word: what leaves and what enters.          *)
LEMMA CountSlides ==
  ASSUME NEW list, NEW from \in Int, NEW to \in Int, from <= to, NEW s \in Subs,
         \A k \in from .. to : list[k] \in Seq(Alphabet)
  PROVE  CountSubwords(list, from + 1, to + 1)[s] + Cardinality(Places(list[from], s))
            = CountSubwords(list, from, to)[s] + Cardinality(Places(list[to], s))
<1> DEFINE A == Window(list, s, from, to)
           B == Window(list, s, from + 1, to + 1)
           F == At(list, s, from)
           T == At(list, s, to)
<1>1. IsFiniteSet(A) /\ Cardinality(A) \in Nat
  BY WindowFinite
<1>2. IsFiniteSet(B) /\ Cardinality(B) \in Nat
  BY WindowFinite
<1>3. /\ IsFiniteSet(F) /\ Cardinality(F) = Cardinality(Places(list[from], s))
      /\ IsFiniteSet(T) /\ Cardinality(T) = Cardinality(Places(list[to], s))
  BY AtFinite
<1>4. A \cup T = B \cup F
  <2>1. A \cup T = UNION {At(list, s, k) : k \in from .. to}
    BY DEF Window
  <2>2. B \cup F = UNION {At(list, s, k) : k \in from .. to}
    BY DEF Window
  <2>. QED  BY <2>1, <2>2
<1>5. A \cap T = {} /\ B \cap F = {}
  <2>1. \A k, j : k # j => At(list, s, k) \cap At(list, s, j) = {}
    BY DEF At
  <2>. QED  BY <2>1 DEF Window
<1>6. Cardinality(A \cup T) = Cardinality(A) + Cardinality(T)
  BY <1>1, <1>3, <1>5, DisjointUnion
<1>7. Cardinality(B \cup F) = Cardinality(B) + Cardinality(F)
  BY <1>2, <1>3, <1>5, DisjointUnion
<1>8. Cardinality(B) + Cardinality(F) = Cardinality(A) + Cardinality(T)
  BY <1>4, <1>6, <1>7
<1>9. /\ CountSubwords(list, from, to)[s] = Cardinality(A)
       /\ CountSubwords(list, from + 1, to + 1)[s] = Cardinality(B)
  BY CountIsCardinality
<1>. QED  BY <1>3, <1>8, <1>9

(* Adj_count never leaves a subword counted less often than it occurs.     *)
LEMMA AdjustAbove ==
  ASSUME NEW list, NEW from \in Int, NEW to \in Int, from <= to, NEW s \in Subs,
         \A k \in from .. to : list[k] \in Seq(Alphabet),
         NEW ct \in [Subs -> Int], ct[s] >= CountSubwords(list, from, to)[s]
  PROVE  AdjCount(ct, list[from], list[to])[s] >= CountSubwords(list, from + 1, to + 1)[s]
<1> DEFINE lost == Cardinality(Places(list[from], s))
           in  == Cardinality(Places(list[to], s))
           gone == Cardinality(Removed(s, list[from], list[to]))
           old == CountSubwords(list, from, to)[s]
           new == CountSubwords(list, from + 1, to + 1)[s]
<1>1. list[from] \in Seq(Alphabet) /\ list[to] \in Seq(Alphabet)
  OBVIOUS
<1>2. lost \in Nat /\ in \in Nat /\ gone \in Nat /\ gone <= lost
  BY <1>1, PlacesFinite, RemovedBound
<1>3. old \in Int /\ new \in Int
  BY WindowFinite, CountIsCardinality
<1>4. new + lost = old + in
  BY CountSlides
<1>5. AdjCount(ct, list[from], list[to])[s] = ct[s] + in - gone
  BY DEF AdjCount, Removed
<1> HIDE DEF lost, in, gone, old, new
<1>6. ct[s] \in Int /\ ct[s] >= old
  BY DEF old
<1>7. ct[s] + in - gone >= new
  BY <1>2, <1>3, <1>4, <1>6
<1>. QED  BY <1>5, <1>7 DEF new

(* saxutil.go:272: between words of one length it can be used instead of   *)
(* recounting everything.                                                  *)
THEOREM AdjustIsRecount ==
  ASSUME NEW list, NEW from \in Int, NEW to \in Int, from <= to,
         \A k \in from .. to : list[k] \in Seq(Alphabet),
         Len(list[to]) = Len(list[from])
  PROVE  AdjCount(CountSubwords(list, from, to), list[from], list[to])
            = CountSubwords(list, from + 1, to + 1)
<1> DEFINE ct == CountSubwords(list, from, to)
<1>1. list[from] \in Seq(Alphabet) /\ list[to] \in Seq(Alphabet)
  OBVIOUS
<1>2. \A s \in Subs : AdjCount(ct, list[from], list[to])[s] = CountSubwords(list, from + 1, to + 1)[s]
  <2> TAKE s \in Subs
  <2>1. Removed(s, list[from], list[to]) = Places(list[from], s)
    BY <1>1, RemovedBound
  <2>2. AdjCount(ct, list[from], list[to])[s]
          = ct[s] + Cardinality(Places(list[to], s)) - Cardinality(Places(list[from], s))
    BY <2>1 DEF AdjCount, Removed
  <2>3. Cardinality(Places(list[to], s)) \in Nat /\ Cardinality(Places(list[from], s)) \in Nat
    BY <1>1, PlacesFinite
  <2>4. ct[s] \in Int /\ CountSubwords(list, from + 1, to + 1)[s] \in Int
    BY WindowFinite, CountIsCardinality
  <2>5. CountSubwords(list, from + 1, to + 1)[s] + Cardinality(Places(list[from], s))
          = ct[s] + Cardinality(Places(list[to], s))
    BY CountSlides
  <2> HIDE DEF ct
  <2>. QED  BY <2>2, <2>3, <2>4, <2>5
<1>3. /\ AdjCount(ct, list[from], list[to]) = [s \in Subs |-> AdjCount(ct, list[from], list[to])[s]]
      /\ CountSubwords(list, from + 1, to + 1) = [s \in Subs |-> CountSubwords(list, from + 1, to + 1)[s]]
  BY DEF AdjCount, CountSubwords
<1>. QED  BY <1>2, <1>3

----------------------------------------------------------------------------
(* Words along a series. *)

(* Whole symbols in x samples. *)
LEMMA WholeSymbols ==
    ASSUME NEW x \in Nat, NEW s \in Nat \ {0}
    PROVE  x \div s \in Nat /\ s * (x \div s) <= x /\ x < s * (x \div s) + s
  BY SMTT(30)

(* Fewer samples hold no more of them. *)
LEMMA FewerSymbols ==
    ASSUME NEW a \in Nat, NEW b \in Nat, NEW s \in Nat \ {0}, s * a < s * b + s
    PROVE  a <= b
  BY SMTT(30)

(* Gen_words (saxutil.go:170-188) makes no word longer than the one before *)
(* it, for every length of a series, a word and a symbol: the assumption   *)
(* WindowScan makes of its inputs.                                         *)
THEOREM WordsNeverGrow ==
    ASSUME NEW samples \in Nat, NEW fwin \in Nat, NEW symbol \in Nat \ {0},
           NEW j \in 0 .. samples, NEW k \in j .. samples
    PROVE  WordLength(k, samples, fwin, symbol) <= WordLength(j, samples, fwin, symbol)
<1> DEFINE x == samples - j
           y == samples - k
<1>1. x \in Nat /\ y \in Nat /\ y <= x
  OBVIOUS
<1>2. /\ x \div symbol \in Nat /\ x < symbol * (x \div symbol) + symbol
      /\ y \div symbol \in Nat /\ symbol * (y \div symbol) <= y
  BY <1>1, WholeSymbols
<1>3. symbol * fwin \in Nat /\ fwin * symbol = symbol * fwin
  BY SMT
<1>4. CASE j < samples - fwin * symbol /\ k < samples - fwin * symbol
  BY <1>4 DEF WordLength
<1>5. CASE k >= samples - fwin * symbol /\ j < samples - fwin * symbol
  <2>1. symbol * (y \div symbol) < symbol * fwin + symbol
    <3>1. y <= symbol * fwin
      BY <1>3, <1>5
    <3> HIDE DEF y
    <3>2. symbol * (y \div symbol) \in Int
      BY <1>2, SMT
    <3>. QED  BY <1>1, <1>2, <1>3, <3>1, <3>2
  <2>2. y \div symbol <= fwin
    BY <1>2, <2>1, FewerSymbols
  <2>. QED  BY <1>3, <1>5, <2>2 DEF WordLength
<1>6. CASE j >= samples - fwin * symbol
  <2>1. symbol * (y \div symbol) < symbol * (x \div symbol) + symbol
    <3> HIDE DEF x, y
    <3>1. symbol * (y \div symbol) \in Int /\ symbol * (x \div symbol) \in Int
      BY <1>2, SMT
    <3>. QED  BY <1>1, <1>2, <3>1
  <2>2. y \div symbol <= x \div symbol
    BY <1>2, <2>1, FewerSymbols
  <2>3. ~(j < samples - fwin * symbol) /\ ~(k < samples - fwin * symbol)
    BY <1>3, <1>6
  <2>. QED  BY <2>2, <2>3 DEF WordLength
<1>. QED  BY <1>3, <1>4, <1>5, <1>6

----------------------------------------------------------------------------
(* The scan. *)

Total == N - Lag - Lead + 1

(* The goroutines of a channel whose result was received. *)
Gone(c) == {k \in 1 .. lagStart : state[c][k] = "gone"}

(* How far the first loop is. *)
Shape ==
    /\ lagStart <= Total
    /\ Len(lagCt) = lagStart + 1
    /\ Len(leadCt) = (IF lagStart < Total THEN lagStart + 1 ELSE lagStart)
    /\ \A c \in Chans : Len(state[c]) = lagStart /\ Len(result[c]) = lagStart
    /\ pc # "spawn" => lagStart = Total

(* What is computed is computed from the maps of its position, and what is *)
(* stored was computed.                                                    *)
Results ==
    /\ \A c \in Chans : \A k \in 1 .. lagStart :
           state[c][k] # "started" => result[c][k] = Compared(c, k)
    /\ \A c \in Chans : dist[c] = {<<k, result[c][k]>> : k \in Gone(c)}

(* A round receives once from every channel. *)
Rounds ==
    /\ left # {}
    /\ \A c \in Chans : Cardinality(Gone(c)) = IF c \in left THEN got ELSE got + 1
    /\ pc = "spawn" => got = 0 /\ left = Chans
    /\ pc = "collect" => got < lagStart
    /\ pc = "done" => got = lagStart /\ left = Chans

SliceOf(w) == [k \in 0 .. Len(w) - 1 |-> w[k + 1]]

(* The first j words have one length. *)
Even(w, j) == \A k \in 1 .. j : Len(w[k]) = Len(w[1])

(* An adjusted count is not below a recount of the words from..to-1, and   *)
(* is one where they and those before them have one length.                *)
Recounts(w, ct, from, to) ==
    /\ \A s \in Subs : ct[s] >= CountSubwords(SliceOf(w), from, to)[s]
    /\ Even(w, to) => ct = CountSubwords(SliceOf(w), from, to)

Counts ==
    /\ \A k \in 1 .. Len(lagCt) : Recounts(words, lagCt[k], k - 1, k - 1 + Lag)
    /\ \A k \in 1 .. Len(leadCt) : Recounts(words, leadCt[k], k - 1 + Lag, k - 1 + Lag + Lead)

IInv == TypeOK /\ Shape /\ SequentialMaps /\ Results /\ Rounds /\ Counts

----------------------------------------------------------------------------
(* The series, and the adjusted counts along it. *)

LEMMA InputType ==
  ASSUME NEW w \in Inputs
  PROVE  /\ w \in Seq(Seq(Alphabet)) /\ Len(w) \in Nat /\ Len(w) >= Lag + Lead
         /\ DOMAIN SliceOf(w) = 0 .. Len(w) - 1
         /\ \A k \in 0 .. Len(w) - 1 : SliceOf(w)[k] = w[k + 1] /\ w[k + 1] \in Seq(Alphabet)
         /\ \A j, k \in 1 .. Len(w) : j <= k => Len(w[k]) <= Len(w[j])
  BY WindowConstants DEF WindowConstants, SliceOf

LEMMA TotalType == ASSUME TypeOK PROVE N \in Nat /\ Total \in Nat \ {0} /\ lagStart \in Nat
  BY InputType, WindowConstants DEF TypeOK, WindowConstants, N, Total

(* The adjusted count of the next window. *)
LEMMA RecountsSlide ==
  ASSUME NEW w \in Inputs, NEW ct \in Map, NEW from \in Nat, NEW to \in Nat,
         from <= to, to < Len(w), Recounts(w, ct, from, to)
  PROVE  Recounts(w, AdjCount(ct, w[from + 1], w[to + 1]), from + 1, to + 1)
<1> DEFINE S == SliceOf(w)
<1>1. \A k \in from .. to : S[k] = w[k + 1] /\ S[k] \in Seq(Alphabet)
  <2>1. Len(w) \in Nat
    BY InputType
  <2>2. \A k \in from .. to : k \in 0 .. Len(w) - 1
    BY <2>1
  <2>. QED  BY <2>2, InputType
<1>2. S[from] = w[from + 1] /\ S[to] = w[to + 1]
  BY <1>1
<1> HIDE DEF S
<1>3. ASSUME NEW s \in Subs
      PROVE  AdjCount(ct, S[from], S[to])[s] >= CountSubwords(S, from + 1, to + 1)[s]
  <2>1. ct[s] >= CountSubwords(S, from, to)[s]
    BY DEF Recounts, S
  <2>2. from \in Int /\ to \in Int /\ ct \in [Subs -> Int]
    BY DEF Map
  <2>3. \A k \in from .. to : S[k] \in Seq(Alphabet)
    BY <1>1
  <2>. QED  BY <2>1, <2>2, <2>3, AdjustAbove
<1>4. ASSUME Even(w, to + 1)
      PROVE  AdjCount(ct, S[from], S[to]) = CountSubwords(S, from + 1, to + 1)
  <2>1. Even(w, to) /\ Len(w[to + 1]) = Len(w[1]) /\ Len(w[from + 1]) = Len(w[1])
    BY <1>4 DEF Even
  <2>2. ct = CountSubwords(S, from, to)
    BY <2>1 DEF Recounts, S
  <2>3. Len(S[to]) = Len(S[from])
    BY <1>2, <2>1
  <2>4. AdjCount(CountSubwords(S, from, to), S[from], S[to]) = CountSubwords(S, from + 1, to + 1)
    <3>1. from \in Int /\ to \in Int
      OBVIOUS
    <3>2. \A k \in from .. to : S[k] \in Seq(Alphabet)
      BY <1>1
    <3> QED
      BY <2>3, <3>1, <3>2, AdjustIsRecount, Zenon
  <2>. QED  BY <2>2, <2>4
<1>. QED  BY <1>2, <1>3, <1>4 DEF Recounts, S

----------------------------------------------------------------------------
(* The first loop. *)

(* Before the first pass there is one map for each window. *)
LEMMA InitInv == Init => IInv
<1> SUFFICES ASSUME Init PROVE IInv
  OBVIOUS
<1>1. /\ words \in Inputs /\ N = Len(words) /\ N \in Nat /\ Total \in Nat \ {0}
      /\ Lag \in Nat /\ Lead \in Nat /\ Lag + Lead <= N
  BY InputType, WindowConstants DEF Init, WindowConstants, N, Total
<1>2. Slice = SliceOf(words)
  BY DEF Slice, SliceOf, Word, N
<1>3. /\ CountSubwords(Slice, 0, Lag) \in Map
      /\ CountSubwords(Slice, Lag, Lag + Lead) \in Map
  <2>1. \A k \in 0 .. N - 1 : Slice[k] \in Seq(Alphabet)
    BY <1>1, <1>2, InputType
  <2>2. \A k \in 0 .. Lag - 1 : k \in 0 .. N - 1
    BY <1>1
  <2>3. \A k \in Lag .. Lag + Lead - 1 : k \in 0 .. N - 1
    BY <1>1
  <2>. QED  BY <1>1, <2>1, <2>2, <2>3, CountType DEF Map
<1>4. TypeOK
  BY <1>1, <1>3 DEF Init, TypeOK
<1>5. Shape
  BY <1>1 DEF Init, Shape
<1>6. SequentialMaps
  BY DEF Init, SequentialMaps
<1>7. \A c \in Chans : Gone(c) = {}
  BY DEF Init, Gone
<1>8. Results
  BY <1>7 DEF Init, Results
<1>9. Rounds
  BY <1>7, FS_EmptySet DEF Init, Rounds, Chans
<1>10. Counts
  <2>1. /\ Recounts(words, lagCt[1], 0, 0 + Lag)
        /\ Recounts(words, leadCt[1], 0 + Lag, 0 + Lag + Lead)
    <3>1. 0 + Lag = Lag /\ 0 + Lag + Lead = Lag + Lead
      BY <1>1
    <3>2. \A t \in Map : \A s \in Subs : t[s] >= t[s]
      BY DEF Map
    <3>. QED  BY <1>2, <1>3, <3>1, <3>2 DEF Init, Recounts
  <2>2. Len(lagCt) = 1 /\ Len(leadCt) = 1
    BY DEF Init
  <2>. QED  BY <2>1, <2>2 DEF Counts
<1>. QED  BY <1>4, <1>5, <1>6, <1>8, <1>9, <1>10 DEF IInv

(* A pass appends the maps of the next position and one goroutine to each  *)
(* channel; nothing that is there changes.                                 *)
LEMMA SpawnInv == IInv /\ Spawn => IInv'
<1> SUFFICES ASSUME IInv, Spawn PROVE IInv'
  OBVIOUS
<1> DEFINE p == lagStart + 1
           lag == AdjCount(lagCt[p], Word(lagStart), Word(leadStart))
           lead == AdjCount(leadCt[p], Word(leadStart), Word(leadEnd))
<1>1. /\ words \in Inputs /\ words' = words /\ N \in Nat /\ N = Len(words) /\ lagStart \in Nat
      /\ lagStart < Total /\ (leadEnd < N <=> p < Total)
      /\ Lag \in Nat /\ Lead \in Nat \ {0} /\ leadStart = lagStart + Lag /\ leadEnd = lagStart + Lag + Lead
      /\ leadEnd <= N /\ Total = N - Lag - Lead + 1
  <2>1. words \in Inputs /\ words' = words /\ leadEnd <= N
    BY DEF IInv, TypeOK, Spawn
  <2>2. N \in Nat /\ N = Len(words) /\ lagStart \in Nat
    BY TotalType DEF IInv, N
  <2>3. Lag \in Nat /\ Lead \in Nat \ {0}
    BY WindowConstants DEF WindowConstants
  <2>. QED  BY <2>1, <2>2, <2>3 DEF Total, leadStart, leadEnd
<1>2. /\ lagCt \in Seq(Map) /\ leadCt \in Seq(Map) /\ Len(lagCt) = p /\ Len(leadCt) = p
      /\ lagCt[p] \in Map /\ leadCt[p] \in Map
  BY <1>1 DEF IInv, TypeOK, Shape
<1>3. \A k \in 0 .. N - 1 : Word(k) = words[k + 1] /\ Word(k) \in Seq(Alphabet)
  BY <1>1, InputType DEF Word
<1>4. lag \in Map /\ (p < Total => lead \in Map)
  <2>1. lagStart \in 0 .. N - 1 /\ leadStart \in 0 .. N - 1 /\ (p < Total => leadEnd \in 0 .. N - 1)
    BY <1>1
  <2>. QED  BY <1>2, <1>3, <2>1, AdjustType DEF Map
<1>5. /\ lagCt' = Append(lagCt, lag) /\ lagStart' = p
      /\ leadCt' = (IF p < Total THEN Append(leadCt, lead) ELSE leadCt)
      /\ UNCHANGED <<pc, got, left, dist>> /\ pc = "spawn"
      /\ state' = [c \in Chans |-> Append(state[c], "started")]
      /\ result' = [c \in Chans |-> Append(result[c], <<>>)]
  BY <1>1 DEF Spawn
<1> HIDE DEF lag, lead
<1>6. /\ lagCt' \in Seq(Map) /\ Len(lagCt') = p + 1 /\ lagCt'[p + 1] = lag
      /\ \A k \in 1 .. p : lagCt'[k] = lagCt[k]
  BY <1>1, <1>2, <1>4, <1>5
<1>7. /\ leadCt' \in Seq(Map) /\ Len(leadCt') = (IF p < Total THEN p + 1 ELSE p)
      /\ p < Total => leadCt'[p + 1] = lead
      /\ \A k \in 1 .. p : leadCt'[k] = leadCt[k]
  BY <1>1, <1>2, <1>4, <1>5
<1>8. \A c \in Chans : /\ Len(state[c]) = lagStart /\ state[c] \in Seq({"started", "sending", "gone"})
                       /\ Len(result[c]) = lagStart /\ result[c] \in Seq({<<>>} \cup (Map \X Map))
  BY DEF IInv, TypeOK, Shape
<1>9. \A c \in Chans : /\ Len(state'[c]) = p /\ state'[c] \in Seq({"started", "sending", "gone"})
                       /\ Len(result'[c]) = p /\ result'[c] \in Seq({<<>>} \cup (Map \X Map))
                       /\ state'[c][p] = "started"
                       /\ \A k \in 1 .. lagStart : state'[c][k] = state[c][k] /\ result'[c][k] = result[c][k]
  <2> TAKE c \in Chans
  <2>1. state'[c] = Append(state[c], "started") /\ result'[c] = Append(result[c], <<>>)
    BY <1>5
  <2>2. /\ Len(state[c]) = lagStart /\ state[c] \in Seq({"started", "sending", "gone"})
        /\ Len(result[c]) = lagStart /\ result[c] \in Seq({<<>>} \cup (Map \X Map))
    BY <1>8
  <2>3. "started" \in {"started", "sending", "gone"} /\ <<>> \in {<<>>} \cup (Map \X Map)
    OBVIOUS
  <2>4. /\ Len(state'[c]) = p /\ state'[c] \in Seq({"started", "sending", "gone"}) /\ state'[c][p] = "started"
        /\ \A k \in 1 .. lagStart : state'[c][k] = state[c][k]
    <3>1. PICK s, t : s = state[c] /\ t = state'[c]
      OBVIOUS
    <3>2. t = Append(s, "started") /\ Len(s) = lagStart /\ s \in Seq({"started", "sending", "gone"})
      BY <2>1, <2>2, <3>1, Zenon
    <3>3. t \in Seq({"started", "sending", "gone"}) /\ Len(t) = Len(s) + 1
          /\ t[Len(s) + 1] = "started" /\ \A k \in 1 .. Len(s) : t[k] = s[k]
      BY <2>3, <3>2, AppendProperties
    <3> QED
      BY <1>1, <3>1, <3>2, <3>3, Zenon
  <2>5. /\ Len(result'[c]) = p /\ result'[c] \in Seq({<<>>} \cup (Map \X Map))
        /\ \A k \in 1 .. lagStart : result'[c][k] = result[c][k]
    <3>1. PICK s, t, R : s = result[c] /\ t = result'[c] /\ R = {<<>>} \cup (Map \X Map)
      OBVIOUS
    <3>2. t = Append(s, <<>>) /\ Len(s) = lagStart /\ s \in Seq(R) /\ <<>> \in R
      BY <2>1, <2>2, <2>3, <3>1, Zenon
    <3>3. t \in Seq(R) /\ Len(t) = Len(s) + 1 /\ \A k \in 1 .. Len(s) : t[k] = s[k]
      BY <3>2, AppendProperties
    <3> QED
      BY <1>1, <3>1, <3>2, <3>3, Zenon
  <2>. QED  BY <2>4, <2>5
<1>10. \A c \in Chans : Gone(c)' = Gone(c)
  BY <1>1, <1>5, <1>9 DEF Gone
<1>11. TypeOK'
  BY <1>1, <1>5, <1>6, <1>7, <1>9 DEF IInv, TypeOK
<1>12. Shape'
  <2>1. Total' = Total
    BY <1>1 DEF Total, N
  <2>2. lagStart' = p /\ p <= Total /\ pc' = "spawn" /\ Len(lagCt') = p + 1
    BY <1>1, <1>5, <1>6
  <2>3. Len(leadCt') = (IF p < Total THEN p + 1 ELSE p)
    BY <1>7
  <2>4. \A c \in Chans : Len(state'[c]) = p /\ Len(result'[c]) = p
    BY <1>9
  <2>. QED  BY <2>1, <2>2, <2>3, <2>4 DEF Shape
<1>13. SequentialMaps'
  <2>1. Slice' = Slice /\ \A k : Word(k)' = Word(k)
    BY <1>1 DEF Slice, Word, N
  <2>2. lagCt'[p + 1] = AdjCount(lagCt'[p], Word(p - 1), Word(p - 1 + Lag))
    <3>1. p - 1 = lagStart /\ p - 1 + Lag = leadStart
      BY <1>1
    <3>2. lagCt'[p] = lagCt[p]
      BY <1>1, <1>6
    <3>. QED  BY <1>6, <3>1, <3>2 DEF lag
  <2>3. p < Total => leadCt'[p + 1] = AdjCount(leadCt'[p], Word(p - 1 + Lag), Word(p - 1 + Lag + Lead))
    <3>1. p - 1 + Lag = leadStart /\ p - 1 + Lag + Lead = leadEnd
      BY <1>1
    <3>2. leadCt'[p] = leadCt[p]
      <4>1. p \in 1 .. p
        BY <1>1
      <4>. QED  BY <1>7, <4>1
    <3>. QED  BY <1>7, <3>1, <3>2 DEF lead
  <2>4. /\ lagCt'[1] = CountSubwords(Slice, 0, Lag) /\ leadCt'[1] = CountSubwords(Slice, Lag, Lag + Lead)
    <3>1. lagCt'[1] = lagCt[1] /\ leadCt'[1] = leadCt[1]
      <4>1. 1 \in 1 .. p
        BY <1>1
      <4>. QED  BY <1>6, <1>7, <4>1
    <3>2. lagCt[1] = CountSubwords(Slice, 0, Lag) /\ leadCt[1] = CountSubwords(Slice, Lag, Lag + Lead)
      BY DEF IInv, SequentialMaps
    <3>. QED  BY <3>1, <3>2
  <2>5. \A k \in 1 .. p : lagCt'[k + 1] = AdjCount(lagCt'[k], Word(k - 1), Word(k - 1 + Lag))
    <3> TAKE k \in 1 .. p
    <3>1. CASE k = p
      BY <2>2, <3>1
    <3>2. CASE k # p
      <4>1. k \in 1 .. Len(lagCt) - 1 /\ k \in 1 .. p /\ k + 1 \in 1 .. p
        BY <1>1, <1>2, <3>2
      <4>. QED  BY <1>6, <4>1 DEF IInv, SequentialMaps
    <3>. QED  BY <3>1, <3>2
  <2>6. \A k \in 1 .. Len(leadCt') - 1 :
           leadCt'[k + 1] = AdjCount(leadCt'[k], Word(k - 1 + Lag), Word(k - 1 + Lag + Lead))
    <3> TAKE k \in 1 .. Len(leadCt') - 1
    <3>1. CASE k = p
      BY <1>1, <1>7, <2>3, <3>1
    <3>2. CASE k # p
      <4>1. k \in 1 .. Len(leadCt) - 1 /\ k \in 1 .. p /\ k + 1 \in 1 .. p
        <5>1. PICK m, n : m = Len(leadCt') /\ n = Len(leadCt)
          OBVIOUS
        <5>2. m \in {p, p + 1} /\ n = p /\ p \in Nat /\ k \in 1 .. m - 1
          BY <1>1, <1>2, <1>7, <5>1
        <5> QED
          BY <3>2, <5>1, <5>2
      <4>. QED  BY <1>7, <4>1 DEF IInv, SequentialMaps
    <3>. QED  BY <3>1, <3>2
  <2>7. Len(lagCt') - 1 = p
    BY <1>1, <1>6
  <2>8. \A k \in 1 .. Len(lagCt') - 1 :
           lagCt'[k + 1] = AdjCount(lagCt'[k], Word(k - 1)', Word(k - 1 + Lag)')
    BY <2>1, <2>5, <2>7
  <2>9. \A k \in 1 .. Len(leadCt') - 1 :
           leadCt'[k + 1] = AdjCount(leadCt'[k], Word(k - 1 + Lag)', Word(k - 1 + Lag + Lead)')
    BY <2>1, <2>6
  <2>. QED  BY <2>1, <2>4, <2>8, <2>9 DEF SequentialMaps
<1>14. Results'
  <2>1. \A c \in Chans : \A k \in 1 .. lagStart : Compared(c, k)' = Compared(c, k)
    <3>1. \A k \in 1 .. lagStart : k \in 1 .. p
      BY <1>1
    <3>2. \A k \in 1 .. lagStart : lagCt'[k] = lagCt[k] /\ leadCt'[k] = leadCt[k]
      BY <1>6, <1>7, <3>1
    <3>. QED  BY <3>2 DEF Compared
  <2>2. \A c \in Chans : \A k \in 1 .. p : state'[c][k] # "started" => result'[c][k] = Compared(c, k)'
    <3> TAKE c \in Chans
    <3> TAKE k \in 1 .. p
    <3>1. CASE k = p
      BY <1>9, <3>1
    <3>2. CASE k # p
      <4>1. k \in 1 .. lagStart
        BY <1>1, <3>2
      <4>. QED  BY <1>9, <2>1, <4>1 DEF IInv, Results
    <3>. QED  BY <3>1, <3>2
  <2>3. \A c \in Chans : dist[c] = {<<k, result'[c][k]>> : k \in Gone(c)}
    BY <1>9 DEF IInv, Results, Gone
  <2>. QED  BY <1>5, <1>10, <2>2, <2>3 DEF Results
<1>15. Rounds'
  BY <1>5, <1>10 DEF IInv, Rounds
<1>16. Counts'
  <2>1. Recounts(words, lag, p, p + Lag)
    <3>1. Recounts(words, lagCt[p], lagStart, lagStart + Lag)
      BY <1>1, <1>2 DEF IInv, Counts
    <3>2. lag = AdjCount(lagCt[p], words[lagStart + 1], words[lagStart + Lag + 1])
      BY <1>1, <1>3 DEF lag
    <3>3. Recounts(words, lag, lagStart + 1, lagStart + Lag + 1)
      BY <1>1, <1>2, <3>1, <3>2, RecountsSlide
    <3>. QED  BY <1>1, <3>3
  <2>2. p < Total => Recounts(words, lead, p + Lag, p + Lag + Lead)
    <3> SUFFICES ASSUME p < Total PROVE Recounts(words, lead, p + Lag, p + Lag + Lead)
      OBVIOUS
    <3>1. Recounts(words, leadCt[p], lagStart + Lag, lagStart + Lag + Lead)
      BY <1>1, <1>2 DEF IInv, Counts
    <3>2. lead = AdjCount(leadCt[p], words[lagStart + Lag + 1], words[lagStart + Lag + Lead + 1])
      <4>1. /\ leadStart \in 0 .. N - 1 /\ leadEnd \in 0 .. N - 1
            /\ leadStart + 1 = lagStart + Lag + 1 /\ leadEnd + 1 = lagStart + Lag + Lead + 1
        BY <1>1
      <4>. QED  BY <1>3, <4>1 DEF lead
    <3>3. Recounts(words, lead, lagStart + Lag + 1, lagStart + Lag + Lead + 1)
      BY <1>1, <1>2, <3>1, <3>2, RecountsSlide
    <3>. QED  BY <1>1, <3>3
  <2>3. \A k \in 1 .. Len(lagCt') : Recounts(words, lagCt'[k], k - 1, k - 1 + Lag)
    <3> TAKE k \in 1 .. Len(lagCt')
    <3>1. CASE k = p + 1
      BY <1>1, <1>6, <2>1, <3>1
    <3>2. CASE k # p + 1
      <4>1. k \in 1 .. p /\ k \in 1 .. Len(lagCt)
        BY <1>1, <1>2, <1>6, <3>2
      <4>. QED  BY <1>6, <4>1 DEF IInv, Counts
    <3>. QED  BY <3>1, <3>2
  <2>4. \A k \in 1 .. Len(leadCt') : Recounts(words, leadCt'[k], k - 1 + Lag, k - 1 + Lag + Lead)
    <3> TAKE k \in 1 .. Len(leadCt')
    <3>1. CASE k = p + 1
      BY <1>1, <1>7, <2>2, <3>1
    <3>2. CASE k # p + 1
      <4>1. k \in 1 .. p /\ k \in 1 .. Len(leadCt)
        BY <1>1, <1>2, <1>7, <3>2
      <4>. QED  BY <1>7, <4>1 DEF IInv, Counts
    <3>. QED  BY <3>1, <3>2
  <2>. QED  BY <1>1, <2>3, <2>4 DEF Counts
<1>. QED  BY <1>11, <1>12, <1>13, <1>14, <1>15, <1>16 DEF IInv

(* The loop ends behind the last window. *)
LEMMA SpawnEndsInv == IInv /\ SpawnEnds => IInv'
<1> SUFFICES ASSUME IInv, SpawnEnds PROVE IInv'
  OBVIOUS
<1>1. UNCHANGED <<words, lagStart, lagCt, leadCt, state, result, got, left, dist>> /\ pc = "spawn" /\ pc' = "collect"
  BY DEF SpawnEnds
<1>2. lagStart = Total /\ lagStart > 0
  BY TotalType, WindowConstants DEF IInv, SpawnEnds, Shape, Total, leadEnd, N, WindowConstants
<1>3. TypeOK'
  BY <1>1 DEF IInv, TypeOK
<1>4. Shape'
  BY <1>1, <1>2 DEF IInv, Shape, Total, N
<1>5. SequentialMaps'
  BY <1>1 DEF IInv, SequentialMaps, Slice, Word, N
<1>6. \A c \in Chans : Gone(c)' = Gone(c)
  BY <1>1 DEF Gone
<1>7. Results'
  BY <1>1, <1>6 DEF IInv, Results, Compared
<1>8. Rounds'
  BY <1>1, <1>2, <1>6 DEF IInv, Rounds
<1>9. Counts'
  BY <1>1 DEF IInv, Counts
<1>. QED  BY <1>3, <1>4, <1>5, <1>7, <1>8, <1>9 DEF IInv

----------------------------------------------------------------------------
(* The goroutines, and the second loop. *)

(* A goroutine computes from the maps of its own position. *)
LEMMA ComputeInv == ASSUME IInv, NEW c \in Chans, NEW k \in DOMAIN state[c], Compute(c, k) PROVE IInv'
<1>1. /\ UNCHANGED <<words, pc, lagStart, lagCt, leadCt, got, left, dist>> /\ state[c][k] = "started"
      /\ state' = [state EXCEPT ![c][k] = "sending"] /\ result' = [result EXCEPT ![c][k] = Compared(c, k)]
  BY DEF Compute
<1>2. \A d \in Chans : /\ state[d] \in Seq({"started", "sending", "gone"}) /\ Len(state[d]) = lagStart
                       /\ result[d] \in Seq({<<>>} \cup (Map \X Map)) /\ Len(result[d]) = lagStart
  BY DEF IInv, TypeOK, Shape
<1>3. k \in 1 .. lagStart /\ lagStart \in Nat
  BY <1>2 DEF IInv, TypeOK
<1>4. Compared(c, k) \in Map \X Map
  <2>1. leadCt[k] \in Map /\ lagCt[k] \in Map
    BY <1>3 DEF IInv, TypeOK, Shape
  <2>2. c # LagLead => Fixed[c] \in Map
    BY WindowConstants DEF WindowConstants, Map
  <2>. QED  BY <2>1, <2>2 DEF Compared
<1>5. /\ state'[c] = [state[c] EXCEPT ![k] = "sending"] /\ result'[c] = [result[c] EXCEPT ![k] = Compared(c, k)]
      /\ \A d \in Chans \ {c} : state'[d] = state[d] /\ result'[d] = result[d]
      /\ state' \in [Chans -> Seq({"started", "sending", "gone"})]
      /\ result' \in [Chans -> Seq({<<>>} \cup (Map \X Map))]
      /\ Len(state'[c]) = lagStart /\ Len(result'[c]) = lagStart
  <2>1. state \in [Chans -> Seq({"started", "sending", "gone"})] /\ result \in [Chans -> Seq({<<>>} \cup (Map \X Map))]
    BY DEF IInv, TypeOK
  <2>2. /\ [state[c] EXCEPT ![k] = "sending"] \in Seq({"started", "sending", "gone"})
        /\ Len([state[c] EXCEPT ![k] = "sending"]) = lagStart
    BY <1>2, <1>3, ExceptSeq
  <2>3. /\ [result[c] EXCEPT ![k] = Compared(c, k)] \in Seq({<<>>} \cup (Map \X Map))
        /\ Len([result[c] EXCEPT ![k] = Compared(c, k)]) = lagStart
    BY <1>2, <1>3, <1>4, ExceptSeq
  <2>. QED  BY <1>1, <2>1, <2>2, <2>3
<1>6. \A d \in Chans : \A j \in 1 .. lagStart :
         /\ <<d, j>> # <<c, k>> => state'[d][j] = state[d][j] /\ result'[d][j] = result[d][j]
         /\ state'[c][k] = "sending" /\ result'[c][k] = Compared(c, k)
  <2>1. state'[c][k] = "sending" /\ result'[c][k] = Compared(c, k)
    BY <1>2, <1>3, <1>5
  <2>2. ASSUME NEW d \in Chans, NEW j \in 1 .. lagStart, <<d, j>> # <<c, k>>
        PROVE  state'[d][j] = state[d][j] /\ result'[d][j] = result[d][j]
    <3>1. CASE d = c
      BY <1>2, <1>5, <2>2, <3>1
    <3>2. CASE d # c
      BY <1>5, <3>2
    <3>. QED  BY <3>1, <3>2
  <2>. QED  BY <2>1, <2>2
<1>7. \A d \in Chans : Gone(d)' = Gone(d)
  BY <1>1, <1>6 DEF Gone
<1>8. TypeOK'
  BY <1>1, <1>5 DEF IInv, TypeOK
<1>9. Shape'
  BY <1>1, <1>2, <1>5 DEF IInv, Shape, Total, N
<1>10. SequentialMaps'
  BY <1>1 DEF IInv, SequentialMaps, Slice, Word, N
<1>11. Results'
  <2>1. \A d, j : Compared(d, j)' = Compared(d, j)
    BY <1>1 DEF Compared
  <2>2. \A d \in Chans : \A j \in 1 .. lagStart : state'[d][j] # "started" => result'[d][j] = Compared(d, j)
    BY <1>6 DEF IInv, Results
  <2>3. \A d \in Chans : \A j \in Gone(d) : result'[d][j] = result[d][j]
    BY <1>1, <1>6 DEF Gone
  <2>4. \A d \in Chans : dist[d] = {<<j, result'[d][j]>> : j \in Gone(d)}
    BY <2>3 DEF IInv, Results
  <2>. QED  BY <1>1, <1>7, <2>1, <2>2, <2>4 DEF Results
<1>12. Rounds'
  BY <1>1, <1>7 DEF IInv, Rounds
<1>13. Counts'
  BY <1>1 DEF IInv, Counts
<1>. QED  BY <1>8, <1>9, <1>10, <1>11, <1>12, <1>13 DEF IInv

(* A receive stores the result of one goroutine, which is then gone; the   *)
(* last one of a round begins the next round or ends the scan.             *)
LEMMA ReceiveInv == ASSUME IInv, NEW c \in Chans, NEW k \in DOMAIN state[c], Receive(c, k) PROVE IInv'
<1>1. /\ UNCHANGED <<words, lagStart, lagCt, leadCt, result>> /\ state[c][k] = "sending"
      /\ pc = "collect" /\ c \in left
      /\ state' = [state EXCEPT ![c][k] = "gone"] /\ dist' = [dist EXCEPT ![c] = @ \cup {<<k, result[c][k]>>}]
      /\ left = {c} => left' = Chans /\ got' = got + 1 /\ pc' = (IF got + 1 = lagStart THEN "done" ELSE "collect")
      /\ left # {c} => left' = left \ {c} /\ got' = got /\ pc' = pc
  BY DEF Receive, MayReceive, AllCollected
<1>2. \A d \in Chans : state[d] \in Seq({"started", "sending", "gone"}) /\ Len(state[d]) = lagStart
  BY DEF IInv, TypeOK, Shape
<1>3. k \in 1 .. lagStart /\ lagStart \in Nat /\ got \in Nat /\ got < lagStart
  BY <1>1, <1>2 DEF IInv, TypeOK, Rounds
<1>4. /\ state'[c] = [state[c] EXCEPT ![k] = "gone"]
      /\ \A d \in Chans \ {c} : state'[d] = state[d]
      /\ state' \in [Chans -> Seq({"started", "sending", "gone"})]
      /\ Len(state'[c]) = lagStart
  <2>1. state \in [Chans -> Seq({"started", "sending", "gone"})]
    BY DEF IInv, TypeOK
  <2>2. /\ [state[c] EXCEPT ![k] = "gone"] \in Seq({"started", "sending", "gone"})
        /\ Len([state[c] EXCEPT ![k] = "gone"]) = lagStart
    BY <1>2, <1>3, ExceptSeq
  <2>. QED  BY <1>1, <2>1, <2>2
<1>5. /\ \A d \in Chans : \A j \in 1 .. lagStart : <<d, j>> # <<c, k>> => state'[d][j] = state[d][j]
      /\ state'[c][k] = "gone"
  BY <1>2, <1>3, <1>4
<1>6. /\ Gone(c)' = Gone(c) \cup {k} /\ k \notin Gone(c)
      /\ \A d \in Chans \ {c} : Gone(d)' = Gone(d)
  BY <1>1, <1>3, <1>5 DEF Gone
<1>7. \A d \in Chans : IsFiniteSet(Gone(d)) /\ Cardinality(Gone(d)) \in Nat
  <2> TAKE d \in Chans
  <2>1. IsFiniteSet(1 .. lagStart)
    BY <1>3, FS_Interval
  <2>2. Gone(d) \in SUBSET (1 .. lagStart)
    BY DEF Gone
  <2>. QED  BY <2>1, <2>2, FS_Subset, FS_CardinalityType
<1>8. Cardinality(Gone(c)') = Cardinality(Gone(c)) + 1
  BY <1>6, <1>7, FS_AddElement
<1>9. result[c][k] = Compared(c, k) /\ Compared(c, k) \in Map \X Map
  <2>1. leadCt[k] \in Map /\ lagCt[k] \in Map
    BY <1>3 DEF IInv, TypeOK, Shape
  <2>2. c # LagLead => Fixed[c] \in Map
    BY WindowConstants DEF WindowConstants, Map
  <2>. QED  BY <1>1, <1>3, <2>1, <2>2 DEF Compared, IInv, Results
<1>10. TypeOK'
  <2>1. dist' \in [Chans -> SUBSET (Nat \X (Map \X Map))]
    BY <1>1, <1>3, <1>9 DEF IInv, TypeOK
  <2>2. got' \in Nat /\ left' \subseteq Chans /\ pc' \in {"spawn", "collect", "done"}
    BY <1>1, <1>3 DEF IInv, TypeOK
  <2>. QED  BY <1>1, <1>4, <2>1, <2>2 DEF IInv, TypeOK
<1>11. Shape'
  BY <1>1, <1>2, <1>4 DEF IInv, Shape, Total, N
<1>12. SequentialMaps'
  BY <1>1 DEF IInv, SequentialMaps, Slice, Word, N
<1>13. Results'
  <2>1. \A d, j : Compared(d, j)' = Compared(d, j)
    BY <1>1 DEF Compared
  <2>2. \A d \in Chans : \A j \in 1 .. lagStart : state'[d][j] # "started" => result[d][j] = Compared(d, j)
    BY <1>5, <1>9 DEF IInv, Results
  <2>3. \A d \in Chans : dist'[d] = {<<j, result[d][j]>> : j \in Gone(d)'}
    <3> TAKE d \in Chans
    <3>1. dist[d] = {<<j, result[d][j]>> : j \in Gone(d)}
      BY DEF IInv, Results
    <3>2. CASE d = c
      <4>1. dist'[d] = dist[d] \cup {<<k, result[c][k]>>}
        BY <1>1, <3>2 DEF IInv, TypeOK
      <4>. QED  BY <1>6, <3>1, <3>2, <4>1
    <3>3. CASE d # c
      <4>1. dist'[d] = dist[d]
        BY <1>1, <3>3 DEF IInv, TypeOK
      <4>. QED  BY <1>6, <3>1, <3>3, <4>1
    <3>. QED  BY <3>2, <3>3
  <2>. QED  BY <1>1, <2>1, <2>2, <2>3 DEF Results
<1>14. Rounds'
  <2>1. \A d \in Chans : Cardinality(Gone(d)) = IF d \in left THEN got ELSE got + 1
    BY DEF IInv, Rounds
  <2>2. CASE left = {c}
    <3>1. \A d \in Chans : Cardinality(Gone(d)') = got + 1
      BY <1>1, <1>3, <1>6, <1>8, <2>1, <2>2
    <3>2. Chans # {}
      BY DEF Chans
    <3>. QED  BY <1>1, <1>3, <2>2, <3>1, <3>2 DEF Rounds
  <2>3. CASE left # {c}
    <3>1. \A d \in Chans : Cardinality(Gone(d)') = IF d \in left \ {c} THEN got ELSE got + 1
      BY <1>1, <1>3, <1>6, <1>8, <2>1
    <3>2. left \ {c} # {}
      BY <1>1, <2>3
    <3>. QED  BY <1>1, <1>3, <2>3, <3>1, <3>2 DEF Rounds
  <2>. QED  BY <2>2, <2>3
<1>15. Counts'
  BY <1>1 DEF IInv, Counts
<1>. QED  BY <1>10, <1>11, <1>12, <1>13, <1>14, <1>15 DEF IInv

(* The invariant is inductive. *)
THEOREM ScanInv == Spec => []IInv
<1>1. IInv /\ [Next]_vars => IInv'
  <2> SUFFICES ASSUME IInv, [Next]_vars PROVE IInv'
    OBVIOUS
  <2>1. CASE UNCHANGED vars
    <3>1. UNCHANGED <<words, pc, lagStart, lagCt, leadCt, state, result, got, left, dist>>
      BY <2>1 DEF vars
    <3>2. TypeOK' /\ Counts'
      BY <3>1 DEF IInv, TypeOK, Counts
    <3>3. Shape'
      BY <3>1 DEF IInv, Shape, Total, N
    <3>4. SequentialMaps'
      BY <3>1 DEF IInv, SequentialMaps, Slice, Word, N
    <3>5. Results' /\ Rounds'
      BY <3>1 DEF IInv, Results, Rounds, Gone, Compared
    <3>. QED  BY <3>2, <3>3, <3>4, <3>5 DEF IInv
  <2>2. CASE Spawn
    BY <2>2, SpawnInv
  <2>3. CASE SpawnEnds
    BY <2>3, SpawnEndsInv
  <2>4. CASE Goroutine
    BY <2>4, ComputeInv DEF Goroutine
  <2>5. CASE Collect
    BY <2>5, ReceiveInv DEF Collect
  <2>. QED  BY <2>1, <2>2, <2>3, <2>4, <2>5 DEF Next
<1>. QED  BY <1>1, InitInv, PTL DEF Spec

----------------------------------------------------------------------------
(* What follows from it. *)

(* A channel that every round received from has no goroutine left. *)
LEMMA AllGone == ASSUME IInv, pc = "done", NEW c \in Chans
                 PROVE  Gone(c) = 1 .. lagStart /\ lagStart = Total
<1>1. lagStart \in Nat /\ lagStart = Total
  BY DEF IInv, TypeOK, Shape
<1>2. Cardinality(Gone(c)) = lagStart
  BY DEF IInv, Rounds
<1>3. IsFiniteSet(1 .. lagStart) /\ Cardinality(1 .. lagStart) = lagStart
  BY <1>1, FS_Interval
<1>4. Gone(c) \in SUBSET (1 .. lagStart)
  BY DEF Gone
<1>. QED  BY <1>1, <1>2, <1>3, <1>4, FS_Subset

(* The distances that are stored in the end. *)
LEMMA Stored == ASSUME IInv, pc = "done", NEW c \in Chans
                PROVE  dist[c] = {<<k, Compared(c, k)>> : k \in Windows}
<1>1. Gone(c) = Windows /\ Gone(c) = 1 .. lagStart
  BY AllGone DEF Windows, Total
<1>2. \A k \in Gone(c) : result[c][k] = Compared(c, k)
  BY <1>1 DEF IInv, Results, Gone
<1>3. dist[c] = {<<k, result[c][k]>> : k \in Gone(c)}
  BY DEF IInv, Results
<1>. QED  BY <1>1, <1>2, <1>3

(* The types are invariant. *)
THEOREM ScanTypes == Spec => []TypeOK
<1>1. IInv => TypeOK
  BY DEF IInv
<1>. QED  BY <1>1, ScanInv, PTL

(* multi_search.go:170-243: whatever the scheduler does, the distances of  *)
(* the parallel scan are those of the sequential one.                      *)
THEOREM SameAsSequentialEver == Spec => []SameAsSequential
<1>1. IInv => SameAsSequential
  BY Stored DEF IInv, SameAsSequential
<1>. QED  BY <1>1, ScanInv, PTL

(* multi_search.go:219: as long as it receives there is a sender, so the   *)
(* main goroutine is never blocked for good.                               *)
THEOREM SendersRemainEver == Spec => []SendersRemain
<1>1. IInv => SendersRemain
  <2> SUFFICES ASSUME IInv, pc = "collect"
               PROVE  \E c \in Chans : MayReceive(c) /\ \E k \in DOMAIN state[c] : state[c][k] # "gone"
    BY DEF SendersRemain
  <2>1. lagStart \in Nat /\ got \in Nat /\ got < lagStart /\ left \subseteq Chans /\ left # {}
    BY DEF IInv, TypeOK, Rounds
  <2>2. PICK c \in left : MayReceive(c)
    <3>1. {"base", LagLead} \cap Profiles = {} /\ LagLead # "base" /\ Chans = Profiles \cup {"base", LagLead}
      BY WindowConstants DEF WindowConstants, LagLead, Chans
    <3>. QED  BY <2>1, <3>1 DEF MayReceive
  <2>3. c \in Chans /\ Cardinality(Gone(c)) = got
    BY <2>1, <2>2 DEF IInv, Rounds
  <2>4. \E k \in 1 .. lagStart : state[c][k] # "gone"
    <3> SUFFICES ASSUME \A k \in 1 .. lagStart : state[c][k] = "gone" PROVE FALSE
      OBVIOUS
    <3>1. Gone(c) = 1 .. lagStart
      BY DEF Gone
    <3>2. Cardinality(1 .. lagStart) = lagStart
      BY <2>1, FS_Interval
    <3>. QED  BY <2>1, <2>3, <3>1, <3>2
  <2>5. DOMAIN state[c] = 1 .. lagStart
    BY <2>3 DEF IInv, TypeOK, Shape
  <2>. QED  BY <2>2, <2>3, <2>4, <2>5
<1>. QED  BY <1>1, ScanInv, PTL

(* saxutil.go:275: no subword is counted less often than it occurs, and    *)
(* none more often before a shorter word enters.                           *)
THEOREM DistancesMatchRecountEver == Spec => []DistancesMatchRecount
<1>1. IInv => DistancesMatchRecount
  <2> SUFFICES ASSUME IInv, pc = "done", NEW c \in Chans, NEW d \in dist[c]
               PROVE  LET k    == d[1] - 1
                          lag  == CountSubwords(Slice, k, k + Lag)
                          lead == CountSubwords(Slice, k + Lag, k + Lag + Lead)
                      IN  /\ \A s \in Subs : d[2][2][s] >= lead[s] /\ (c = LagLead => d[2][1][s] >= lag[s])
                          /\ Len(Word(k + Lag + Lead - 1)) = Len(Word(0)) =>
                                d[2][2] = lead /\ (c = LagLead => d[2][1] = lag)
    BY DEF DistancesMatchRecount
  <2>1. PICK k \in Windows : d = <<k, Compared(c, k)>>
    BY Stored
  <2>2. /\ lagStart = Total /\ Total \in Nat \ {0} /\ N \in Nat /\ N = Len(words) /\ words \in Inputs
        /\ Lag \in Nat /\ Lead \in Nat \ {0} /\ Total = N - Lag - Lead + 1
    BY AllGone, TotalType, WindowConstants DEF IInv, TypeOK, WindowConstants, Total, N
  <2>3. /\ k \in Nat /\ k >= 1 /\ k - 1 + Lag + Lead <= N
        /\ k \in 1 .. Len(lagCt) /\ k \in 1 .. Len(leadCt)
    BY <2>2 DEF IInv, Shape, Windows
  <2>4. /\ Recounts(words, lagCt[k], k - 1, k - 1 + Lag)
        /\ Recounts(words, leadCt[k], k - 1 + Lag, k - 1 + Lag + Lead)
    BY <2>3 DEF IInv, Counts
  <2>5. Slice = SliceOf(words)
    BY DEF Slice, SliceOf, Word, N
  <2>6. d[1] = k /\ d[2][2] = leadCt[k] /\ (c = LagLead => d[2][1] = lagCt[k])
    BY <2>1 DEF Compared
  <2>7. ASSUME Len(Word(k - 1 + Lag + Lead - 1)) = Len(Word(0))
        PROVE  Even(words, k - 1 + Lag + Lead) /\ Even(words, k - 1 + Lag)
    <3>1. Len(words[k - 1 + Lag + Lead]) = Len(words[1])
      <4>1. k - 1 + Lag + Lead - 1 + 1 = k - 1 + Lag + Lead /\ 0 + 1 = 1
        BY <2>2, <2>3
      <4>. QED  BY <2>7, <4>1 DEF Word
    <3>2. ASSUME NEW m \in 1 .. k - 1 + Lag + Lead PROVE Len(words[m]) = Len(words[1])
      <4>1. /\ m \in 1 .. Len(words) /\ 1 \in 1 .. Len(words) /\ k - 1 + Lag + Lead \in 1 .. Len(words)
            /\ 1 <= m /\ m <= k - 1 + Lag + Lead
        BY <2>2, <2>3
      <4>2. Len(words[m]) <= Len(words[1]) /\ Len(words[k - 1 + Lag + Lead]) <= Len(words[m])
        BY <2>2, <4>1, InputType
      <4>3. words[m] \in Seq(Alphabet) /\ words[1] \in Seq(Alphabet)
        <5>1. words \in Seq(Seq(Alphabet))
          BY <2>2, InputType
        <5>. QED  BY <4>1, <5>1
      <4>. QED  BY <3>1, <4>2, <4>3
    <3>. QED  BY <2>2, <2>3, <3>2 DEF Even
  <2>8. /\ \A s \in Subs : /\ leadCt[k][s] >= CountSubwords(Slice, k - 1 + Lag, k - 1 + Lag + Lead)[s]
                           /\ lagCt[k][s] >= CountSubwords(Slice, k - 1, k - 1 + Lag)[s]
        /\ Len(Word(k - 1 + Lag + Lead - 1)) = Len(Word(0)) =>
              /\ leadCt[k] = CountSubwords(Slice, k - 1 + Lag, k - 1 + Lag + Lead)
              /\ lagCt[k] = CountSubwords(Slice, k - 1, k - 1 + Lag)
    BY <2>4, <2>5, <2>7 DEF Recounts
  <2>. QED  BY <2>6, <2>8
<1>. QED  BY <1>1, ScanInv, PTL

----------------------------------------------------------------------------

(* Induction over the natural numbers, for a set of them. *)
LEMMA NaturalsFrom ==
    ASSUME NEW A, 0 \in A, \A n \in Nat : n \in A => n + 1 \in A PROVE \A n \in Nat : n \in A
<1> DEFINE Below == {p \in Nat \X Nat : p[1] < p[2]}
           T == {n \in Nat : n \notin A}
<1>1. IsWellFoundedOn(Below, Nat)
  BY NatLessThanWellFounded, Zenon DEF OpToRel
<1>2. SUFFICES ASSUME T # {} PROVE FALSE
  OBVIOUS
<1>3. T \subseteq Nat
  OBVIOUS
<1>4. PICK x \in T : \A y \in T : ~ (<<y, x>> \in Below)
  <2> HIDE DEF T, Below
  <2> QED
    BY <1>1, <1>2, <1>3, WFMin, Zenon
<1>5. x \in Nat /\ x # 0
  OBVIOUS
<1>6. x - 1 \in Nat /\ x - 1 < x
  BY <1>5
<1>7. <<x - 1, x>> \in Below
  BY <1>5, <1>6
<1>8. x - 1 \in A
  BY <1>4, <1>6, <1>7
<1>9. (x - 1) + 1 = x
  BY <1>5
<1> QED
  BY <1>5, <1>6, <1>8, <1>9

(* Induction over the subsets of a finite set, for a set of them. *)
LEMMA SubsetsFrom ==
    ASSUME NEW S, IsFiniteSet(S), NEW A, \A s \in SUBSET S : (\A y \in s : s \ {y} \in A) => s \in A
    PROVE  \A s \in SUBSET S : s \in A
<1> DEFINE B == {n \in Nat : \A s \in SUBSET S : Cardinality(s) = n => s \in A}
<1>1. \A s \in SUBSET S : IsFiniteSet(s) /\ Cardinality(s) \in Nat /\ (Cardinality(s) = 0 <=> s = {})
  BY FS_Subset, FS_CardinalityType, FS_EmptySet
<1>2. 0 \in B
  BY <1>1
<1>3. ASSUME NEW n \in Nat, n \in B PROVE n + 1 \in B
  <2> SUFFICES ASSUME NEW s \in SUBSET S, Cardinality(s) = n + 1, NEW y \in s PROVE s \ {y} \in A
    OBVIOUS
  <2>1. s \ {y} \in SUBSET S /\ Cardinality(s \ {y}) = Cardinality(s) - 1
    BY <1>1, FS_RemoveElement
  <2> QED
    BY <1>3, <2>1
<1>4. \A n \in Nat : n \in B
  <2> HIDE DEF B
  <2> QED
    BY <1>2, <1>3, NaturalsFrom
<1> QED
  BY <1>1, <1>4

(* A sum or a product over a finite set, one element after the other, in the order that *)
(* the folds take them.                                                    *)
Picked(s) == CHOOSE x \in s : TRUE
Base(op)       == IF op = "sum" THEN 0 ELSE 1
Join(op, a, b) == IF op = "sum" THEN a + b ELSE a * b
Folds(op, g, S, f) ==
    [s \in SUBSET S |-> IF s = {} THEN Base(op) ELSE Join(op, f[Picked(s)], g[s \ {Picked(s)}])]
Steps(g, S, f) == Folds("sum", g, S, f)

(* The sums of all subsets. *)
Sums(g, S, f) == /\ g \in [SUBSET S -> Int] /\ g[{}] = 0
                 /\ \A s \in SUBSET S : \A x \in s : g[s] = f[x] + g[s \ {x}]

(* What is picked of a set is in it. *)
LEMMA PickedIsIn == \A s : s # {} => Picked(s) \in s
  BY Zenon DEF Picked

(* It does not matter in which order. *)
LEMMA StepsAreSums ==
    ASSUME NEW S, IsFiniteSet(S), NEW f \in [S -> Int], NEW g, g = Steps(g, S, f)
    PROVE  Sums(g, S, f)
<1>1. g = [s \in SUBSET S |-> g[s]] /\ g[{}] = 0
      /\ \A s \in SUBSET S : s # {} => g[s] = f[Picked(s)] + g[s \ {Picked(s)}]
  <2>1. g = [s \in SUBSET S |-> IF s = {} THEN 0 ELSE f[Picked(s)] + g[s \ {Picked(s)}]]
    BY DEF Steps, Folds, Base, Join
  <2>2. {} \in SUBSET S
    OBVIOUS
  <2> QED
    BY <2>1, <2>2
<1> DEFINE A == {s \in SUBSET S : g[s] \in Int /\ \A x \in s : g[s \ {x}] \in Int /\ g[s] = f[x] + g[s \ {x}]}
<1>2. ASSUME NEW s \in SUBSET S, \A y \in s : s \ {y} \in A PROVE s \in A
  <2>1. CASE s = {}
    BY <1>1, <2>1
  <2>2. CASE s # {}
    <3> DEFINE p == Picked(s)
    <3>1. p \in s /\ s \ {p} \in A
      BY <1>2, <2>2, PickedIsIn
    <3>2. g[s] = f[p] + g[s \ {p}] /\ g[s \ {p}] \in Int /\ f[p] \in Int
      BY <1>1, <2>2, <3>1
    <3> HIDE DEF p
    <3>3. ASSUME NEW x \in s PROVE g[s \ {x}] \in Int /\ g[s] = f[x] + g[s \ {x}]
      <4>1. s \ {x} \in A
        BY <1>2
      <4>2. CASE x = p
        BY <3>2, <4>2
      <4>3. CASE x # p
        <5>1. x \in s \ {p} /\ p \in s \ {x} /\ (s \ {p}) \ {x} = (s \ {x}) \ {p}
          BY <3>1, <4>3
        <5>2. g[s \ {p}] = f[x] + g[(s \ {p}) \ {x}]
          BY <3>1, <5>1
        <5>3. g[s \ {x}] = f[p] + g[(s \ {x}) \ {p}] /\ g[(s \ {x}) \ {p}] \in Int /\ g[s \ {x}] \in Int
          BY <4>1, <5>1
        <5>4. f[x] \in Int
          OBVIOUS
        <5>5. g[s \ {p}] = f[x] + g[(s \ {x}) \ {p}]
          BY <5>1, <5>2, Zenon
        <5> QED
          BY <3>2, <5>3, <5>4, <5>5
      <4> QED
        BY <4>2, <4>3
    <3>4. g[s] \in Int
      BY <3>2
    <3> QED
      BY <3>3, <3>4
  <2> QED
    BY <2>1, <2>2
<1>4. \A s \in SUBSET S : s \in A
  <2> HIDE DEF A
  <2> QED
    BY <1>2, SubsetsFrom
<1> QED
  BY <1>1, <1>4 DEF Sums

(* The folds have results. *)
LEMMA FoldsExist ==
    ASSUME NEW S, IsFiniteSet(S), NEW f, NEW op
    PROVE  \E g : g = Folds(op, g, S, f)
<1> DEFINE Sum(g, s) == IF s = {} THEN Base(op) ELSE Join(op, f[Picked(s)], g[s \ {Picked(s)}])
           A == {n \in Nat : \E g : \A s \in SUBSET S : Cardinality(s) <= n => g[s] = Sum(g, s)}
<1>1. \A s \in SUBSET S : IsFiniteSet(s) /\ Cardinality(s) \in Nat /\ (Cardinality(s) = 0 <=> s = {})
                          /\ Cardinality(s) <= Cardinality(S)
  BY FS_Subset, FS_CardinalityType, FS_EmptySet
<1>2. 0 \in A
  <2> DEFINE g == [s \in SUBSET S |-> Base(op)]
  <2>1. \A s \in SUBSET S : Cardinality(s) <= 0 => g[s] = Sum(g, s)
    BY <1>1
  <2> HIDE DEF g
  <2> QED
    BY <2>1
<1>3. ASSUME NEW n \in Nat, n \in A PROVE n + 1 \in A
  <2>1. PICK g : \A s \in SUBSET S : Cardinality(s) <= n => g[s] = Sum(g, s)
    BY <1>3
  <2> DEFINE h == [s \in SUBSET S |-> Sum(g, s)]
  <2>2. ASSUME NEW s \in SUBSET S, Cardinality(s) <= n + 1 PROVE h[s] = Sum(h, s)
    <3>1. CASE s = {}
      BY <3>1
    <3>2. CASE s # {}
      <4> DEFINE r == s \ {Picked(s)}
      <4>1. r \in SUBSET S /\ Cardinality(r) = Cardinality(s) - 1
        BY <1>1, <3>2, PickedIsIn, FS_RemoveElement
      <4>2. Cardinality(r) <= n
        BY <1>1, <2>2, <4>1
      <4>3. h[r] = g[r]
        <5> HIDE DEF r
        <5> QED
          BY <2>1, <4>1, <4>2
      <4>4. h[s] = Sum(g, s)
        OBVIOUS
      <4> HIDE DEF h
      <4> QED
        BY <3>2, <4>3, <4>4
    <3> QED
      BY <3>1, <3>2
  <2> HIDE DEF h, Sum
  <2> QED
    BY <2>2
<1>4. Cardinality(S) \in A
  <2> HIDE DEF A
  <2>1. Cardinality(S) \in Nat
    BY FS_CardinalityType
  <2> QED
    BY <1>2, <1>3, <2>1, NaturalsFrom
<1>5. PICK g : \A s \in SUBSET S : Cardinality(s) <= Cardinality(S) => g[s] = Sum(g, s)
  BY <1>4
<1> DEFINE h == [s \in SUBSET S |-> g[s]]
<1>6. \A s \in SUBSET S : h[s] = Sum(h, s)
  <2> SUFFICES ASSUME NEW s \in SUBSET S PROVE h[s] = Sum(h, s)
    OBVIOUS
  <2>1. g[s] = Sum(g, s)
    BY <1>1, <1>5
  <2>2. s # {} => h[s \ {Picked(s)}] = g[s \ {Picked(s)}]
    BY PickedIsIn
  <2> QED
    BY <2>1, <2>2
<1>7. h = [s \in SUBSET S |-> h[s]]
  OBVIOUS
<1>8. h = Folds(op, h, S, f)
  <2> HIDE DEF h
  <2> QED
    BY <1>6, <1>7 DEF Folds
<1> QED
  BY <1>8

(* A sum of numbers that are not negative is not. *)
LEMMA SumOfNaturals ==
    ASSUME NEW S, IsFiniteSet(S), NEW f \in [S -> Nat], NEW g, Sums(g, S, f)
    PROVE  g[S] \in Nat
<1> DEFINE A == {s \in SUBSET S : g[s] \in Nat}
<1>1. ASSUME NEW s \in SUBSET S, \A y \in s : s \ {y} \in A PROVE s \in A
  <2>1. CASE s = {}
    BY <2>1 DEF Sums
  <2>2. CASE s # {}
    <3>1. PICK x \in s : TRUE
      BY <2>2
    <3>2. g[s] = f[x] + g[s \ {x}] /\ f[x] \in Nat /\ g[s \ {x}] \in Nat
      BY <1>1 DEF Sums
    <3> QED
      BY <3>2
  <2> QED
    BY <2>1, <2>2
<1>2. S \in SUBSET S
  OBVIOUS
<1>3. S \in A
  <2> HIDE DEF A
  <2> QED
    BY <1>1, <1>2, SubsetsFrom
<1> QED
  BY <1>3

----------------------------------------------------------------------------
(* Bitmaps and their distances. *)

Subwords(n) == [1 .. n -> Alphabet]

SquaresOfDifferences(map1, map2, S) == [s \in S |-> (map1[s] - map2[s]) * (map1[s] - map2[s])]

(* A distance is the sum of the squares. *)
LEMMA DistanceIsSum ==
    ASSUME NEW n, IsFiniteSet(Subwords(n)), NEW map1 \in [Subwords(n) -> Int], NEW map2 \in [Subwords(n) -> Int]
    PROVE  /\ Search!BitmapDistance(map1, map2, n) \in Nat
           /\ Series!BitmapDistance(map1, map2, n) \in Nat
<1> DEFINE S == Subwords(n)
           f == SquaresOfDifferences(map1, map2, S)
           Body(g) == [s \in SUBSET S |->
                          IF s = {} THEN 0
                          ELSE LET x == CHOOSE x \in s : TRUE
                               IN  (map1[x] - map2[x]) * (map1[x] - map2[x]) + g[s \ {x}]]
           iter == CHOOSE g : g = Body(g)
<1>1. Search!BitmapDistance(map1, map2, n) = iter[S] /\ Series!BitmapDistance(map1, map2, n) = iter[S]
  BY DEF Search!BitmapDistance, Search!MapThenSumSet, Search!MapThenFoldSet, Search!GenSubwords,
         Series!BitmapDistance, Series!MapThenSumSet, Series!MapThenFoldSet, Series!GenSubwords, Subwords
<1>2. f \in [S -> Nat] /\ \A x \in S : f[x] = (map1[x] - map2[x]) * (map1[x] - map2[x])
  <2>1. \A a \in Int : a * a \in Nat
    BY SMT
  <2>2. ASSUME NEW x \in S PROVE (map1[x] - map2[x]) * (map1[x] - map2[x]) \in Nat
    <3>1. map1[x] - map2[x] \in Int
      OBVIOUS
    <3> QED
      BY <2>1, <3>1
  <2> QED
    BY <2>2 DEF SquaresOfDifferences
<1> HIDE DEF f, S
<1>3. \A g : Steps(g, S, f) = Body(g)
  <2> SUFFICES ASSUME NEW g PROVE Steps(g, S, f) = Body(g)
    OBVIOUS
  <2>1. \A s \in SUBSET S : s # {} => Picked(s) \in S
    BY PickedIsIn
  <2> QED
    BY <1>2, <2>1 DEF Steps, Folds, Base, Join, Picked
<1>4. \E g : g = Steps(g, S, f)
  <2>1. IsFiniteSet(S) /\ f \in [S -> Int]
    BY <1>2 DEF S
  <2> QED
    BY <2>1, FoldsExist DEF Steps
<1>5. iter = Steps(iter, S, f)
  <2> HIDE DEF Body
  <2>1. \E g : g = Body(g)
    BY <1>3, <1>4
  <2>2. iter = Body(iter)
    BY <2>1
  <2> QED
    BY <1>3, <2>2
<1> HIDE DEF iter
<1>6. iter[S] \in Nat
  <2>1. IsFiniteSet(S) /\ f \in [S -> Int]
    BY <1>2 DEF S
  <2> QED
    BY <1>2, <1>5, <2>1, StepsAreSums, SumOfNaturals
<1> QED
  BY <1>1, <1>6

(* There are finitely many words of a length. *)
LEMMA SubwordsFinite ==
    ASSUME NEW n \in Nat, IsFiniteSet(Alphabet) PROVE IsFiniteSet(Subwords(n))
<1> DEFINE graph == [w \in Subwords(n) |-> {<<k, w[k]>> : k \in 1 .. n}]
           T == SUBSET ((1 .. n) \X Alphabet)
<1>1. IsFiniteSet(T)
  <2>1. IsFiniteSet(1 .. n)
    BY FS_Interval
  <2> QED
    BY <2>1, FS_Product, FS_SUBSET
<1>2. graph \in [Subwords(n) -> T]
  BY DEF Subwords
<1>3. ASSUME NEW v \in Subwords(n), NEW w \in Subwords(n), graph[v] = graph[w] PROVE v = w
  <2>1. ASSUME NEW k \in 1 .. n PROVE v[k] = w[k]
    <3>1. <<k, v[k]>> \in graph[v]
      OBVIOUS
    <3>2. <<k, v[k]>> \in {<<j, w[j]>> : j \in 1 .. n}
      BY <1>3, <3>1
    <3> QED
      BY <3>2
  <2> QED
    BY <2>1 DEF Subwords
<1>4. graph \in Injection(Subwords(n), T)
  <2> HIDE DEF graph, T
  <2> QED
    BY <1>2, <1>3 DEF Injection, IsInjective
<1> QED
  BY <1>1, <1>4, FS_Injection

(* The greatest of finitely many numbers. *)
Greatest(S) == CHOOSE x \in S : \A y \in S : x >= y

(* A finite set of numbers has a greatest. *)
LEMMA GreatestIs ==
    ASSUME NEW S \in SUBSET Int, IsFiniteSet(S), S # {}
    PROVE  Greatest(S) \in S /\ \A y \in S : Greatest(S) >= y
<1> DEFINE A == {s \in SUBSET S : s # {} => \E x \in s : \A y \in s : x >= y}
<1>1. ASSUME NEW s \in SUBSET S, \A y \in s : s \ {y} \in A PROVE s \in A
  <2> SUFFICES ASSUME NEW z \in s PROVE \E x \in s : \A y \in s : x >= y
    OBVIOUS
  <2>1. CASE s \ {z} = {}
    BY <2>1
  <2>2. CASE s \ {z} # {}
    <3>1. PICK x \in s \ {z} : \A y \in s \ {z} : x >= y
      BY <1>1, <2>2
    <3>2. CASE x >= z
      BY <3>1, <3>2
    <3>3. CASE z >= x
      BY <3>1, <3>3
    <3> QED
      BY <3>2, <3>3
  <2> QED
    BY <2>1, <2>2
<1>2. S \in SUBSET S
  OBVIOUS
<1>3. S \in A
  <2> HIDE DEF A
  <2> QED
    BY <1>1, <1>2, SubsetsFrom
<1>4. \E x \in S : \A y \in S : x >= y
  BY <1>3
<1> QED
  BY <1>4, Zenon DEF Greatest

(* The greatest of the numbers a function has for the elements of a set,   *)
(* or 0.                                                                   *)
Most(f, S) == Greatest({f[x] : x \in S} \cup {0})

(* What the greatest of the values of f and 0 is. *)
LEMMA MostIs ==
    ASSUME NEW S, IsFiniteSet(S), NEW f, \A x \in S : f[x] \in Int
    PROVE  /\ Most(f, S) \in Nat
           /\ \A x \in S : f[x] <= Most(f, S)
           /\ Most(f, S) = 0 \/ \E x \in S : Most(f, S) = f[x]
<1> DEFINE T == {f[x] : x \in S}
           g == [x \in S |-> f[x]]
<1>1. g \in Surjection(S, T)
  BY DEF Surjection
<1>2. IsFiniteSet(T \cup {0})
  BY <1>1, FS_Surjection, FS_AddElement
<1>3. T \cup {0} \in SUBSET Int /\ T \cup {0} # {}
  OBVIOUS
<1>4. Most(f, S) \in T \cup {0} /\ \A y \in T \cup {0} : Most(f, S) >= y
  <2>1. Most(f, S) = Greatest(T \cup {0})
    BY DEF Most
  <2> HIDE DEF T
  <2> QED
    BY <1>2, <1>3, <2>1, GreatestIs
<1>5. Most(f, S) \in Int /\ Most(f, S) >= 0
  BY <1>4
<1>6. Most(f, S) = 0 \/ \E x \in S : Most(f, S) = f[x]
  BY <1>4
<1>7. \A x \in S : f[x] <= Most(f, S)
  BY <1>4, <1>5
<1> QED
  BY <1>5, <1>6, <1>7

(* A bitmap has a number for every subword of its length. *)
LEMMA BitmapType ==
    ASSUME NEW n \in Nat, IsFiniteSet(Alphabet), NEW ct, \A s \in Subwords(n) : ct[s] \in Int
    PROVE  /\ SearchUnit \in Nat => Search!GenBitmap(ct, n) \in [Subwords(n) -> Int]
           /\ SeriesUnit \in Nat => Series!GenBitmap(ct, n) \in [Subwords(n) -> Int]
<1> DEFINE S == Subwords(n)
           high == Most(ct, S)
<1>1. IsFiniteSet(S)
  BY SubwordsFinite
<1>2. high \in Nat
  <2> HIDE DEF S
  <2> QED
    BY <1>1, MostIs DEF S
<1>3. /\ Search!GenBitmap(ct, n) = [s \in S |-> IF high = 0 THEN 0 ELSE (ct[s] * SearchUnit) \div high]
      /\ Series!GenBitmap(ct, n) = [s \in S |-> IF high = 0 THEN 0 ELSE (ct[s] * SeriesUnit) \div high]
  BY DEF Search!GenBitmap, Search!Max, Search!GenSubwords, Series!GenBitmap, Series!Max, Series!GenSubwords,
         Subwords, Most, Greatest
<1> HIDE DEF high
<1>4. ASSUME NEW unit \in Nat, NEW s \in S PROVE (IF high = 0 THEN 0 ELSE (ct[s] * unit) \div high) \in Int
  <2>1. ct[s] * unit \in Int
    BY SMT
  <2>2. high # 0 => (ct[s] * unit) \div high \in Int
    BY <1>2, <2>1
  <2> QED
    BY <2>2
<1> QED
  BY <1>3, <1>4

----------------------------------------------------------------------------
(* The search for profiles. *)

(* What the search takes of its constants. *)
LEMMA SearchFacts ==
    /\ SearchLead \in Nat \ {0} /\ ShiftOf \in [Commands -> Int] /\ SearchUnit \in Nat
    /\ IsFiniteSet(Alphabet) /\ IsFiniteSet(SubLengths) /\ SubLengths \in SUBSET (Nat \ {0})
    /\ \A f \in DOMAIN SeriesFile : SeriesFile[f] \in Seq(Seq(Alphabet))
    /\ SeriesOf \subseteq Seq(Seq(Alphabet))
    /\ \A f \in DOMAIN ProfileFile : ProfileFile[f] \in Map
    /\ \A c \in Commands : c \in Seq(STRING) /\ \A k \in 1 .. Len(c) - 1 :
           /\ c[k] = "-p" => c[k + 1] \in DOMAIN ProfileFile
           /\ c[k] = "-f" => c[k + 1] \in DOMAIN SeriesFile
<1>1. Search!SearchConstants
  BY ScanConstants
<1>2. Search!Subs = Subs
  BY DEF Search!Subs, Subs, Search!GenSubwords, GenSubwords
<1>3. /\ SearchLead \in Nat \ {0} /\ ShiftOf \in [Commands -> Int] /\ SearchUnit \in Nat
      /\ \A f \in DOMAIN SeriesFile : SeriesFile[f] \in Seq(Seq(Alphabet))
      /\ SeriesOf \subseteq Seq(Seq(Alphabet))
      /\ \A f \in DOMAIN ProfileFile : ProfileFile[f] \in Map
  BY <1>1, <1>2, Zenon DEF Search!SearchConstants, Map
<1>4. IsFiniteSet(Alphabet) /\ IsFiniteSet(SubLengths)
  BY <1>1, Zenon DEF Search!SearchConstants, Search!IsFiniteSet, IsFiniteSet
<1>5. \A c \in Commands : c \in Seq(STRING) /\ \A k \in 1 .. Len(c) - 1 :
           /\ c[k] = "-p" => c[k + 1] \in DOMAIN ProfileFile
           /\ c[k] = "-f" => c[k + 1] \in DOMAIN SeriesFile
  BY <1>1, Zenon DEF Search!SearchConstants
<1> QED
  BY <1>3, <1>4, <1>5, SubwordConstants, Zenon DEF SubwordConstants

(* The counts are those of Subwords. *)
LEMMA SameCounts ==
    /\ \A list, from, to : Search!CountSubwords(list, from, to) = CountSubwords(list, from, to)
    /\ \A ct, remove, add : Search!AdjCount(ct, remove, add) = AdjCount(ct, remove, add)
<1>1. Search!Subs = Subs
  BY DEF Search!Subs, Subs, Search!GenSubwords, GenSubwords
<1>2. \A w, s : Search!Places(w, s) = Places(w, s)
  BY DEF Search!Places, Places
<1>c. \A S : Search!Cardinality(S) = Cardinality(S)
  BY Zenon DEF Search!Cardinality, Cardinality, Search!IsFiniteSet, IsFiniteSet
<1>3. \A list, from, to : Search!CountSubwords(list, from, to) = CountSubwords(list, from, to)
  BY <1>1, <1>2, <1>c, Zenon DEF Search!CountSubwords, CountSubwords
<1>4. \A ct, remove, add : Search!AdjCount(ct, remove, add) = AdjCount(ct, remove, add)
  BY <1>1, <1>2, <1>c, Zenon DEF Search!AdjCount, AdjCount
<1> QED
  BY <1>3, <1>4, Zenon

(* The words from 0 on. *)
From0 == SliceOf(words)

(* The counts of the windows of a search alone are defined, one after the  *)
(* other.                                                                  *)
Next1(f, k) == IF k = 0 THEN CountSubwords(From0, 0, SearchLead)
               ELSE AdjCount(f[k - 1], From0[k - 1], From0[k - 1 + SearchLead])
UpToN(f, n) == \A k \in 0 .. n : f[k] = Next1(f, k)

(* The counts of a search alone: those of its first window, each next one  *)
(* adjusted by a word.                                                     *)
LEMMA AloneSteps ==
    /\ Search!AloneCt[0] = CountSubwords(From0, 0, SearchLead)
    /\ \A k \in Nat : Search!AloneCt[k + 1] = AdjCount(Search!AloneCt[k], From0[k], From0[k + SearchLead])
<1> DEFINE F == [n \in Nat |-> (CHOOSE f : UpToN(f, n))[n]]
           A == {n \in Nat : \E f : UpToN(f, n)}
<1>1. \A n \in Nat : n \in A
  <2>1. 0 \in A
    <3> DEFINE f == [k \in {0} |-> CountSubwords(From0, 0, SearchLead)]
    <3>1. UpToN(f, 0)
      BY DEF UpToN, Next1
    <3> HIDE DEF f
    <3> QED
      BY <3>1
  <2>2. ASSUME NEW n \in Nat, n \in A PROVE n + 1 \in A
    <3>1. PICK f : UpToN(f, n)
      BY <2>2
    <3> DEFINE g == [k \in 0 .. n + 1 |-> IF k = n + 1 THEN Next1(f, n + 1) ELSE f[k]]
    <3>2. ASSUME NEW k \in 0 .. n + 1 PROVE g[k] = Next1(g, k)
      <4>1. k # 0 => k - 1 \in 0 .. n /\ g[k - 1] = f[k - 1]
        OBVIOUS
      <4>2. g[k] = Next1(f, k)
        BY <3>1 DEF UpToN
      <4> HIDE DEF g
      <4> QED
        BY <4>1, <4>2 DEF Next1
    <3> HIDE DEF g
    <3>3. UpToN(g, n + 1)
      BY <3>2 DEF UpToN
    <3> QED
      BY <3>3
  <2> QED
    <3> HIDE DEF A
    <3> QED
      BY <2>1, <2>2, NaturalsFrom
<1>2. \A n \in Nat : UpToN(CHOOSE f : UpToN(f, n), n)
  BY <1>1, Zenon
<1>3. ASSUME NEW f, NEW g, NEW n \in Nat, UpToN(f, n), NEW m \in Nat, UpToN(g, m)
      PROVE  \A k \in Nat : k <= n /\ k <= m => f[k] = g[k]
  <2> DEFINE B == {k \in Nat : k <= n /\ k <= m => f[k] = g[k]}
  <2>1. 0 \in B
    BY <1>3 DEF UpToN, Next1
  <2>2. ASSUME NEW k \in Nat, k \in B PROVE k + 1 \in B
    <3> SUFFICES ASSUME k + 1 <= n, k + 1 <= m PROVE f[k + 1] = g[k + 1]
      OBVIOUS
    <3>1. k + 1 \in 0 .. n /\ k + 1 \in 0 .. m /\ k + 1 # 0 /\ (k + 1) - 1 = k /\ f[k] = g[k]
      BY <2>2
    <3>2. f[k + 1] = Next1(f, k + 1) /\ g[k + 1] = Next1(g, k + 1)
      BY <1>3, <3>1 DEF UpToN
    <3> QED
      BY <3>1, <3>2 DEF Next1
  <2> QED
    <3> HIDE DEF B
    <3>1. \A k \in Nat : k \in B
      BY <2>1, <2>2, NaturalsFrom
    <3> QED
      BY <3>1 DEF B
<1>4. ASSUME NEW n \in Nat PROVE F[n] = Next1(F, n)
  <2> DEFINE f == CHOOSE f : UpToN(f, n)
             g == CHOOSE g : UpToN(g, n - 1)
  <2>1. UpToN(f, n) /\ F[n] = f[n]
    BY <1>2
  <2>2. n # 0 => n - 1 \in Nat /\ UpToN(g, n - 1) /\ F[n - 1] = g[n - 1]
    <3> SUFFICES ASSUME n # 0 PROVE n - 1 \in Nat /\ UpToN(g, n - 1) /\ F[n - 1] = g[n - 1]
      OBVIOUS
    <3>1. n - 1 \in Nat
      OBVIOUS
    <3> QED
      BY <1>2, <3>1
  <2> HIDE DEF f, g, F
  <2>3. n # 0 => f[n - 1] = g[n - 1]
    BY <1>3, <2>1, <2>2
  <2>4. f[n] = Next1(f, n)
    BY <2>1 DEF UpToN
  <2> QED
    BY <2>1, <2>2, <2>3, <2>4 DEF Next1
<1> DEFINE Body(h) == [k \in Nat |-> Next1(h, k)]
<1>5. Search!AloneCt = CHOOSE h : h = Body(h)
  BY SameCounts DEF Search!AloneCt, Search!Slice, Search!N, From0, SliceOf, Next1
<1>6. F = Body(F)
  <2>1. F = [n \in Nat |-> F[n]]
    OBVIOUS
  <2> HIDE DEF F
  <2> QED
    BY <1>4, <2>1
<1>7. Search!AloneCt = Body(Search!AloneCt)
  <2> HIDE DEF F, Body
  <2> QED
    BY <1>5, <1>6
<1>8. \A k \in Nat : Search!AloneCt[k] = Next1(Search!AloneCt, k)
  BY <1>7
<1>9. \A k \in Nat : k + 1 \in Nat /\ k + 1 # 0 /\ (k + 1) - 1 = k
  OBVIOUS
<1> QED
  BY <1>8, <1>9 DEF Next1

LEMMA AloneStays == ASSUME words' = words PROVE Search!AloneCt' = Search!AloneCt
  BY DEF Search!AloneCt, Search!Slice, Search!N

(* A product of integers is one. *)
LEMMA ProductIsInteger ==
    ASSUME NEW S, IsFiniteSet(S), NEW f \in [S -> Int] PROVE Search!Multiplied(f) \in Int
<1> DEFINE Body(g) == [s \in SUBSET S |->
                          IF s = {} THEN 1
                          ELSE LET x == CHOOSE x \in s : TRUE IN f[x] * g[s \ {x}]]
           iter == CHOOSE g : g = Body(g)
<1>1. Search!Multiplied(f) = iter[S]
  <2>1. DOMAIN f = S
    OBVIOUS
  <2> QED
    BY <2>1 DEF Search!Multiplied, Search!FoldFunction, Search!FoldFunctionOnSet, Search!MapThenFoldSet
<1>2. \A g : Folds("product", g, S, f) = Body(g)
  BY DEF Folds, Base, Join, Picked
<1>3. iter = Body(iter)
  <2> HIDE DEF Body
  <2>1. \E g : g = Folds("product", g, S, f)
    BY FoldsExist
  <2> QED
    BY <1>2, <2>1
<1> DEFINE A == {s \in SUBSET S : iter[s] \in Int}
<1>4. ASSUME NEW s \in SUBSET S, \A y \in s : s \ {y} \in A PROVE s \in A
  <2> HIDE DEF iter
  <2>1. CASE s = {}
    BY <1>3, <2>1
  <2>2. CASE s # {}
    <3>1. Picked(s) \in s
      BY <2>2, PickedIsIn
    <3>2. iter[s] = f[Picked(s)] * iter[s \ {Picked(s)}]
      BY <1>3, <2>2 DEF Picked
    <3>3. f[Picked(s)] \in Int /\ iter[s \ {Picked(s)}] \in Int
      BY <1>4, <3>1
    <3>4. \A a, b \in Int : a * b \in Int
      BY SMT
    <3> QED
      BY <3>2, <3>3, <3>4
  <2> QED
    BY <2>1, <2>2
<1>5. S \in A
  <2> HIDE DEF A
  <2>1. S \in SUBSET S
    OBVIOUS
  <2> QED
    BY <1>4, <2>1, SubsetsFrom
<1> QED
  BY <1>1, <1>5

(* The distances of two counts. *)
LEMMA DistancesType ==
    ASSUME NEW ct1 \in Map, NEW ct2 \in Map
    PROVE  Search!Distances(ct1, ct2) \in [SubLengths -> Nat]
<1>1. ASSUME NEW n \in SubLengths
      PROVE  Search!BitmapDistance(Search!GenBitmap(ct1, n), Search!GenBitmap(ct2, n), n) \in Nat
  <2>1. n \in Nat /\ IsFiniteSet(Alphabet) /\ SearchUnit \in Nat
    BY SearchFacts
  <2>2. Subwords(n) \subseteq Subs
    BY DEF Subwords, Subs, GenSubwords
  <2>3. (\A s \in Subwords(n) : ct1[s] \in Int) /\ \A s \in Subwords(n) : ct2[s] \in Int
    BY <2>2 DEF Map
  <2>4. Search!GenBitmap(ct1, n) \in [Subwords(n) -> Int] /\ Search!GenBitmap(ct2, n) \in [Subwords(n) -> Int]
    BY <2>1, <2>3, BitmapType
  <2> QED
    BY <2>1, <2>4, SubwordsFinite, DistanceIsSum
<1> QED
  BY <1>1 DEF Search!Distances

(* A search is at work.                                                    *)
Searching == {"search", "spawn", "gather", "dump"}
Scanning  == {"spawn", "gather", "dump"}

(* The last position of the window, and the row of a position.             *)
LastStart == Len(words) - SearchLead
RowOf(k)  == k + SearchLead + Search!Shift - 1

AloneAt(p, k) == Search!Distances(profiles[p], Search!AloneCt[k])

SearchTyped ==
    /\ args \in Commands /\ i \in Nat \ {0}
    /\ words \in Seq(Seq(Alphabet))
    /\ \A p \in DOMAIN profiles : profiles[p] \in Map
    /\ start \in Nat
    /\ pc = "args" => start = 0 /\ DOMAIN files = {}

(* The counts of the positions are those of a search alone, and those that *)
(* later searches append stand behind them.                                *)
LeadMaps ==
    pc \in Searching =>
        /\ leadCt \in Seq(Map)
        /\ \A k \in 0 .. LastStart : k < Len(leadCt) => leadCt[k + 1] = Search!AloneCt[k]
        /\ Len(leadCt) > LastStart \/ Len(leadCt) = start + 1
        /\ start = 0 \/ start <= LastStart + 1
        /\ pc = "search" => start = 0
        /\ pc \in {"gather", "dump"} => start > LastStart
        /\ left \subseteq DOMAIN profiles

Routine == [state : {"started"}, lead : Map, end : Int]
              \cup [state : {"sending"}, pos : Int, dist : [SubLengths -> Nat]] \cup [state : {"gone"}]

(* What a goroutine was given, has found or has sent is of its position.   *)
Does(routine, k, ct, d) ==
    \/ routine = [state |-> "started", lead |-> ct, end |-> k + SearchLead]
    \/ routine = [state |-> "sending", pos |-> k + SearchLead + Search!Shift, dist |-> d]
    \/ routine = [state |-> "gone"]

(* The shift of a command line, which stays what it is. *)
LEMMA ShiftIs == args \in Commands => Search!Shift \in Int
  BY SearchFacts, Zenon DEF Search!Shift

LEMMA ShiftStays ==
    ASSUME args' = args
    PROVE  /\ Search!Shift' = Search!Shift /\ \A k : RowOf(k)' = RowOf(k)
           /\ \A routine, k, ct, d : Does(routine, k, ct, d)' <=> Does(routine, k, ct, d)
<1>1. Search!Shift' = Search!Shift
  BY DEF Search!Shift
<1> QED
  BY <1>1 DEF RowOf, Does

Doing(k) == Does(routines[k], k - 1, Search!AloneCt[k - 1], AloneAt(name, k - 1))

Received == {k \in 1 .. start : routines[k] = [state |-> "gone"]}

Scan ==
    pc \in Scanning =>
        /\ name \in DOMAIN profiles
        /\ routines \in Seq(Routine) /\ Len(routines) = start
        /\ \A k \in 1 .. start : Doing(k)
        /\ DOMAIN dist = {RowOf(k - 1) : k \in Received}
        /\ \A k \in Received : dist[RowOf(k - 1)] = AloneAt(name, k - 1)
        /\ got = Cardinality(Received)
        /\ pc = "spawn" => got = 0
        /\ pc = "dump" => got = start

SearchInv == SearchTyped /\ LeadMaps /\ Scan /\ Search!SearchedAsAlone

(* profile_search slices the whole series. *)
LEMMA SliceIs == Search!Slice = From0 /\ Search!N = Len(words)
  BY DEF Search!Slice, From0, SliceOf, Search!N

(* The counts of a search alone are counts. *)
LEMMA AloneType ==
    ASSUME words \in Seq(Seq(Alphabet)) PROVE \A k \in 0 .. LastStart : Search!AloneCt[k] \in Map
<1> DEFINE A == {k \in Nat : k <= LastStart => Search!AloneCt[k] \in Map}
<1>1. SearchLead \in Nat \ {0} /\ Len(words) \in Nat /\ LastStart = Len(words) - SearchLead
  BY SearchFacts DEF LastStart
<1>2. \A k \in 0 .. Len(words) - 1 : From0[k] \in Seq(Alphabet)
  BY DEF From0, SliceOf
<1>3. 0 \in A
  <2> SUFFICES ASSUME 0 <= LastStart PROVE Search!AloneCt[0] \in Map
    OBVIOUS
  <2>1. \A k \in 0 .. SearchLead - 1 : From0[k] \in Seq(Alphabet)
    BY <1>1, <1>2
  <2>2. CountSubwords(From0, 0, SearchLead) \in Map
    BY <1>1, <2>1, CountType DEF Map
  <2> QED
    BY <2>2, AloneSteps
<1>4. ASSUME NEW k \in Nat, k \in A PROVE k + 1 \in A
  <2> SUFFICES ASSUME k + 1 <= LastStart PROVE Search!AloneCt[k + 1] \in Map
    OBVIOUS
  <2>1. k <= LastStart /\ k \in 0 .. Len(words) - 1 /\ k + SearchLead \in 0 .. Len(words) - 1
    BY <1>1
  <2>2. From0[k] \in Seq(Alphabet) /\ From0[k + SearchLead] \in Seq(Alphabet) /\ Search!AloneCt[k] \in [Subs -> Int]
    BY <1>2, <1>4, <2>1 DEF Map
  <2>3. AdjCount(Search!AloneCt[k], From0[k], From0[k + SearchLead]) \in Map
    BY <2>2, AdjustType DEF Map
  <2> QED
    BY <2>3, AloneSteps
<1>5. \A k \in Nat : k \in A
  <2> HIDE DEF A
  <2> QED
    BY <1>3, <1>4, NaturalsFrom
<1> QED
  BY <1>1, <1>5

(* So are the distances. *)
LEMMA AloneAtType ==
    ASSUME words \in Seq(Seq(Alphabet)), NEW p, profiles[p] \in Map, NEW k \in 0 .. LastStart
    PROVE  AloneAt(p, k) \in [SubLengths -> Nat]
  BY AloneType, DistancesType DEF AloneAt

(* The parts of SearchedAsAlone, for a series of so many words and the     *)
(* distances d of its windows: what a column shows, and the products.      *)
RowsOf(len)    == 0 .. len - 1
StartsOf(len)  == 0 .. len - SearchLead
ShownOf(len)   == {k \in StartsOf(len) : RowOf(k) \in RowsOf(len)}

ColumnFits(len, d, n, column) ==
    /\ \A k, m \in ShownOf(len) : column[RowOf(k)] + d[k][n] = column[RowOf(m)] + d[m][n]
    /\ ShownOf(len) # {} => \E k \in ShownOf(len) : column[RowOf(k)] = 0
    /\ \A r \in RowsOf(len) : column[r] >= 0 /\ (column[r] > 0 => \E k \in ShownOf(len) : r = RowOf(k))

ProductsFit(len, d, mul) ==
    /\ \A k \in ShownOf(len) : mul[RowOf(k)][1] = Search!Multiplied(d[k])
    /\ \A r \in RowsOf(len), k \in StartsOf(len) : mul[r][2] >= Search!Multiplied(d[k])

FileFits(len, d, file) == /\ \A n \in SubLengths : ColumnFits(len, d, n, file.subs[n])
                          /\ ProductsFit(len, d, file.mul)

AloneOf(p) == [k \in StartsOf(Len(words)) |-> AloneAt(p, k)]

LEMMA AloneParts == Search!SearchedAsAlone <=> \A p \in DOMAIN files : FileFits(Len(words), AloneOf(p), files[p])
<1>1. Search!Windows = StartsOf(Len(words)) /\ Search!Rows = RowsOf(Len(words)) /\ \A k : Search!Row(k) = RowOf(k)
  BY DEF Search!Windows, StartsOf, Search!Rows, RowsOf, Search!Row, RowOf, Search!N
<1>2. {k \in Search!Windows : Search!Row(k) \in Search!Rows} = ShownOf(Len(words))
  BY <1>1 DEF ShownOf
<1>3. \A p : [k \in Search!Windows |-> Search!Distances(profiles[p], Search!AloneCt[k])] = AloneOf(p)
  BY <1>1 DEF AloneOf, AloneAt
<1>4. Search!SearchedAsAlone <=>
        \A p \in DOMAIN files :
            LET shown == ShownOf(Len(words))
                d == AloneOf(p)
            IN  /\ \A n \in SubLengths :
                      LET column == files[p].subs[n]
                      IN  /\ \A k, m \in shown : column[RowOf(k)] + d[k][n] = column[RowOf(m)] + d[m][n]
                          /\ shown # {} => \E k \in shown : column[RowOf(k)] = 0
                          /\ \A r \in RowsOf(Len(words)) : column[r] >= 0 /\ (column[r] > 0 => \E k \in shown : r = RowOf(k))
                /\ \A k \in shown : files[p].mul[RowOf(k)][1] = Search!Multiplied(d[k])
                /\ \A r \in RowsOf(Len(words)), k \in StartsOf(Len(words)) : files[p].mul[r][2] >= Search!Multiplied(d[k])
  BY <1>1, <1>2, <1>3 DEF Search!SearchedAsAlone
<1> QED
  BY <1>4, Zenon DEF FileFits, ColumnFits, ProductsFit

LEMMA AlonePartsNext ==
    ASSUME args' = args
    PROVE  Search!SearchedAsAlone' <=> \A p \in DOMAIN files' : FileFits(Len(words'), AloneOf(p)', files'[p])
<1>1. (Search!SearchedAsAlone <=> \A p \in DOMAIN files : FileFits(Len(words), AloneOf(p), files[p]))'
  BY AloneParts, PTL
<1>2. \A len : ShownOf(len)' = ShownOf(len)
  BY ShiftStays DEF ShownOf, RowsOf, StartsOf
<1>3. \A len, d, n, column : ColumnFits(len, d, n, column)' <=> ColumnFits(len, d, n, column)
  BY <1>2, ShiftStays DEF ColumnFits, RowsOf
<1>4. \A len, d, mul : ProductsFit(len, d, mul)' <=> ProductsFit(len, d, mul)
  BY <1>2, ShiftStays DEF ProductsFit, RowsOf, StartsOf
<1>5. \A len, d, file : FileFits(len, d, file)' <=> FileFits(len, d, file)
  BY <1>3, <1>4 DEF FileFits
<1>6. \A p : FileFits(Len(words), AloneOf(p), files[p])' <=> FileFits(Len(words'), AloneOf(p)', files'[p])
  BY <1>5
<1> QED
  BY <1>1, <1>6

LEMMA AloneOfStays == ASSUME UNCHANGED <<words, profiles>> PROVE \A p : AloneOf(p)' = AloneOf(p)
  BY AloneStays DEF AloneOf, AloneAt

LEMMA FitsStays ==
    ASSUME Search!SearchedAsAlone, UNCHANGED <<args, words, profiles, files>> PROVE Search!SearchedAsAlone'
<1>1. \A p \in DOMAIN files : FileFits(Len(words), AloneOf(p), files[p])
  BY AloneParts
<1>2. \A p \in DOMAIN files' : FileFits(Len(words'), AloneOf(p)', files'[p])
  BY <1>1, AloneOfStays
<1> QED
  BY <1>2, AlonePartsNext

(* The results of a profile, all of them. *)
RowsOfRun(len, d, res) ==
    /\ len \in Nat /\ DOMAIN res = {RowOf(k) : k \in StartsOf(len)}
    /\ \A k \in StartsOf(len) : d[k] \in [SubLengths -> Nat] /\ res[RowOf(k)] = d[k]

(* Rows that are shown, what they show, and a column made of it. *)
Turned(len, res, n, S, f, column) ==
    /\ S = RowsOf(len) \cap DOMAIN res /\ f = [r \in S |-> res[r][n]]
    /\ column = [r \in RowsOf(len) |-> IF r \in S THEN Most(f, S) - res[r][n] ELSE 0]

LEMMA RowsFinite == ASSUME NEW len \in Nat PROVE IsFiniteSet(RowsOf(len)) /\ IsFiniteSet(StartsOf(len))
<1>1. \A a, b \in Int : IsFiniteSet(a .. b)
  BY FS_Interval
<1>2. len - 1 \in Int /\ len - SearchLead \in Int
  BY SearchFacts
<1> QED
  BY <1>1, <1>2 DEF RowsOf, StartsOf

(* A column that has for every start what was stored there shows it        *)
(* (profile_search.go:137-169).                                            *)
LEMMA ColumnShows ==
    ASSUME NEW len, NEW d, NEW res, RowsOfRun(len, d, res), NEW n \in SubLengths,
           NEW S, NEW f, NEW column, Turned(len, res, n, S, f, column), Search!Shift \in Int
    PROVE  ColumnFits(len, d, n, column)
<1>1. len \in Nat /\ SearchLead \in Nat /\ Search!Shift \in Int
  BY SearchFacts DEF RowsOfRun
<1>2. \A k \in ShownOf(len) : RowOf(k) \in S /\ RowOf(k) \in RowsOf(len) /\ f[RowOf(k)] = d[k][n] /\ d[k][n] \in Nat
                              /\ res[RowOf(k)][n] = d[k][n]
  BY DEF RowsOfRun, ShownOf, Turned
<1>3. \A r \in S : \E k \in ShownOf(len) : r = RowOf(k)
  BY DEF RowsOfRun, ShownOf, Turned
<1>4. IsFiniteSet(S) /\ S \subseteq RowsOf(len)
  BY <1>1, RowsFinite, FS_Subset DEF Turned
<1>5. /\ \A r \in S : f[r] = res[r][n]
      /\ \A r \in RowsOf(len) : column[r] = IF r \in S THEN Most(f, S) - res[r][n] ELSE 0
  BY DEF Turned
<1>11. \A r \in S : f[r] \in Int
  BY <1>2, <1>3
<1>6. /\ Most(f, S) \in Nat /\ \A r \in S : f[r] <= Most(f, S)
      /\ Most(f, S) = 0 \/ \E r \in S : Most(f, S) = f[r]
  BY <1>4, <1>11, MostIs
<1>7. \A k \in ShownOf(len) : column[RowOf(k)] = Most(f, S) - d[k][n]
  BY <1>2, <1>5
<1>8. \A k, m \in ShownOf(len) : column[RowOf(k)] + d[k][n] = column[RowOf(m)] + d[m][n]
  BY <1>2, <1>6, <1>7
<1>9. ShownOf(len) # {} => \E k \in ShownOf(len) : column[RowOf(k)] = 0
  <2> SUFFICES ASSUME NEW j \in ShownOf(len) PROVE \E k \in ShownOf(len) : column[RowOf(k)] = 0
    OBVIOUS
  <2>1. CASE Most(f, S) = 0
    <3>1. d[j][n] <= 0 /\ d[j][n] \in Nat
      BY <1>2, <1>6, <2>1
    <3> QED
      BY <1>7, <2>1, <3>1
  <2>2. CASE \E r \in S : Most(f, S) = f[r]
    <3>1. PICK r \in S : Most(f, S) = f[r]
      BY <2>2
    <3>2. PICK k \in ShownOf(len) : r = RowOf(k)
      BY <1>3
    <3> QED
      BY <1>2, <1>6, <1>7, <3>1, <3>2
  <2> QED
    BY <1>6, <2>1, <2>2
<1>10. \A r \in RowsOf(len) : column[r] >= 0 /\ (column[r] > 0 => \E k \in ShownOf(len) : r = RowOf(k))
  <2> SUFFICES ASSUME NEW r \in RowsOf(len)
               PROVE  column[r] >= 0 /\ (column[r] > 0 => \E k \in ShownOf(len) : r = RowOf(k))
    OBVIOUS
  <2>1. CASE r \in S
    <3>1. column[r] = Most(f, S) - f[r]
      BY <1>5, <2>1
    <3> QED
      BY <1>3, <1>11, <1>6, <2>1, <3>1
  <2>2. CASE r \notin S
    BY <1>5, <2>2
  <2> QED
    BY <2>1, <2>2
<1> QED
  BY <1>8, <1>9, <1>10 DEF ColumnFits

(* The column of the products of the results, and its greatest. *)
Multiplies(len, res, S, f, mul) ==
    /\ S = RowsOf(len) \cap DOMAIN res
    /\ f = [r \in DOMAIN res |-> Search!Multiplied(res[r])]
    /\ mul = [r \in RowsOf(len) |-> <<IF r \in S THEN f[r] ELSE 0, Most(f, DOMAIN res)>>]

(* The greatest product is over all results, shown or not. *)
LEMMA ProductsShow ==
    ASSUME NEW len, NEW d, NEW res, RowsOfRun(len, d, res), NEW S, NEW f, NEW mul, Multiplies(len, res, S, f, mul),
           Search!Shift \in Int
    PROVE  ProductsFit(len, d, mul)
<1>0. /\ S = RowsOf(len) \cap DOMAIN res
      /\ f = [r \in DOMAIN res |-> Search!Multiplied(res[r])]
      /\ mul = [r \in RowsOf(len) |-> <<IF r \in S THEN f[r] ELSE 0, Most(f, DOMAIN res)>>]
  BY DEF Multiplies
<1>1. len \in Nat /\ SearchLead \in Nat /\ Search!Shift \in Int /\ IsFiniteSet(SubLengths)
  BY SearchFacts DEF RowsOfRun
<1>2. \A k \in StartsOf(len) : RowOf(k) \in DOMAIN res /\ f[RowOf(k)] = Search!Multiplied(d[k])
  BY <1>0 DEF RowsOfRun
<1>3. \A k \in StartsOf(len) : Search!Multiplied(d[k]) \in Int
  <2>1. \A k \in StartsOf(len) : d[k] \in [SubLengths -> Int]
    BY DEF RowsOfRun
  <2> QED
    BY <1>1, <2>1, ProductIsInteger
<1>4. \A r \in DOMAIN res : f[r] \in Int
  <2> SUFFICES ASSUME NEW r \in DOMAIN res PROVE f[r] \in Int
    OBVIOUS
  <2>1. PICK k \in StartsOf(len) : r = RowOf(k)
    BY DEF RowsOfRun
  <2> QED
    BY <1>2, <1>3, <2>1
<1>5. IsFiniteSet(DOMAIN res)
  <2>1. IsFiniteSet(StartsOf(len))
    BY <1>1, RowsFinite
  <2>2. [k \in StartsOf(len) |-> RowOf(k)] \in Surjection(StartsOf(len), DOMAIN res)
    BY DEF RowsOfRun, Surjection
  <2> QED
    BY <2>1, <2>2, FS_Surjection
<1>6. \A r \in DOMAIN res : f[r] <= Most(f, DOMAIN res)
  BY <1>4, <1>5, MostIs
<1>7. \A k \in ShownOf(len) : k \in StartsOf(len) /\ RowOf(k) \in RowsOf(len) /\ RowOf(k) \in S
  BY <1>0, <1>2 DEF ShownOf
<1>8. \A k \in ShownOf(len) : mul[RowOf(k)][1] = Search!Multiplied(d[k])
  BY <1>0, <1>2, <1>7
<1>9. Most(f, DOMAIN res) \in Int
  BY <1>4, <1>5, MostIs
<1>10. \A r \in RowsOf(len), k \in StartsOf(len) : mul[r][2] >= Search!Multiplied(d[k])
  <2> SUFFICES ASSUME NEW r \in RowsOf(len), NEW k \in StartsOf(len) PROVE mul[r][2] >= Search!Multiplied(d[k])
    OBVIOUS
  <2>1. mul[r][2] = Most(f, DOMAIN res)
    BY <1>0
  <2> QED
    BY <1>2, <1>3, <1>6, <1>9, <2>1
<1> QED
  BY <1>8, <1>10 DEF ProductsFit

(* At the end of the collection there is a result of every window. *)
LEMMA AllResults ==
    ASSUME SearchInv, pc = "dump" PROVE RowsOfRun(Len(words), AloneOf(name), dist)
<1>1. /\ words \in Seq(Seq(Alphabet)) /\ Len(words) \in Nat /\ SearchLead \in Nat \ {0}
      /\ start \in Nat
  BY SearchFacts DEF SearchInv, SearchTyped
<1>2. start > LastStart /\ (start = 0 \/ start <= LastStart + 1)
  BY DEF SearchInv, LeadMaps, Searching
<1>3. /\ name \in DOMAIN profiles /\ DOMAIN dist = {RowOf(k - 1) : k \in Received}
      /\ \A k \in Received : dist[RowOf(k - 1)] = AloneAt(name, k - 1)
      /\ Cardinality(Received) = start
  BY DEF SearchInv, Scan, Scanning
<1>4. Received = 1 .. start
  <2>1. IsFiniteSet(1 .. start) /\ Cardinality(1 .. start) = start
    <3>1. start \in Int /\ 1 \in Int
      BY <1>1
    <3>2. IsFiniteSet(1 .. start) /\ Cardinality(1 .. start) = IF 1 > start THEN 0 ELSE start - 1 + 1
      BY <3>1, FS_Interval, Zenon
    <3> QED
      BY <1>1, <3>2
  <2>2. Received \subseteq 1 .. start
    BY DEF Received
  <2> QED
    BY <1>3, <2>1, <2>2, FS_Subset
<1>5. StartsOf(Len(words)) = 0 .. LastStart /\ LastStart \in Int
  BY <1>1 DEF StartsOf, LastStart
<1>6. \A k \in 1 .. start : k - 1 \in 0 .. LastStart
  BY <1>1, <1>2, <1>5
<1>7. \A k \in 0 .. LastStart : k + 1 \in 1 .. start /\ (k + 1) - 1 = k
  BY <1>1, <1>2, <1>5
<1>8. DOMAIN dist = {RowOf(k) : k \in StartsOf(Len(words))}
  BY <1>3, <1>4, <1>5, <1>6, <1>7
<1>9. ASSUME NEW k \in StartsOf(Len(words))
      PROVE  AloneOf(name)[k] \in [SubLengths -> Nat] /\ dist[RowOf(k)] = AloneOf(name)[k]
  <2>1. AloneOf(name)[k] = AloneAt(name, k)
    BY DEF AloneOf
  <2>2. profiles[name] \in Map
    BY <1>3 DEF SearchInv, SearchTyped
  <2>3. AloneAt(name, k) \in [SubLengths -> Nat]
    BY <1>1, <1>5, <2>2, AloneAtType
  <2>4. dist[RowOf(k)] = AloneAt(name, k)
    BY <1>3, <1>4, <1>5, <1>7
  <2> QED
    BY <2>1, <2>3, <2>4
<1> QED
  BY <1>1, <1>8, <1>9 DEF RowsOfRun

(* What is dumped is what the search alone would show. *)
LEMMA DumpFits ==
    ASSUME SearchInv, pc = "dump"
    PROVE  FileFits(Len(words), AloneOf(name), [subs |-> [n \in SubLengths |-> Search!Column(n)], mul |-> Search!MulColumn])
<1> DEFINE S == RowsOf(Len(words)) \cap DOMAIN dist
           file == [subs |-> [n \in SubLengths |-> Search!Column(n)], mul |-> Search!MulColumn]
<1>1. Search!Rows = RowsOf(Len(words)) /\ Search!Shown = S
  BY DEF Search!Rows, Search!Shown, Search!N, RowsOf
<1>6. Search!Shift \in Int
  BY ShiftIs DEF SearchInv, SearchTyped
<1>2. ASSUME NEW n \in SubLengths PROVE ColumnFits(Len(words), AloneOf(name), n, Search!Column(n))
  <2> DEFINE f == [r \in S |-> dist[r][n]]
  <2>1. f = [r \in S |-> dist[r][n]] /\ {dist[r][n] : r \in S} = {f[r] : r \in S}
    OBVIOUS
  <2> HIDE DEF f, S
  <2>2. Search!Max({dist[r][n] : r \in Search!Shown} \cup {0}) = Most(f, S)
    BY <1>1, <2>1 DEF Search!Max, Most, Greatest
  <2>3. Search!Column(n) = [r \in RowsOf(Len(words)) |-> IF r \in S THEN Most(f, S) - dist[r][n] ELSE 0]
    BY <1>1, <2>2, Zenon DEF Search!Column
  <2>4. Turned(Len(words), dist, n, S, f, Search!Column(n))
    BY <2>1, <2>3, Zenon DEF Turned, S
  <2> QED
    BY <1>6, <2>4, AllResults, ColumnShows, Zenon
<1>3. ProductsFit(Len(words), AloneOf(name), Search!MulColumn)
  <2> DEFINE f == [r \in DOMAIN dist |-> Search!Multiplied(dist[r])]
  <2>1. {Search!Multiplied(dist[r]) : r \in DOMAIN dist} = {f[r] : r \in DOMAIN dist}
        /\ \A r \in S : f[r] = Search!Multiplied(dist[r])
    OBVIOUS
  <2> HIDE DEF f
  <2>2. Search!Max({Search!Multiplied(dist[r]) : r \in DOMAIN dist} \cup {0}) = Most(f, DOMAIN dist)
    BY <2>1 DEF Search!Max, Most, Greatest
  <2>3. Search!MulColumn = [r \in RowsOf(Len(words)) |-> <<IF r \in S THEN f[r] ELSE 0, Most(f, DOMAIN dist)>>]
    <3> HIDE DEF S
    <3> QED
      BY <1>1, <2>1, <2>2 DEF Search!MulColumn
  <2>4. RowsOfRun(Len(words), AloneOf(name), dist)
    BY AllResults
  <2>5. Multiplies(Len(words), dist, S, f, Search!MulColumn)
    BY <2>3, Zenon DEF Multiplies, f
  <2> QED
    BY <1>6, <2>4, <2>5, ProductsShow
<1>4. file.subs = [n \in SubLengths |-> Search!Column(n)] /\ file.mul = Search!MulColumn
  OBVIOUS
<1> HIDE DEF file
<1>5. FileFits(Len(words), AloneOf(name), file)
  BY <1>2, <1>3, <1>4 DEF FileFits
<1> QED
  BY <1>5 DEF file

(* What a window scan does not change. *)
LEMMA SearchTypes ==
    ASSUME SearchInv
    PROVE  /\ args \in Commands /\ i \in Nat \ {0} /\ words \in Seq(Seq(Alphabet)) /\ Len(words) \in Nat
           /\ \A p \in DOMAIN profiles : profiles[p] \in Map
           /\ start \in Nat /\ SearchLead \in Nat \ {0} /\ Search!Shift \in Int /\ LastStart = Len(words) - SearchLead
           /\ \A k \in Nat : RowOf(k) \in Int
<1>1. /\ args \in Commands /\ i \in Nat \ {0} /\ words \in Seq(Seq(Alphabet)) /\ Len(words) \in Nat
      /\ \A p \in DOMAIN profiles : profiles[p] \in Map
      /\ start \in Nat
  BY DEF SearchInv, SearchTyped
<1>2. SearchLead \in Nat \ {0} /\ Search!Shift \in Int
  BY <1>1, SearchFacts, ShiftIs
<1> QED
  BY <1>1, <1>2 DEF LastStart, RowOf

(* A new profile or a new series, before anything is searched for. *)
LEMMA ArgumentKeeps == ASSUME SearchInv, Search!Argument PROVE SearchInv'
<1>1. pc = "args" /\ i <= Len(args) /\ UNCHANGED <<args, files, start>> /\ pc' \in {"args", "exit"}
  BY DEF Search!Argument, Search!ofWindow
<1>2. /\ args \in Commands /\ i \in Nat \ {0} /\ words \in Seq(Seq(Alphabet))
      /\ \A p \in DOMAIN profiles : profiles[p] \in Map
      /\ start = 0 /\ DOMAIN files = {}
  BY <1>1 DEF SearchInv, SearchTyped
<1>3. args \in Seq(STRING) /\ \A k \in 1 .. Len(args) - 1 :
           /\ args[k] = "-p" => args[k + 1] \in DOMAIN ProfileFile
           /\ args[k] = "-f" => args[k + 1] \in DOMAIN SeriesFile
  BY <1>2, SearchFacts
<1>4. Search!Has(1) => i \in 1 .. Len(args) - 1
  BY <1>2, <1>3 DEF Search!Has
<1>5. i' \in Nat \ {0}
  BY <1>2 DEF Search!Argument
<1>6. words' \in Seq(Seq(Alphabet))
  <2>1. CASE args[i] = "-f"
    <3>1. words' = IF Search!Has(1) THEN SeriesFile[args[i + 1]] ELSE words
      BY <2>1 DEF Search!Argument
    <3> QED
      BY <1>2, <1>3, <1>4, <2>1, <3>1, SearchFacts
  <2>2. CASE args[i] # "-f"
    <3>1. words' = words \/ words' \in SeriesOf
      BY <2>2 DEF Search!Argument
    <3> QED
      BY <1>2, <3>1, SearchFacts
  <2> QED
    BY <2>1, <2>2
<1>7. \A p \in DOMAIN profiles' : profiles'[p] \in Map
  <2>1. CASE args[i] = "-p" /\ Search!Has(1)
    <3>1. profiles' = Search!Put(profiles, args[i + 1], ProfileFile[args[i + 1]])
      BY <2>1 DEF Search!Argument
    <3>2. ProfileFile[args[i + 1]] \in Map
      BY <1>3, <1>4, <2>1, SearchFacts
    <3> QED
      BY <1>2, <3>1, <3>2 DEF Search!Put
  <2>2. CASE ~ (args[i] = "-p" /\ Search!Has(1))
    <3>1. profiles' = profiles
      BY <2>2 DEF Search!Argument
    <3> QED
      BY <1>2, <3>1
  <2> QED
    BY <2>1, <2>2
<1>8. Search!SearchedAsAlone'
  BY <1>1, <1>2, AlonePartsNext
<1>9. SearchTyped'
  BY <1>1, <1>2, <1>5, <1>6, <1>7 DEF SearchTyped
<1>10. LeadMaps' /\ Scan'
  BY <1>1 DEF LeadMaps, Scan, Searching, Scanning
<1> QED
  BY <1>8, <1>9, <1>10 DEF SearchInv

LEMMA FirstWindowKeeps == ASSUME SearchInv, Search!FirstWindow PROVE SearchInv'
<1>1. /\ pc = "args" /\ pc' \in {"search", "panic"} /\ UNCHANGED <<args, i, profiles, words, start, files>>
      /\ pc' = "search" => /\ left' = DOMAIN profiles
                           /\ leadCt' = <<CountSubwords(From0, 0, IF Len(words) < SearchLead THEN Len(words) ELSE SearchLead)>>
  BY SliceIs, SameCounts DEF Search!FirstWindow, Search!ofArgs
<1>2. start = 0 /\ SearchTyped
  BY <1>1 DEF SearchInv, SearchTyped
<1>3. SearchTyped'
  BY <1>1, <1>2 DEF SearchTyped
<1>4. LeadMaps'
  <2> SUFFICES ASSUME pc' = "search" PROVE LeadMaps'
    BY <1>1 DEF LeadMaps, Searching
  <2> DEFINE to == IF Len(words) < SearchLead THEN Len(words) ELSE SearchLead
             ct == CountSubwords(From0, 0, to)
  <2>1. to \in Int /\ to <= Len(words)
    BY SearchTypes
  <2>2. \A k \in 0 .. to - 1 : From0[k] \in Seq(Alphabet)
    <3> HIDE DEF to
    <3>1. \A k \in 0 .. Len(words) - 1 : From0[k] \in Seq(Alphabet)
      BY SearchTypes DEF From0, SliceOf
    <3> QED
      BY <2>1, <3>1, SearchTypes
  <2>3. ct \in Map
    <3> HIDE DEF to
    <3> QED
      BY <2>1, <2>2, CountType DEF Map
  <2>4. LastStart' = LastStart /\ Search!AloneCt' = Search!AloneCt
    BY <1>1, AloneStays DEF LastStart
  <2>5. \A k \in 0 .. LastStart : k < 1 => k = 0 /\ to = SearchLead
    BY SearchTypes
  <2>6. Search!AloneCt[0] = CountSubwords(From0, 0, SearchLead)
    BY AloneSteps
  <2>7. leadCt' = <<ct>>
    BY <1>1
  <2>8. \A k \in 0 .. LastStart : k < 1 => ct = Search!AloneCt[k]
    BY <2>5, <2>6
  <2> HIDE DEF ct
  <2>9. leadCt' \in Seq(Map) /\ Len(leadCt') = 1 /\ leadCt'[1] = ct
    BY <2>3, <2>7
  <2>10. \A k \in 0 .. LastStart : k < 1 => k = 0
    BY SearchTypes
  <2>11. \A k \in 0 .. LastStart : k < 1 => leadCt'[k + 1] = Search!AloneCt[k]
    BY <2>8, <2>9, <2>10
  <2> QED
    BY <1>1, <1>2, <2>4, <2>9, <2>11 DEF LeadMaps, Searching
<1>5. Scan'
  BY <1>1 DEF Scan, Scanning
<1>6. Search!SearchedAsAlone'
  BY <1>1, FitsStays DEF SearchInv
<1> QED
  BY <1>3, <1>4, <1>5, <1>6 DEF SearchInv

LEMMA NextProfileKeeps == ASSUME SearchInv, NEW n \in left, Search!NextProfile(n) PROVE SearchInv'
<1>1. /\ pc = "search" /\ pc' = "spawn" /\ name' = n /\ left' = left \ {n}
      /\ routines' = <<>> /\ dist' = <<>> /\ got' = 0
      /\ UNCHANGED <<args, i, profiles, words, start, leadCt, files>>
  BY DEF Search!NextProfile, Search!ofArgs
<1>2. LeadMaps /\ SearchTyped /\ start = 0 /\ left \subseteq DOMAIN profiles
  BY <1>1 DEF SearchInv, LeadMaps, Searching
<1>3. SearchTyped'
  BY <1>1, <1>2 DEF SearchTyped
<1>4. LastStart' = LastStart /\ Search!AloneCt' = Search!AloneCt
  BY <1>1, AloneStays DEF LastStart
<1>5. LeadMaps'
  BY <1>1, <1>2, <1>4 DEF LeadMaps, Searching
<1>6. Received' = {} /\ Cardinality({}) = 0
  BY <1>1, <1>2, FS_EmptySet DEF Received
<1>7. Scan'
  <2>1. name' \in DOMAIN profiles' /\ routines' \in Seq(Routine) /\ Len(routines') = start' /\ start' = 0
    BY <1>1, <1>2
  <2>2. \A k \in 1 .. start' : FALSE
    BY <2>1
  <2>3. DOMAIN dist' = {}
    BY <1>1
  <2> QED
    BY <1>1, <1>6, <2>1, <2>2, <2>3 DEF Scan, Scanning
<1>8. Search!SearchedAsAlone'
  BY <1>1, FitsStays DEF SearchInv
<1> QED
  BY <1>3, <1>5, <1>7, <1>8 DEF SearchInv

(* The main loop starts a goroutine with the distances of its own start    *)
(* and slides the window.                                                  *)
LEMMA SpawnKeeps == ASSUME SearchInv, Search!Spawn PROVE SearchInv'
<1> DEFINE ct == leadCt[start + 1]
           routine == [state |-> "started", lead |-> ct, end |-> start + SearchLead]
           next == AdjCount(ct, From0[start], From0[start + SearchLead])
<1>1. /\ pc = "spawn" /\ start + SearchLead <= Len(words)
      /\ routines' = Append(routines, routine)
      /\ leadCt' = IF start + SearchLead < Len(words) THEN Append(leadCt, next) ELSE leadCt
      /\ start' = start + 1
      /\ UNCHANGED <<args, i, profiles, words, pc, left, name, dist, got, files>>
  BY SliceIs, SameCounts DEF Search!Spawn, Search!ofArgs, Search!ofGather, Search!leadEnd
<1>2. /\ start \in Nat /\ SearchLead \in Nat \ {0} /\ Len(words) \in Nat /\ LastStart = Len(words) - SearchLead
      /\ words \in Seq(Seq(Alphabet))
  BY SearchTypes
<1>3. start \in 0 .. LastStart /\ LastStart \in Int
  BY <1>1, <1>2
<1>4. /\ leadCt \in Seq(Map)
      /\ \A k \in 0 .. LastStart : k < Len(leadCt) => leadCt[k + 1] = Search!AloneCt[k]
      /\ Len(leadCt) > LastStart \/ Len(leadCt) = start + 1
      /\ left \subseteq DOMAIN profiles
  BY <1>1 DEF SearchInv, LeadMaps, Searching
<1>5. /\ name \in DOMAIN profiles
      /\ routines \in Seq(Routine) /\ Len(routines) = start
      /\ \A k \in 1 .. start : Doing(k)
      /\ DOMAIN dist = {RowOf(k - 1) : k \in Received}
      /\ \A k \in Received : dist[RowOf(k - 1)] = AloneAt(name, k - 1)
      /\ got = Cardinality(Received) /\ got = 0
  BY <1>1 DEF SearchInv, Scan, Scanning
<1>6. ct = Search!AloneCt[start] /\ ct \in Map
  BY <1>2, <1>3, <1>4
<1>7. /\ Search!AloneCt' = Search!AloneCt /\ LastStart' = LastStart
      /\ \A p, k : AloneAt(p, k)' = AloneAt(p, k)
      /\ \A k : RowOf(k)' = RowOf(k)
      /\ \A rt, k, ct1, d1 : Does(rt, k, ct1, d1)' <=> Does(rt, k, ct1, d1)
  BY <1>1, AloneStays, ShiftStays DEF LastStart, AloneAt
<1>8. SearchTyped'
  BY <1>1, <1>2 DEF SearchInv, SearchTyped
<1>9. /\ leadCt' \in Seq(Map)
      /\ \A k \in 0 .. LastStart : k < Len(leadCt') => leadCt'[k + 1] = Search!AloneCt[k]
      /\ Len(leadCt') > LastStart \/ Len(leadCt') = start + 2
  <2>1. CASE start + SearchLead < Len(words)
    <3>1. start \in 0 .. Len(words) - 1 /\ start + SearchLead \in 0 .. Len(words) - 1
      BY <1>2, <2>1
    <3>2. From0[start] \in Seq(Alphabet) /\ From0[start + SearchLead] \in Seq(Alphabet)
      BY <1>2, <3>1 DEF From0, SliceOf
    <3>3. next \in Map
      BY <1>6, <3>2, AdjustType DEF Map
    <3>4. next = Search!AloneCt[start + 1]
      BY <1>2, <1>6, AloneSteps
    <3> HIDE DEF next
    <3>5. leadCt' = Append(leadCt, next)
      BY <1>1, <2>1
    <3>6. /\ leadCt' \in Seq(Map) /\ Len(leadCt') = Len(leadCt) + 1 /\ Len(leadCt) \in Nat
          /\ \A j \in 1 .. Len(leadCt) : leadCt'[j] = leadCt[j]
          /\ leadCt'[Len(leadCt) + 1] = next
      BY <1>4, <3>3, <3>5
    <3>7. ASSUME NEW k \in 0 .. LastStart, k < Len(leadCt') PROVE leadCt'[k + 1] = Search!AloneCt[k]
      <4>1. CASE k < Len(leadCt)
        <5>1. k + 1 \in 1 .. Len(leadCt)
          BY <3>6, <4>1
        <5> QED
          BY <1>4, <3>6, <4>1, <5>1
      <4>2. CASE ~ (k < Len(leadCt))
        <5>1. k = Len(leadCt) /\ Len(leadCt) <= LastStart
          BY <1>3, <3>6, <3>7, <4>2
        <5>2. Len(leadCt) = start + 1
          BY <1>3, <1>4, <3>6, <5>1
        <5> QED
          BY <3>4, <3>6, <5>1, <5>2
      <4> QED
        BY <4>1, <4>2
    <3>8. Len(leadCt') > LastStart \/ Len(leadCt') = start + 2
      BY <1>2, <1>3, <1>4, <3>6
    <3> QED
      BY <3>6, <3>7, <3>8
  <2>2. CASE ~ (start + SearchLead < Len(words))
    <3>1. leadCt' = leadCt /\ start = LastStart
      BY <1>1, <1>2, <2>2
    <3>2. Len(leadCt) > LastStart
      BY <1>2, <1>4, <3>1
    <3> QED
      BY <1>4, <3>1, <3>2
  <2> QED
    BY <2>1, <2>2
<1>10. LeadMaps'
  <2>1. start' = 0 \/ start' <= LastStart' + 1
    BY <1>1, <1>3, <1>7
  <2> HIDE DEF next
  <2>2. Len(leadCt') > LastStart' \/ Len(leadCt') = start' + 1
    BY <1>1, <1>2, <1>7, <1>9
  <2>3. /\ leadCt' \in Seq(Map)
        /\ \A k \in 0 .. LastStart' : k < Len(leadCt') => leadCt'[k + 1] = Search!AloneCt'[k]
    BY <1>7, <1>9
  <2>4. left' \subseteq DOMAIN profiles' /\ pc' = "spawn"
    BY <1>1, <1>4
  <2> QED
    BY <2>1, <2>2, <2>3, <2>4 DEF LeadMaps
<1>11. routine \in Routine
  BY <1>2, <1>6 DEF Routine
<1> HIDE DEF routine, next, ct
<1>12. /\ routines' \in Seq(Routine) /\ Len(routines') = start' /\ start' = start + 1
       /\ \A k \in 1 .. start : routines'[k] = routines[k]
       /\ routines'[start + 1] = routine
  BY <1>1, <1>2, <1>5, <1>11
<1>13. \A k \in 1 .. start : Does(routines'[k], k - 1, Search!AloneCt[k - 1], AloneAt(name, k - 1))
  BY <1>5, <1>12 DEF Doing
<1>14. Does(routines'[start + 1], (start + 1) - 1, Search!AloneCt[(start + 1) - 1], AloneAt(name, (start + 1) - 1))
  <2>1. (start + 1) - 1 = start
    BY <1>2
  <2>2. Does(routines'[start + 1], start, Search!AloneCt[start], AloneAt(name, start))
    BY <1>6, <1>12 DEF routine, Does
  <2> QED
    BY <2>1, <2>2, Zenon
<1>15. Received' = Received
  <2>1. routines'[start + 1] # [state |-> "gone"]
    <3>1. routine.lead = ct /\ routine # [state |-> "gone"]
      BY DEF routine
    <3> QED
      BY <1>12, <3>1
  <2>2. \A k : k \in 1 .. start' <=> k \in 1 .. start \/ k = start + 1
    BY <1>2, <1>12
  <2> QED
    BY <1>12, <2>1, <2>2 DEF Received
<1>16. Scan'
  <2>1. \A k \in 1 .. start' : k \in 1 .. start \/ k = start + 1
    BY <1>2, <1>12
  <2>2. \A k \in 1 .. start' : Does(routines'[k], k - 1, Search!AloneCt[k - 1], AloneAt(name, k - 1))
    BY <1>13, <1>14, <2>1
  <2> QED
    BY <1>1, <1>5, <1>7, <1>12, <1>15, <2>2 DEF Scan, Scanning, Doing
<1>17. Search!SearchedAsAlone'
  BY <1>1, FitsStays DEF SearchInv
<1> QED
  BY <1>8, <1>10, <1>16, <1>17 DEF SearchInv

LEMMA SpawnEndsKeeps == ASSUME SearchInv, Search!SpawnEnds PROVE SearchInv'
<1>1. /\ pc = "spawn" /\ start + SearchLead > Len(words) /\ pc' = (IF 0 = start THEN "dump" ELSE "gather")
      /\ UNCHANGED <<args, i, profiles, words, left, name, start, leadCt, routines, dist, got, files>>
  BY DEF Search!SpawnEnds, Search!Collected, Search!ofArgs, Search!ofWindow, Search!ofGather, Search!leadEnd,
         Search!N
<1>2. start > LastStart
  BY <1>1, SearchTypes
<1>3. /\ Search!AloneCt' = Search!AloneCt /\ LastStart' = LastStart
      /\ \A p, k : AloneAt(p, k)' = AloneAt(p, k)
      /\ \A k : RowOf(k)' = RowOf(k)
      /\ \A rt, k, ct1, d1 : Does(rt, k, ct1, d1)' <=> Does(rt, k, ct1, d1)
  BY <1>1, AloneStays, ShiftStays DEF LastStart, AloneAt
<1>4. SearchTyped'
  BY <1>1 DEF SearchInv, SearchTyped
<1>5. LeadMaps'
  BY <1>1, <1>2, <1>3 DEF SearchInv, LeadMaps, Searching
<1>6. Received' = Received
  BY <1>1 DEF Received
<1>7. Scan'
  <2>1. Scan /\ got = 0
    BY <1>1 DEF SearchInv, Scan, Scanning
  <2> QED
    BY <1>1, <1>3, <1>6, <2>1 DEF Scan, Scanning, Doing
<1>8. Search!SearchedAsAlone'
  BY <1>1, FitsStays DEF SearchInv
<1> QED
  BY <1>4, <1>5, <1>7, <1>8 DEF SearchInv

LEMMA SearchEndsKeeps == ASSUME SearchInv, Search!SearchEnds PROVE SearchInv'
<1>1. /\ pc = "search" /\ pc' = "end"
      /\ UNCHANGED <<args, i, profiles, words, start, files>>
  BY DEF Search!SearchEnds, Search!ofArgs, Search!ofWindow
<1>2. SearchTyped'
  BY <1>1 DEF SearchInv, SearchTyped
<1>3. LeadMaps' /\ Scan'
  BY <1>1 DEF LeadMaps, Scan, Searching, Scanning
<1>4. Search!SearchedAsAlone'
  BY <1>1, FitsStays DEF SearchInv
<1> QED
  BY <1>2, <1>3, <1>4 DEF SearchInv

LEMMA UnchangedKeeps == ASSUME SearchInv, UNCHANGED Search!vars PROVE SearchInv'
<1>1. UNCHANGED <<args, i, profiles, words, pc, left, name, start, leadCt, routines, dist, got, files>>
  BY DEF Search!vars
<1>2. /\ Search!AloneCt' = Search!AloneCt /\ LastStart' = LastStart
      /\ \A p, k : AloneAt(p, k)' = AloneAt(p, k)
      /\ \A k : RowOf(k)' = RowOf(k)
      /\ \A rt, k, ct1, d1 : Does(rt, k, ct1, d1)' <=> Does(rt, k, ct1, d1)
  BY <1>1, AloneStays, ShiftStays DEF LastStart, AloneAt
<1>3. SearchTyped'
  BY <1>1 DEF SearchInv, SearchTyped
<1>4. LeadMaps'
  BY <1>1, <1>2 DEF SearchInv, LeadMaps, Searching
<1>5. Received' = Received
  BY <1>1 DEF Received
<1>6. Scan'
  BY <1>1, <1>2, <1>5 DEF SearchInv, Scan, Scanning, Doing
<1>7. Search!SearchedAsAlone'
  BY <1>1, FitsStays DEF SearchInv
<1> QED
  BY <1>3, <1>4, <1>6, <1>7 DEF SearchInv

LEMMA DumpKeeps == ASSUME SearchInv, Search!Dump PROVE SearchInv'
<1> DEFINE file == [subs |-> [n \in SubLengths |-> Search!Column(n)], mul |-> Search!MulColumn]
<1>1. /\ pc = "dump" /\ (files' = Search!Put(files, name, file) \/ files' = files)
      /\ \/ pc' = "search" /\ start' = 0
         \/ pc' \in {"exit", "panic"} /\ start' = start
      /\ UNCHANGED <<args, i, profiles, words, left, leadCt>>
  BY DEF Search!Dump, Search!ofArgs
<1>2. FileFits(Len(words), AloneOf(name), file)
  BY <1>1, DumpFits
<1> HIDE DEF file
<1>3. \A p : AloneOf(p)' = AloneOf(p)
  BY <1>1, AloneOfStays
<1>4. \A p \in DOMAIN files : FileFits(Len(words), AloneOf(p), files[p])
  BY AloneParts DEF SearchInv
<1>5. \/ /\ DOMAIN files' = DOMAIN files \cup {name}
         /\ \A p \in DOMAIN files' : files'[p] = IF p = name THEN file ELSE files[p]
      \/ files' = files
  BY <1>1 DEF Search!Put
<1>6. \A p \in DOMAIN files' : FileFits(Len(words), AloneOf(p), files'[p])
  BY <1>2, <1>4, <1>5
<1>7. Search!SearchedAsAlone'
  BY <1>1, <1>3, <1>6, AlonePartsNext
<1>8. SearchTyped'
  BY <1>1 DEF SearchInv, SearchTyped
<1>9. LeadMaps'
  <2>1. Search!AloneCt' = Search!AloneCt /\ LastStart' = LastStart
    BY <1>1, AloneStays DEF LastStart
  <2>2. /\ leadCt \in Seq(Map)
        /\ \A k \in 0 .. LastStart : k < Len(leadCt) => leadCt[k + 1] = Search!AloneCt[k]
        /\ Len(leadCt) > LastStart \/ Len(leadCt) = start + 1
        /\ start > LastStart /\ left \subseteq DOMAIN profiles
    BY <1>1 DEF SearchInv, LeadMaps, Searching
  <2>3. Len(leadCt) > LastStart
    BY <2>2, SearchTypes
  <2> QED
    BY <1>1, <2>1, <2>2, <2>3 DEF LeadMaps, Searching
<1>10. Scan'
  BY <1>1 DEF Scan, Scanning
<1> QED
  BY <1>7, <1>8, <1>9, <1>10 DEF SearchInv

(* While there are goroutines, the window is at work. *)
LEMMA RoutineAt ==
    ASSUME SearchInv, pc \in Scanning, NEW k \in DOMAIN routines
    PROVE  /\ routines \in Seq(Routine) /\ Len(routines) = start /\ DOMAIN routines = 1 .. start
           /\ k \in 1 .. start /\ k - 1 \in Nat /\ (k - 1) + 1 = k
           /\ Does(routines[k], k - 1, Search!AloneCt[k - 1], AloneAt(name, k - 1))
           /\ k - 1 \in 0 .. LastStart /\ Search!AloneCt[k - 1] \in Map
           /\ AloneAt(name, k - 1) \in [SubLengths -> Nat]
<1>1. routines \in Seq(Routine) /\ Len(routines) = start /\ name \in DOMAIN profiles /\ \A j \in 1 .. start : Doing(j)
  BY DEF SearchInv, Scan
<1>2. start = 0 \/ start <= LastStart + 1
  BY DEF SearchInv, LeadMaps, Searching, Scanning
<1>3. DOMAIN routines = 1 .. start /\ k \in 1 .. start
  BY <1>1
<1>4. k - 1 \in 0 .. LastStart /\ k - 1 \in Nat /\ (k - 1) + 1 = k
  <2>1. start \in Nat /\ LastStart \in Int
    BY SearchTypes
  <2> QED
    BY <1>2, <1>3, <2>1
<1>5. Search!AloneCt[k - 1] \in Map /\ AloneAt(name, k - 1) \in [SubLengths -> Nat]
  BY <1>1, <1>4, SearchTypes, AloneType, AloneAtType
<1> QED
  BY <1>1, <1>3, <1>4, <1>5 DEF Doing

(* A state of a goroutine says which of the three records it is. *)
LEMMA RoutineStates ==
    ASSUME NEW routine, NEW k, NEW ct, NEW d, Does(routine, k, ct, d)
    PROVE  /\ routine.state = "started" =>
                 routine = [state |-> "started", lead |-> ct, end |-> k + SearchLead]
           /\ routine.state = "sending" =>
                 routine = [state |-> "sending", pos |-> k + SearchLead + Search!Shift, dist |-> d]
           /\ routine = [state |-> "gone"] => routine.state = "gone"
<1>1. [state |-> "started", lead |-> ct, end |-> k + SearchLead].state = "started"
      /\ [state |-> "sending", pos |-> k + SearchLead + Search!Shift, dist |-> d].state = "sending"
      /\ [state |-> "gone"].state = "gone"
  OBVIOUS
<1>2. "started" # "sending" /\ "started" # "gone" /\ "sending" # "gone"
  OBVIOUS
<1> QED
  BY <1>1, <1>2, Zenon DEF Does

(* A goroutine computes and sends the distance of its own start. *)
LEMMA ComputeKeeps ==
    ASSUME SearchInv, pc \in Scanning, NEW k \in DOMAIN routines, Search!Compute(k) PROVE SearchInv'
<1> DEFINE ct == Search!AloneCt[k - 1]
           d == AloneAt(name, k - 1)
           sending == [state |-> "sending", pos |-> k - 1 + SearchLead + Search!Shift, dist |-> d]
<1>1. /\ UNCHANGED <<args, i, profiles, words, pc, left, name, start, leadCt, dist, got, files>>
      /\ routines[k].state = "started"
      /\ routines' = [routines EXCEPT ![k] =
            [state |-> "sending", pos |-> routines[k].end + Search!Shift, dist |-> Search!Distances(profiles[name], routines[k].lead)]]
  BY DEF Search!Compute, Search!ofArgs, Search!ofGather
<1>2. routines[k] = [state |-> "started", lead |-> ct, end |-> k - 1 + SearchLead]
  BY <1>1, RoutineAt, RoutineStates
<1>3. routines[k].lead = ct /\ routines[k].end = k - 1 + SearchLead
  BY <1>2
<1>4. Search!Distances(profiles[name], routines[k].lead) = d
  BY <1>3 DEF AloneAt
<1>5. sending \in Routine
  <2>1. k - 1 \in Nat /\ d \in [SubLengths -> Nat]
    BY RoutineAt
  <2>2. k - 1 + SearchLead + Search!Shift \in Int
    BY <2>1, SearchTypes
  <2> HIDE DEF d
  <2> QED
    BY <2>1, <2>2 DEF Routine
<1>6. routines' = [routines EXCEPT ![k] = sending]
  BY <1>1, <1>3, <1>4
<1>s. Does(sending, k - 1, ct, d)
  BY DEF Does
<1>g. sending # [state |-> "gone"]
  <2>1. sending.state = "sending" /\ [state |-> "gone"].state = "gone"
    OBVIOUS
  <2> HIDE DEF sending
  <2> QED
    BY <2>1
<1> HIDE DEF sending
<1>7. /\ routines' \in Seq(Routine) /\ Len(routines') = start
      /\ \A j \in 1 .. start : routines'[j] = IF j = k THEN sending ELSE routines[j]
  BY <1>5, <1>6, RoutineAt
<1>8. /\ Search!AloneCt' = Search!AloneCt /\ LastStart' = LastStart
      /\ \A p, j : AloneAt(p, j)' = AloneAt(p, j)
      /\ \A j : RowOf(j)' = RowOf(j)
      /\ \A routine, j, ct1, d1 : Does(routine, j, ct1, d1)' <=> Does(routine, j, ct1, d1)
  BY <1>1, AloneStays, ShiftStays DEF LastStart, AloneAt
<1>9. SearchTyped'
  BY <1>1 DEF SearchInv, SearchTyped
<1>10. LeadMaps'
  BY <1>1, <1>8 DEF SearchInv, LeadMaps
<1>11. Received' = Received
  <2>1. routines[k] # [state |-> "gone"]
    BY <1>1
  <2> QED
    BY <1>1, <1>7, <1>g, <2>1 DEF Received
<1>12. Scan'
  <2>1. /\ name \in DOMAIN profiles /\ \A j \in 1 .. start : Doing(j)
        /\ DOMAIN dist = {RowOf(j - 1) : j \in Received}
        /\ \A j \in Received : dist[RowOf(j - 1)] = AloneAt(name, j - 1)
        /\ got = Cardinality(Received) /\ (pc = "spawn" => got = 0) /\ (pc = "dump" => got = start)
    BY DEF SearchInv, Scan
  <2>2. \A j \in 1 .. start : Does(routines'[j], j - 1, Search!AloneCt[j - 1], AloneAt(name, j - 1))
    BY <1>7, <1>s, <2>1 DEF Doing
  <2> HIDE DEF ct, d
  <2> QED
    BY <1>1, <1>7, <1>8, <1>11, <2>1, <2>2 DEF Scan, Doing
<1>13. Search!SearchedAsAlone'
  BY <1>1, FitsStays DEF SearchInv
<1> QED
  BY <1>9, <1>10, <1>12, <1>13 DEF SearchInv

(* What is received is stored at the place of its start. *)
LEMMA ReceiveKeeps ==
    ASSUME SearchInv, NEW k \in DOMAIN routines, Search!Receive(k) PROVE SearchInv'
<1> DEFINE ct == Search!AloneCt[k - 1]
           d == AloneAt(name, k - 1)
           gone == [state |-> "gone"]
<1>1. /\ UNCHANGED <<args, i, profiles, words, left, name, start, leadCt, files>>
      /\ pc = "gather" /\ routines[k].state = "sending"
      /\ dist' = Search!Put(dist, routines[k].pos - 1, routines[k].dist)
      /\ routines' = [routines EXCEPT ![k] = gone]
      /\ got' = got + 1 /\ pc' = (IF got + 1 = start THEN "dump" ELSE "gather")
  BY DEF Search!Receive, Search!ofArgs, Search!Collected
<1>t. pc \in Scanning /\ pc' \in {"gather", "dump"} /\ pc' \in Scanning
  BY <1>1 DEF Scanning
<1>2. routines[k] = [state |-> "sending", pos |-> k - 1 + SearchLead + Search!Shift, dist |-> d]
  BY <1>1, <1>t, RoutineAt, RoutineStates
<1>3. routines[k].dist = d /\ routines[k].pos = k - 1 + SearchLead + Search!Shift
  BY <1>2
<1>4. dist' = Search!Put(dist, RowOf(k - 1), d)
  <2>1. routines[k].pos - 1 = RowOf(k - 1)
    <3>1. k - 1 \in Nat /\ SearchLead \in Nat /\ Search!Shift \in Int
      BY <1>t, RoutineAt, SearchTypes
    <3> QED
      BY <1>3, <3>1 DEF RowOf
  <2> HIDE DEF d
  <2> QED
    BY <1>1, <1>3, <2>1, Zenon
<1>5. gone \in Routine /\ Does(gone, k - 1, ct, d)
  BY DEF Routine, Does
<1>6. /\ routines' \in Seq(Routine) /\ Len(routines') = start
      /\ \A j \in 1 .. start : routines'[j] = IF j = k THEN gone ELSE routines[j]
  <2> HIDE DEF gone
  <2> QED
    BY <1>1, <1>t, <1>5, RoutineAt
<1>7. /\ Search!AloneCt' = Search!AloneCt /\ LastStart' = LastStart
      /\ \A p, j : AloneAt(p, j)' = AloneAt(p, j)
      /\ \A j : RowOf(j)' = RowOf(j)
      /\ \A routine, j, ct1, d1 : Does(routine, j, ct1, d1)' <=> Does(routine, j, ct1, d1)
  BY <1>1, AloneStays, ShiftStays DEF LastStart, AloneAt
<1>8. SearchTyped'
  BY <1>1 DEF SearchInv, SearchTyped
<1>9. LeadMaps'
  <2>1. LeadMaps /\ start > LastStart
    BY <1>1 DEF SearchInv, LeadMaps, Searching
  <2> QED
    BY <1>1, <1>t, <1>7, <2>1 DEF LeadMaps, Searching
<1>10. k \in 1 .. start /\ k \notin Received
  <2>1. routines[k] # gone
    BY <1>1
  <2> QED
    BY <1>t, <2>1, RoutineAt DEF Received
<1>11. Received' = Received \cup {k}
  BY <1>1, <1>6, <1>10 DEF Received
<1>12. /\ name \in DOMAIN profiles /\ \A j \in 1 .. start : Doing(j)
       /\ DOMAIN dist = {RowOf(j - 1) : j \in Received}
       /\ \A j \in Received : dist[RowOf(j - 1)] = AloneAt(name, j - 1)
       /\ got = Cardinality(Received)
  BY <1>t DEF SearchInv, Scan
<1>13. got' = Cardinality(Received') /\ (pc' = "dump" => got' = start')
  <2>1. IsFiniteSet(Received)
    <3>1. IsFiniteSet(1 .. start)
      BY SearchTypes, FS_Interval
    <3>2. Received \subseteq 1 .. start
      BY DEF Received
    <3> QED
      BY <3>1, <3>2, FS_Subset
  <2>2. Cardinality(Received \cup {k}) = Cardinality(Received) + 1
    BY <1>10, <2>1, FS_AddElement
  <2> QED
    BY <1>1, <1>11, <1>12, <2>2
<1>14. \A j \in Received : RowOf(j - 1) # RowOf(k - 1)
  <2>1. Received \subseteq Nat /\ k \in Nat /\ SearchLead \in Nat /\ Search!Shift \in Int
    <3>1. start \in Nat /\ SearchLead \in Nat /\ Search!Shift \in Int
      BY SearchTypes
    <3> QED
      BY <1>10, <3>1 DEF Received
  <2>2. \A j \in Received : j # k
    BY <1>10
  <2> QED
    BY <2>1, <2>2 DEF RowOf
<1>15. DOMAIN dist' = {RowOf(j - 1) : j \in Received'} /\ \A j \in Received' : dist'[RowOf(j - 1)] = AloneAt(name, j - 1)
  <2> HIDE DEF d
  <2>1. DOMAIN dist' = DOMAIN dist \cup {RowOf(k - 1)}
        /\ \A r \in DOMAIN dist' : dist'[r] = IF r = RowOf(k - 1) THEN d ELSE dist[r]
    BY <1>4 DEF Search!Put
  <2>2. DOMAIN dist' = {RowOf(j - 1) : j \in Received'}
    BY <1>11, <1>12, <2>1
  <2>3. dist'[RowOf(k - 1)] = d
    BY <2>1
  <2>4. \A j \in Received : dist'[RowOf(j - 1)] = dist[RowOf(j - 1)]
    BY <1>12, <1>14, <2>1
  <2> QED
    BY <1>11, <1>12, <2>2, <2>3, <2>4 DEF d
<1>16. \A j \in 1 .. start : Does(routines'[j], j - 1, Search!AloneCt[j - 1], AloneAt(name, j - 1))
  BY <1>5, <1>6, <1>12 DEF Doing
<1>17. Scan'
  <2> HIDE DEF ct, d, gone
  <2>1. \A j \in 1 .. start' : Doing(j)'
    BY <1>1, <1>7, <1>16 DEF Doing
  <2>2. name' = name /\ \A j : RowOf(j - 1)' = RowOf(j - 1) /\ AloneAt(name, j - 1)' = AloneAt(name, j - 1)
    BY <1>1, <1>7
  <2>3. DOMAIN dist' = {RowOf(j - 1)' : j \in Received'} /\ \A j \in Received' : dist'[RowOf(j - 1)'] = AloneAt(name, j - 1)'
    BY <1>15, <2>2
  <2> QED
    BY <1>1, <1>t, <1>6, <1>12, <1>13, <2>1, <2>3 DEF Scan
<1>18. Search!SearchedAsAlone'
  BY <1>1, FitsStays DEF SearchInv
<1> QED
  BY <1>8, <1>9, <1>17, <1>18 DEF SearchInv

LEMMA InitSearch == ASSUME Search!Init PROVE SearchInv
<1>1. /\ args \in Commands /\ i = 1 /\ profiles = <<>> /\ words = <<>> /\ pc = "args" /\ start = 0 /\ files = <<>>
  BY DEF Search!Init
<1>2. DOMAIN files = {} /\ DOMAIN profiles = {} /\ words \in Seq(Seq(Alphabet))
  BY <1>1
<1>3. SearchTyped
  BY <1>1, <1>2 DEF SearchTyped
<1>4. LeadMaps /\ Scan
  BY <1>1 DEF LeadMaps, Scan, Searching, Scanning
<1>5. Search!SearchedAsAlone
  BY <1>2, AloneParts
<1> QED
  BY <1>3, <1>4, <1>5 DEF SearchInv

LEMMA NextSearch == ASSUME SearchInv, Search!Next PROVE SearchInv'
<1>1. CASE Search!Argument
  BY <1>1, ArgumentKeeps
<1>2. CASE Search!FirstWindow
  BY <1>2, FirstWindowKeeps
<1>3. ASSUME NEW n \in left, Search!NextProfile(n) PROVE SearchInv'
  BY <1>3, NextProfileKeeps
<1>4. CASE Search!Spawn
  BY <1>4, SpawnKeeps
<1>5. CASE Search!SpawnEnds
  BY <1>5, SpawnEndsKeeps
<1>6. CASE Search!Dump
  BY <1>6, DumpKeeps
<1>7. CASE Search!SearchEnds
  BY <1>7, SearchEndsKeeps
<1>8. ASSUME NEW k \in DOMAIN routines, Search!Compute(k) PROVE SearchInv'
  <2>1. CASE pc \in Scanning
    BY <1>8, <2>1, ComputeKeeps
  <2>2. CASE pc \notin Scanning
    <3>1. UNCHANGED <<args, i, profiles, words, pc, left, name, start, leadCt, files>>
      BY <1>8 DEF Search!Compute, Search!ofArgs
    <3>2. SearchTyped'
      BY <3>1 DEF SearchInv, SearchTyped
    <3>3. LeadMaps'
      <4>1. Search!AloneCt' = Search!AloneCt /\ LastStart' = LastStart
        BY <3>1, AloneStays DEF LastStart
      <4> QED
        BY <3>1, <4>1 DEF SearchInv, LeadMaps
    <3>4. Scan'
      BY <2>2, <3>1 DEF Scan
    <3>5. Search!SearchedAsAlone'
      BY <3>1, FitsStays DEF SearchInv
    <3> QED
      BY <3>2, <3>3, <3>4, <3>5 DEF SearchInv
  <2> QED
    BY <2>1, <2>2
<1>9. ASSUME NEW k \in DOMAIN routines, Search!Receive(k) PROVE SearchInv'
  BY <1>9, ReceiveKeeps
<1> QED
  BY <1>1, <1>2, <1>3, <1>4, <1>5, <1>6, <1>7, <1>8, <1>9
  DEF Search!Next, Search!Main, Search!Goroutine, Search!Collect

(* profile_search.go:104-180: the file of a profile holds the search for   *)
(* that profile alone, for every command line, series, profiles and        *)
(* windows, and however the goroutines are scheduled.                      *)
THEOREM SearchedAsAloneEver == ScansSpec => []SearchedAsAlone
<1> DEFINE Inv == tool = "search" => SearchInv
<1>1. ScansInit => Inv
  <2> SUFFICES ASSUME ScansInit, tool = "search" PROVE SearchInv
    OBVIOUS
  <2>1. Search!Init
    BY DEF ScansInit
  <2> QED
    BY <2>1, InitSearch
<1>2. Inv /\ [ScansNext]_allVars => Inv'
  <2> SUFFICES ASSUME Inv, [ScansNext]_allVars, tool' = "search" PROVE SearchInv'
    OBVIOUS
  <2>1. CASE ScansNext
    <3>1. tool' = tool
      BY <2>1 DEF ScansNext, InWindows, InSearch, InSeries, InWords
    <3>2. Search!Next
      BY <2>1, <3>1 DEF ScansNext, InWindows, InSearch, InSeries, InWords
    <3> QED
      BY <3>1, <3>2, NextSearch
  <2>2. CASE UNCHANGED allVars
    <3>1. tool' = tool /\ UNCHANGED Search!vars
      BY <2>2 DEF allVars, vars, ofSearch, Search!vars
    <3> QED
      BY <3>1, UnchangedKeeps
  <2> QED
    BY <2>1, <2>2
<1>3. Inv => SearchedAsAlone
  BY DEF SearchInv, SearchedAsAlone
<1> QED
  BY <1>1, <1>2, <1>3, PTL DEF ScansSpec

----------------------------------------------------------------------------
(* The comparison tools. *)

(* What the tools take of their constants. *)
LEMMA SeriesFacts ==
    /\ SeriesWindow \in Nat \ {0} /\ SeriesUnit \in Nat \ {0} /\ WordSamples \in Nat \ {0} /\ Section \in Nat \ {0}
    /\ IsFiniteSet(Alphabet) /\ 2 \in SubLengths
    /\ \A p \in Tools : Sizes[p] \subseteq Nat
<1>1. Series!SeriesConstants
  BY ScanConstants
<1> QED
  BY <1>1, Zenon DEF Series!SeriesConstants, Series!IsFiniteSet, IsFiniteSet

LEMMA SeriesCounts ==
    \A list, from, to : Series!CountSubwords(list, from, to) = CountSubwords(list, from, to)
<1>1. Series!Subs = Subs
  BY DEF Series!Subs, Subs, Series!GenSubwords, GenSubwords
<1>2. \A w, s : Series!Places(w, s) = Places(w, s)
  BY DEF Series!Places, Places
<1>3. \A S : Series!Cardinality(S) = Cardinality(S)
  BY Zenon DEF Series!Cardinality, Cardinality, Series!IsFiniteSet, IsFiniteSet
<1> QED
  BY <1>1, <1>2, <1>3, Zenon DEF Series!CountSubwords, CountSubwords

(* What both counts are multiples of does not matter for their bitmap.     *)
LEMMA DivScales ==
    ASSUME NEW a \in Nat, NEW m \in Nat \ {0}, NEW u \in Nat \ {0} PROVE (u * a) \div (u * m) = a \div m
<1> DEFINE q == a \div m
           p == (u * a) \div (u * m)
<1>1. q \in Nat /\ m * q <= a /\ a < m * q + m
  BY WholeSymbols
<1>2. u * a \in Nat /\ u * m \in Nat \ {0}
  BY SMT
<1>3. p \in Nat /\ (u * m) * p <= u * a /\ u * a < (u * m) * p + u * m
  <2>1. \A x \in Nat, s \in Nat \ {0} : x \div s \in Nat /\ s * (x \div s) <= x /\ x < s * (x \div s) + s
    BY WholeSymbols
  <2> QED
    BY <1>2, <2>1
<1> HIDE DEF p, q
<1>4. m * p <= a /\ a < m * p + m
  <2>1. m * p \in Nat /\ (u * m) * p = u * (m * p)
    BY <1>3, SMT
  <2>2. \A x, y \in Nat : u * x <= u * y => x <= y
    BY SMT
  <2>3. \A x, y \in Nat : u * x < u * y => x < y
    BY SMT
  <2>4. u * (m * p) + u * m = u * (m * p + m)
    BY <2>1, SMT
  <2> QED
    BY <1>3, <2>1, <2>2, <2>3, <2>4
<1>5. p = q
  <2>1. p <= q
    BY <1>1, <1>3, <1>4, FewerSymbols
  <2>2. q <= p
    BY <1>1, <1>3, <1>4, FewerSymbols
  <2> QED
    BY <1>1, <1>3, <2>1, <2>2
<1> QED
  BY <1>5 DEF p, q

(* Where all values are scaled, the greatest is. *)
LEMMA MostScales ==
    ASSUME NEW S, IsFiniteSet(S), NEW c \in [S -> Nat], NEW u \in Nat \ {0}, NEW f,
           \A s \in S : f[s] = u * c[s]
    PROVE  Most(f, S) = u * Most(c, S)
<1>1. \A s \in S : c[s] \in Nat /\ f[s] = u * c[s] /\ f[s] \in Int
  <2>1. \A a \in Nat : u * a \in Int
    BY SMT
  <2> QED
    BY <2>1
<1>2. /\ Most(f, S) \in Nat /\ (\A x \in S : f[x] <= Most(f, S))
      /\ Most(f, S) = 0 \/ \E x \in S : Most(f, S) = f[x]
  BY <1>1, MostIs
<1>3. /\ Most(c, S) \in Nat /\ (\A x \in S : c[x] <= Most(c, S))
      /\ Most(c, S) = 0 \/ \E x \in S : Most(c, S) = c[x]
  BY <1>1, MostIs
<1>4. \A a, b \in Nat : a <= b => u * a <= u * b
  BY SMT
<1>5. u * Most(c, S) \in Nat
  BY <1>3, SMT
<1>6. Most(f, S) <= u * Most(c, S)
  <2>1. CASE Most(f, S) = 0
    BY <1>5, <2>1
  <2>2. CASE \E x \in S : Most(f, S) = f[x]
    BY <1>1, <1>3, <1>4, <2>2
  <2> QED
    BY <1>2, <2>1, <2>2
<1>7. u * Most(c, S) <= Most(f, S)
  <2>1. CASE Most(c, S) = 0
    BY <1>2, <2>1
  <2>2. CASE \E x \in S : Most(c, S) = c[x]
    BY <1>1, <1>2, <2>2
  <2> QED
    BY <1>3, <2>1, <2>2
<1> QED
  BY <1>2, <1>5, <1>6, <1>7

(* A bitmap of counts in parts of Unit is that of the counts. *)
LEMMA BitmapScales ==
    ASSUME NEW n \in Nat, NEW c, \A s \in Subwords(n) : c[s] \in Nat,
           NEW f, \A s \in Subwords(n) : f[s] = SeriesUnit * c[s]
    PROVE  Series!GenBitmap(f, n) = Series!GenBitmap(c, n)
<1> DEFINE S == Subwords(n)
           g == [s \in S |-> c[s]]
           u == SeriesUnit
<1>1. IsFiniteSet(S) /\ u \in Nat \ {0}
  BY SubwordsFinite, SeriesFacts
<1>2. g \in [S -> Nat] /\ \A s \in S : g[s] = c[s] /\ f[s] = u * g[s]
  OBVIOUS
<1>3. {c[s] : s \in S} = {g[s] : s \in S}
  BY <1>2
<1> HIDE DEF g, S, u
<1>4. Most(f, S) = u * Most(g, S) /\ Most(c, S) = Most(g, S) /\ Most(g, S) \in Nat
  <2>1. Most(f, S) = u * Most(g, S)
    BY <1>1, <1>2, MostScales
  <2>2. Most(c, S) = Most(g, S)
    BY <1>3 DEF Most
  <2>3. \A s \in S : g[s] \in Int
    BY <1>2
  <2> QED
    BY <1>1, <2>1, <2>2, <2>3, MostIs
<1>5. /\ Series!GenBitmap(f, n) = [s \in S |-> IF Most(f, S) = 0 THEN 0 ELSE (f[s] * u) \div Most(f, S)]
      /\ Series!GenBitmap(c, n) = [s \in S |-> IF Most(c, S) = 0 THEN 0 ELSE (c[s] * u) \div Most(c, S)]
  BY DEF Series!GenBitmap, Series!Max, Series!GenSubwords, Subwords, Most, Greatest, S, u
<1> DEFINE m == Most(g, S)
<1>6. ASSUME NEW s \in S
      PROVE  (IF Most(f, S) = 0 THEN 0 ELSE (f[s] * u) \div Most(f, S))
                = IF Most(c, S) = 0 THEN 0 ELSE (c[s] * u) \div Most(c, S)
  <2>1. c[s] \in Nat /\ f[s] = u * c[s]
    BY <1>2
  <2> HIDE DEF m
  <2>2. Most(f, S) = u * m /\ Most(c, S) = m /\ m \in Nat
    BY <1>4 DEF m
  <2>3. (u * m = 0) <=> (m = 0)
    BY <1>1, <2>2, SMT
  <2>4. c[s] * u \in Nat /\ f[s] * u = u * (c[s] * u)
    BY <1>1, <2>1, SMT
  <2>5. m # 0 => (u * (c[s] * u)) \div (u * m) = (c[s] * u) \div m
    <3>1. \A a \in Nat, k \in Nat \ {0} : (u * a) \div (u * k) = a \div k
      BY <1>1, DivScales
    <3> QED
      BY <2>2, <2>4, <3>1
  <2> QED
    BY <2>2, <2>3, <2>4, <2>5, Zenon
<1> QED
  BY <1>5, <1>6

(* The row of a distance: what stands there and does not depend on what    *)
(* was counted before.                                                     *)
RowDistance(r) ==
    IF prog = "tsb" THEN IF r <= SeriesWindow THEN 0 ELSE Series!Apart(r - 1 - SeriesWindow)
    ELSE Series!WordDistance(words[IF prog = "basecomp" THEN 1 ELSE r], words[r + 1])

RowDistances == {RowDistance(r) : r \in Nat}

(* How far a tool can go. *)
Passes == IF prog = "tsb" THEN Len(words) - 2 * SeriesWindow ELSE Len(words) - 1

SeriesTyped ==
    /\ prog \in Tools /\ size \in Nat
    /\ words \in [1 .. Series!WordCount(size) -> Series!WordsOf(prog)]
    /\ i \in Nat /\ most \in Nat /\ (i = 0 \/ i <= Passes)
    /\ lagCt = Series!Nothing /\ leadCt = Series!Nothing
    /\ distances \in Seq(RowDistances) /\ out \in Seq(RowDistances) /\ maxout \in Seq(RowDistances)

Running == {"scan", "write", "plot", "writemax", "end"}
Written == {"plot", "writemax", "end"}

Rows ==
    /\ \A r \in 1 .. Len(distances) : distances[r] = RowDistance(r)
    /\ prog = "tsb" => \A r \in 1 .. Len(distances) : distances[r] \in Nat
    /\ pc = "fetch" => i = 0 /\ most = 0 /\ distances = <<>>
    /\ pc \in Running => Len(distances) = (IF prog = "tsb" THEN SeriesWindow + i ELSE i)
    /\ pc \in Running \ {"scan"} => i >= Passes

Output ==
    /\ Len(out) <= Len(distances) /\ \A r \in 1 .. Len(out) : out[r] = distances[r]
    /\ pc \in Written => out = distances

(* most is the last row looked at that is not 0, if there is one. *)
Marked ==
    prog = "tsb" /\ pc \in Running =>
        /\ \A k \in most + 2 .. i : distances[k] = 0
        /\ (most < i /\ distances[most + 1] > 0) \/ \A k \in 1 .. i : distances[k] = 0

Marks == prog = "tsb" /\ pc = "end" =>
    maxout = SubSeq(distances, most + 1, IF most + SeriesWindow < Len(distances) THEN most + SeriesWindow ELSE Len(distances))

SeriesInv == SeriesTyped /\ Rows /\ Output /\ Marked /\ Marks

(* The counts of a window, in parts of Unit, are compared as such. *)
LEMMA CountsOnTop ==
    ASSUME SeriesTyped, prog = "tsb", NEW from \in Nat, NEW to \in Nat, to <= Len(words)
    PROVE  /\ Series!ComputeBitmap(Series!CountedOnTop(Series!Nothing, from, to))
                 = Series!ComputeBitmap(Series!CountSubwords(Series!Slice, from, to))
           /\ Series!ComputeBitmap(Series!CountSubwords(Series!Slice, from, to)) \in [Subwords(2) -> Int]
<1> DEFINE c == CountSubwords(Series!Slice, from, to)
           f == Series!CountedOnTop(Series!Nothing, from, to)
<1>1. /\ words \in [1 .. Series!WordCount(size) -> Series!WordsOf(prog)] /\ Series!WordCount(size) \in Nat
      /\ Len(words) \in Nat /\ DOMAIN words = 1 .. Len(words)
  <2>1. Series!WordCount(size) \in Nat
    BY SeriesFacts DEF Series!WordCount, SeriesTyped
  <2> QED
    BY <2>1 DEF SeriesTyped
<1>2. Series!WordsOf(prog) \subseteq Seq(Alphabet)
  <2>1. WordSamples \div Section \in Nat
    BY SeriesFacts, WholeSymbols
  <2> DEFINE n == WordSamples \div Section
  <2>2. Series!WordsOf(prog) = [1 .. n -> Alphabet]
    BY DEF Series!WordsOf, Series!SymbolsOfWord, Series!GenSubwords
  <2> HIDE DEF n
  <2>3. n \in Nat
    BY <2>1 DEF n
  <2> QED
    BY <2>2, <2>3
<1>3. \A k \in from .. to - 1 : Series!Slice[k] \in Seq(Alphabet)
  <2>1. \A k \in 0 .. Len(words) - 1 : k + 1 \in 1 .. Len(words) /\ words[k + 1] \in Seq(Alphabet)
    BY <1>1, <1>2
  <2>2. \A k \in from .. to - 1 : k \in 0 .. Len(words) - 1
    BY <1>1
  <2> QED
    BY <2>1, <2>2 DEF Series!Slice
<1>4. Subwords(2) \subseteq Subs
  BY SeriesFacts DEF Subwords, Subs, GenSubwords
<1>5. \A s \in Subwords(2) : c[s] \in Nat
  <2> SUFFICES ASSUME NEW s \in Subwords(2) PROVE c[s] \in Nat
    OBVIOUS
  <2>1. s \in Subs
    BY <1>4
  <2>2. Cardinality(Window(Series!Slice, s, from, to)) \in Nat
    BY <1>3, <2>1, WindowFinite
  <2> QED
    BY <2>1, <2>2, CountIsCardinality
<1>6. Series!CountSubwords(Series!Slice, from, to) = c
  BY SeriesCounts
<1> HIDE DEF c
<1>7. \A s \in Subwords(2) : f[s] = SeriesUnit * c[s]
  <2>1. f = [s \in Subwords(2) |-> Series!Nothing[s] + SeriesUnit * c[s]]
    BY <1>6 DEF Series!CountedOnTop, Series!GenSubwords, Subwords
  <2>2. Series!Nothing = [s \in Subwords(2) |-> 0]
    BY DEF Series!Nothing, Series!GenSubwords, Subwords
  <2>3. \A a \in Nat : SeriesUnit * a \in Int
    BY SeriesFacts, SMT
  <2> HIDE DEF f
  <2> QED
    BY <1>5, <2>1, <2>2, <2>3
<1> HIDE DEF f
<1>8. Series!GenBitmap(f, 2) = Series!GenBitmap(c, 2)
  BY <1>5, <1>7, BitmapScales
<1>9. Series!GenBitmap(c, 2) \in [Subwords(2) -> Int]
  BY <1>5, SeriesFacts, BitmapType
<1> QED
  BY <1>6, <1>8, <1>9 DEF Series!ComputeBitmap, f

(* The distance of two windows by what their maps hold is that of their    *)
(* counts.                                                                 *)
LEMMA WindowDistance ==
    ASSUME SeriesTyped, prog = "tsb", i < Len(words) - 2 * SeriesWindow
    PROVE  /\ Series!BitmapDistance(
                 Series!ComputeBitmap(Series!CountedOnTop(lagCt, i, i + SeriesWindow)),
                 Series!ComputeBitmap(Series!CountedOnTop(leadCt, i + SeriesWindow + 1, i + 2 * SeriesWindow)), 2)
                 = Series!Apart(i)
           /\ Series!Apart(i) \in Nat
<1> DEFINE w == SeriesWindow
           lag == Series!ComputeBitmap(Series!CountSubwords(Series!Slice, i, i + w))
           lead == Series!ComputeBitmap(Series!CountSubwords(Series!Slice, i + w + 1, i + 2 * w))
<1>1. i \in Nat /\ w \in Nat \ {0} /\ lagCt = Series!Nothing /\ leadCt = Series!Nothing /\ Len(words) \in Nat
  <2>1. Series!WordCount(size) \in Nat
    BY SeriesFacts DEF Series!WordCount, SeriesTyped
  <2> QED
    BY <2>1, SeriesFacts DEF SeriesTyped
<1>2. i + w \in Nat /\ i + w <= Len(words) /\ i + w + 1 \in Nat /\ i + 2 * w \in Nat /\ i + 2 * w <= Len(words)
  BY <1>1
<1>3. Series!ComputeBitmap(Series!CountedOnTop(lagCt, i, i + w)) = lag /\ lag \in [Subwords(2) -> Int]
  BY <1>1, <1>2, CountsOnTop
<1>4. Series!ComputeBitmap(Series!CountedOnTop(leadCt, i + w + 1, i + 2 * w)) = lead /\ lead \in [Subwords(2) -> Int]
  BY <1>1, <1>2, CountsOnTop
<1>5. Series!Apart(i) = Series!BitmapDistance(lag, lead, 2)
  BY DEF Series!Apart
<1> HIDE DEF lag, lead
<1>6. Series!BitmapDistance(lag, lead, 2) \in Nat
  BY <1>3, <1>4, SeriesFacts, SubwordsFinite, DistanceIsSum
<1> QED
  BY <1>3, <1>4, <1>5, <1>6

(* A row does not change while a series is scanned. *)
LEMMA RowsStay ==
    ASSUME UNCHANGED <<prog, words>>
    PROVE  /\ \A r : RowDistance(r)' = RowDistance(r)
           /\ RowDistances' = RowDistances /\ Passes' = Passes
           /\ Series!WordsOf(prog)' = Series!WordsOf(prog)
<1>1. \A r : RowDistance(r)' = RowDistance(r)
  BY DEF RowDistance, Series!Apart, Series!Slice
<1> QED
  BY <1>1 DEF RowDistances, Passes

LEMMA SeriesTypes ==
    ASSUME SeriesInv
    PROVE  /\ prog \in Tools /\ size \in Nat /\ i \in Nat /\ most \in Nat
           /\ Len(words) \in Nat /\ SeriesWindow \in Nat \ {0} /\ Passes \in Int
           /\ (Len(words) = 0 => words = <<>>)
           /\ distances \in Seq(RowDistances) /\ out \in Seq(RowDistances) /\ maxout \in Seq(RowDistances)
<1>1. Series!WordCount(size) \in Nat
  BY SeriesFacts DEF Series!WordCount, SeriesInv, SeriesTyped
<1>2. words \in [1 .. Series!WordCount(size) -> Series!WordsOf(prog)]
  BY DEF SeriesInv, SeriesTyped
<1>3. words \in Seq(Series!WordsOf(prog)) /\ Len(words) \in Nat /\ (Len(words) = 0 => words = <<>>)
  <2> HIDE DEF Series!WordCount, Series!WordsOf
  <2> QED
    BY <1>1, <1>2
<1> QED
  BY <1>3, SeriesFacts DEF SeriesInv, SeriesTyped, Passes

(* A pass adds the row of its distance. *)
LEMMA PassKeeps ==
    ASSUME SeriesInv, pc = "scan", i < Passes, i' = i + 1, most' \in Nat,
           distances' = Append(distances, RowDistance(Len(distances) + 1)),
           prog = "tsb" => RowDistance(Len(distances) + 1) \in Nat,
           lagCt' = lagCt, leadCt' = leadCt, UNCHANGED <<prog, size, words, pc, out, maxout>>
    PROVE  /\ SeriesTyped' /\ Rows' /\ Output' /\ Marks'
           /\ Len(distances') = Len(distances) + 1 /\ Len(distances) \in Nat
           /\ \A r \in 1 .. Len(distances) : distances'[r] = distances[r]
           /\ distances'[Len(distances) + 1] = RowDistance(Len(distances) + 1)
<1> DEFINE d == RowDistance(Len(distances) + 1)
<1>1. distances \in Seq(RowDistances) /\ Len(distances) \in Nat
  BY SeriesTypes
<1>2. d \in RowDistances
  BY <1>1 DEF RowDistances
<1>3. /\ \A r : RowDistance(r)' = RowDistance(r)
      /\ RowDistances' = RowDistances /\ Passes' = Passes /\ Series!WordsOf(prog)' = Series!WordsOf(prog)
  BY RowsStay
<1> HIDE DEF d
<1>4. distances' = Append(distances, d)
  BY DEF d
<1>5. /\ distances' \in Seq(RowDistances) /\ Len(distances') = Len(distances) + 1
      /\ \A r \in 1 .. Len(distances) : distances'[r] = distances[r]
      /\ distances'[Len(distances) + 1] = d
  BY <1>1, <1>2, <1>4
<1>6. i' \in Nat /\ i' <= Passes /\ i \in Nat
  BY SeriesTypes
<1>7. SeriesTyped'
  <2>1. SeriesTyped
    BY DEF SeriesInv
  <2>2. Series!Nothing' = Series!Nothing
    BY DEF Series!Nothing
  <2>3. words' \in [1 .. Series!WordCount(size') -> Series!WordsOf(prog)']
    BY <1>3, <2>1 DEF SeriesTyped
  <2> QED
    BY <1>3, <1>5, <1>6, <2>1, <2>2, <2>3 DEF SeriesTyped
<1>8. Rows'
  <2>1. Rows
    BY DEF SeriesInv
  <2>2. \A r \in 1 .. Len(distances') : distances'[r] = RowDistance(r)
    <3>1. \A r \in 1 .. Len(distances') : r \in 1 .. Len(distances) \/ r = Len(distances) + 1
      BY <1>1, <1>5
    <3>2. \A r \in 1 .. Len(distances) : distances'[r] = RowDistance(r)
      BY <1>5, <2>1 DEF Rows
    <3>3. distances'[Len(distances) + 1] = RowDistance(Len(distances) + 1)
      BY <1>5 DEF d
    <3> QED
      BY <3>1, <3>2, <3>3
  <2>3. Len(distances') = IF prog = "tsb" THEN SeriesWindow + i' ELSE i'
    <3>1. Len(distances) = IF prog = "tsb" THEN SeriesWindow + i ELSE i
      BY <2>1 DEF Rows, Running
    <3>2. SeriesWindow \in Nat
      BY SeriesFacts
    <3> QED
      BY <1>1, <1>5, <1>6, <3>1, <3>2
  <2>4. prog = "tsb" => \A r \in 1 .. Len(distances') : distances'[r] \in Nat
    <3>1. \A r \in 1 .. Len(distances') : r \in 1 .. Len(distances) \/ r = Len(distances) + 1
      BY <1>1, <1>5
    <3>2. prog = "tsb" => d \in Nat /\ \A r \in 1 .. Len(distances) : distances[r] \in Nat
      BY <2>1 DEF Rows, d
    <3> QED
      BY <1>5, <3>1, <3>2
  <2> QED
    BY <1>3, <2>2, <2>3, <2>4 DEF Rows, Running
<1>9. Output'
  <2>1. out \in Seq(RowDistances) /\ Len(out) \in Nat /\ Len(out) <= Len(distances)
        /\ \A r \in 1 .. Len(out) : out[r] = distances[r]
    BY SeriesTypes DEF SeriesInv, Output
  <2>2. \A r \in 1 .. Len(out) : r \in 1 .. Len(distances)
    BY <1>1, <2>1
  <2>3. \A r \in 1 .. Len(out) : out[r] = distances'[r]
    BY <1>5, <2>1, <2>2
  <2> QED
    BY <1>1, <1>5, <2>1, <2>3 DEF Output, Written
<1>10. Marks'
  BY DEF Marks
<1> QED
  BY <1>1, <1>5, <1>7, <1>8, <1>9, <1>10 DEF d

(* tsb_comp.go:99-132: the distance of the pass goes to its own row. *)
LEMMA WindowPassKeeps == ASSUME SeriesInv, Series!WindowPass PROVE SeriesInv'
<1>1. /\ pc = "scan" /\ prog = "tsb" /\ i < Len(words) - 2 * SeriesWindow
      /\ distances' = Append(distances, Series!BitmapDistance(
                 Series!ComputeBitmap(Series!CountedOnTop(lagCt, i, i + SeriesWindow)),
                 Series!ComputeBitmap(Series!CountedOnTop(leadCt, i + SeriesWindow + 1, i + 2 * SeriesWindow)), 2))
      /\ lagCt' = Series!Nothing /\ leadCt' = Series!Nothing
      /\ most' = (IF distances'[i + 1] > 0 THEN i ELSE most)
      /\ i' = i + 1
      /\ UNCHANGED <<prog, size, words, pc, out, maxout>>
  BY DEF Series!WindowPass, Series!ofSeries
<1>2. SeriesTyped /\ lagCt' = lagCt /\ leadCt' = leadCt
  BY <1>1 DEF SeriesInv, SeriesTyped
<1>3. distances' = Append(distances, Series!Apart(i)) /\ Series!Apart(i) \in Nat
  BY <1>1, <1>2, WindowDistance
<1>4. /\ i \in Nat /\ most \in Nat /\ SeriesWindow \in Nat \ {0} /\ Len(distances) = SeriesWindow + i
      /\ \A r \in 1 .. Len(distances) : distances[r] = RowDistance(r)
  BY <1>1, SeriesTypes DEF SeriesInv, Rows, Running
<1>5. RowDistance(Len(distances) + 1) = Series!Apart(i)
  <2>1. ~ (Len(distances) + 1 <= SeriesWindow) /\ (Len(distances) + 1) - 1 - SeriesWindow = i
    BY <1>4
  <2> QED
    BY <1>1, <2>1 DEF RowDistance
<1>6. most' \in Nat /\ i < Passes
  BY <1>1, <1>4 DEF Passes
<1>7. /\ SeriesTyped' /\ Rows' /\ Output' /\ Marks'
      /\ Len(distances') = Len(distances) + 1 /\ Len(distances) \in Nat
      /\ \A r \in 1 .. Len(distances) : distances'[r] = distances[r]
      /\ distances'[Len(distances) + 1] = RowDistance(Len(distances) + 1)
  BY <1>1, <1>2, <1>3, <1>5, <1>6, PassKeeps
<1>8. Marked'
  <2>1. i + 1 <= Len(distances) + 1 /\ i + 1 \in 1 .. Len(distances)
    BY <1>4
  <2>2. \A r \in 1 .. Len(distances) : distances[r] \in Nat /\ distances'[r] = distances[r]
    BY <1>1, <1>7 DEF SeriesInv, Rows
  <2>3. /\ \A k \in most + 2 .. i : distances[k] = 0
        /\ (most < i /\ distances[most + 1] > 0) \/ \A k \in 1 .. i : distances[k] = 0
    BY <1>1 DEF SeriesInv, Marked, Running
  <2>4. \A k \in 1 .. i + 1 : k \in 1 .. Len(distances)
    BY <1>4
  <2>5. CASE distances'[i + 1] > 0
    <3>1. most' = i /\ distances'[most' + 1] > 0 /\ most' < i'
      BY <1>1, <1>4, <2>5
    <3>2. \A k \in most' + 2 .. i' : FALSE
      BY <1>1, <1>4, <3>1
    <3> QED
      BY <3>1, <3>2 DEF Marked
  <2>6. CASE ~ (distances'[i + 1] > 0)
    <3>1. most' = most /\ i' = i + 1
      BY <1>1, <2>6
    <3>2. distances'[i + 1] = 0
      BY <2>1, <2>2, <2>6
    <3>3. \A k \in most + 2 .. i + 1 : distances'[k] = 0
      <4> SUFFICES ASSUME NEW k \in most + 2 .. i + 1 PROVE distances'[k] = 0
        OBVIOUS
      <4>1. k = i + 1 \/ (k \in most + 2 .. i /\ k \in 1 .. i + 1)
        BY <1>4
      <4> QED
        BY <2>2, <2>3, <2>4, <3>2, <4>1
    <3>4. CASE most < i /\ distances[most + 1] > 0
      <4>1. most + 1 \in 1 .. i + 1
        BY <1>4, <3>4
      <4>2. distances'[most + 1] > 0 /\ most < i + 1
        BY <1>4, <2>2, <2>4, <3>4, <4>1
      <4> QED
        BY <3>1, <3>3, <4>2 DEF Marked
    <3>5. CASE \A k \in 1 .. i : distances[k] = 0
      <4>1. \A k \in 1 .. i + 1 : k \in 1 .. i \/ k = i + 1
        BY <1>4
      <4>2. \A k \in 1 .. i + 1 : distances'[k] = 0
        BY <2>2, <2>4, <3>2, <3>5, <4>1
      <4> QED
        BY <3>1, <3>3, <4>2 DEF Marked
    <3> QED
      BY <2>3, <3>4, <3>5
  <2> QED
    BY <2>5, <2>6
<1> QED
  BY <1>7, <1>8 DEF SeriesInv

LEMMA WordPassKeeps == ASSUME SeriesInv, Series!BasePass \/ Series!NextPass PROVE SeriesInv'
<1>1. /\ pc = "scan" /\ prog # "tsb" /\ i < Len(words) - 1 /\ i' = i + 1
      /\ UNCHANGED <<prog, size, words, pc, lagCt, leadCt, most, out, maxout>>
      /\ distances' = Append(distances, Series!WordDistance(words[IF prog = "basecomp" THEN 1 ELSE i + 1], words[i + 2]))
  BY DEF Series!BasePass, Series!NextPass, Series!ofSeries
<1>2. i \in Nat /\ most \in Nat
  BY SeriesTypes
<1>3. Len(distances) = i
  BY <1>1 DEF SeriesInv, Rows, Running
<1>4. RowDistance(Len(distances) + 1)
         = Series!WordDistance(words[IF prog = "basecomp" THEN 1 ELSE i + 1], words[i + 2])
  <2>1. (i + 1) + 1 = i + 2
    BY <1>2
  <2> QED
    BY <1>1, <1>3, <2>1, Zenon DEF RowDistance
<1>5. distances' = Append(distances, RowDistance(Len(distances) + 1))
  BY <1>1, <1>4, Zenon
<1>6. i < Passes /\ most' \in Nat
  BY <1>1, <1>2 DEF Passes
<1>7. SeriesTyped' /\ Rows' /\ Output' /\ Marks'
  BY <1>1, <1>5, <1>6, PassKeeps
<1>8. Marked'
  BY <1>1 DEF Marked
<1> QED
  BY <1>7, <1>8 DEF SeriesInv

(* The first rows of tsb_comp are 0. *)
LEMMA FetchKeeps == ASSUME SeriesInv, Series!Fetch PROVE SeriesInv'
<1> DEFINE zeros == [k \in 1 .. SeriesWindow |-> 0]
<1>1. /\ pc = "fetch" /\ UNCHANGED <<prog, size, words, i, lagCt, leadCt, most, out, maxout>>
      /\ \/ pc' = "scan" /\ distances' = (IF prog = "tsb" THEN zeros ELSE <<>>)
         \/ pc' = "panic" /\ distances' = distances
  BY DEF Series!Fetch, Series!ofSeries, Series!Panic
<1>2. i = 0 /\ most = 0 /\ distances = <<>>
  BY <1>1 DEF SeriesInv, Rows
<1>3. /\ \A r : RowDistance(r)' = RowDistance(r)
      /\ RowDistances' = RowDistances /\ Passes' = Passes /\ Series!WordsOf(prog)' = Series!WordsOf(prog)
  BY <1>1, RowsStay
<1>4. /\ Len(out) = 0 /\ out \in Seq(RowDistances) /\ SeriesWindow \in Nat \ {0}
  <2>1. Len(distances) = 0
    BY <1>2
  <2> QED
    BY <2>1, SeriesTypes DEF SeriesInv, Output
<1>5. prog = "tsb" => 0 \in RowDistances /\ \A r \in 1 .. SeriesWindow : RowDistance(r) = 0
  <2>1. prog = "tsb" => \A r \in 1 .. SeriesWindow : RowDistance(r) = 0
    BY <1>4 DEF RowDistance
  <2>2. 1 \in 1 .. SeriesWindow
    BY <1>4
  <2> QED
    BY <2>1, <2>2 DEF RowDistances
<1>6. prog = "tsb" => /\ zeros \in Seq(RowDistances) /\ Len(zeros) = SeriesWindow
                      /\ \A r \in 1 .. Len(zeros) : zeros[r] = RowDistance(r) /\ zeros[r] \in Nat
  <2> HIDE DEF RowDistance, RowDistances
  <2> SUFFICES ASSUME prog = "tsb"
               PROVE  /\ zeros \in Seq(RowDistances) /\ Len(zeros) = SeriesWindow
                      /\ \A r \in 1 .. Len(zeros) : zeros[r] = RowDistance(r) /\ zeros[r] \in Nat
    OBVIOUS
  <2>1. zeros \in [1 .. SeriesWindow -> RowDistances]
    BY <1>5
  <2>2. zeros \in Seq(RowDistances) /\ Len(zeros) = SeriesWindow
    BY <1>4, <2>1
  <2> QED
    BY <1>5, <2>2
<1> HIDE DEF zeros
<1>7. /\ distances' \in Seq(RowDistances)
      /\ \A r \in 1 .. Len(distances') : distances'[r] = RowDistance(r)
      /\ prog = "tsb" => \A r \in 1 .. Len(distances') : distances'[r] \in Nat
      /\ pc' = "scan" => Len(distances') = IF prog = "tsb" THEN SeriesWindow + i ELSE i
  <2>1. CASE distances' = <<>> /\ (pc' # "scan" \/ prog # "tsb")
    <3>1. distances' \in Seq(RowDistances) /\ Len(distances') = 0
      BY <2>1
    <3>2. \A r \in 1 .. Len(distances') : FALSE
      BY <3>1
    <3> QED
      BY <1>2, <2>1, <3>1, <3>2
  <2>2. CASE prog = "tsb" /\ distances' = zeros
    <3>1. SeriesWindow + i = SeriesWindow
      BY <1>2, <1>4
    <3> QED
      BY <1>6, <2>2, <3>1
  <2> QED
    BY <1>1, <1>2, <2>1, <2>2
<1>8. SeriesTyped'
  <2>1. SeriesTyped
    BY DEF SeriesInv
  <2>2. Series!Nothing' = Series!Nothing
    BY DEF Series!Nothing
  <2>3. words' \in [1 .. Series!WordCount(size') -> Series!WordsOf(prog)']
    BY <1>1, <1>3, <2>1 DEF SeriesTyped
  <2> QED
    BY <1>1, <1>3, <1>7, <2>1, <2>2, <2>3 DEF SeriesTyped
<1>9. Rows'
  BY <1>1, <1>3, <1>7 DEF Rows, Running
<1>10. Output'
  <2>1. Len(out) <= Len(distances') /\ \A r \in 1 .. Len(out) : FALSE
    BY <1>4, <1>7
  <2> QED
    BY <1>1, <2>1 DEF Output, Written
<1>11. Marked'
  <2>1. \A k \in most + 2 .. i : FALSE
    BY <1>2
  <2>2. \A k \in 1 .. i : FALSE
    BY <1>2
  <2> QED
    BY <1>1, <2>1, <2>2 DEF Marked
<1>12. Marks'
  BY <1>1 DEF Marks
<1> QED
  BY <1>8, <1>9, <1>10, <1>11, <1>12 DEF SeriesInv

(* What goes on from one place of the program to the next, or stops. *)
LEMMA GoesOn ==
    ASSUME SeriesInv, UNCHANGED <<prog, size, words, i, lagCt, leadCt, distances, most>>,
           out' \in Seq(RowDistances), maxout' \in Seq(RowDistances),
           Len(out') <= Len(distances), \A r \in 1 .. Len(out') : out'[r] = distances[r],
           pc' # "fetch" \/ pc = "fetch", pc' \in Running => pc \in Running, pc' \in Running \ {"scan"} => i >= Passes,
           pc' \in Written => out' = distances, Marks'
    PROVE  SeriesInv'
<1>1. /\ \A r : RowDistance(r)' = RowDistance(r)
      /\ RowDistances' = RowDistances /\ Passes' = Passes /\ Series!WordsOf(prog)' = Series!WordsOf(prog)
  BY RowsStay
<1>2. SeriesTyped /\ Rows /\ Output /\ Marked
  BY DEF SeriesInv
<1>3. SeriesTyped'
  <2>1. Series!Nothing' = Series!Nothing
    BY DEF Series!Nothing
  <2>2. words' \in [1 .. Series!WordCount(size') -> Series!WordsOf(prog)']
    BY <1>1, <1>2 DEF SeriesTyped
  <2> QED
    BY <1>1, <1>2, <2>1, <2>2 DEF SeriesTyped
<1>4. Rows'
  BY <1>1, <1>2 DEF Rows
<1>5. Output'
  BY <1>2 DEF Output
<1>6. Marked'
  BY <1>2 DEF Marked
<1> QED
  BY <1>3, <1>4, <1>5, <1>6 DEF SeriesInv

LEMMA OutputOf ==
    ASSUME SeriesInv
    PROVE  /\ out \in Seq(RowDistances) /\ maxout \in Seq(RowDistances)
           /\ Len(out) <= Len(distances) /\ \A r \in 1 .. Len(out) : out[r] = distances[r]
  BY DEF SeriesInv, SeriesTyped, Output

LEMMA EndsKeep == ASSUME SeriesInv, Series!WindowsEnd \/ Series!WordsEnd PROVE SeriesInv'
<1>1. /\ pc = "scan" /\ pc' \in {"write", "panic"} /\ i >= Passes
      /\ UNCHANGED <<prog, size, words, i, lagCt, leadCt, distances, most, out, maxout>>
  BY DEF Series!WindowsEnd, Series!WordsEnd, Series!ofSeries, Series!ofPass, Series!Panic, Passes
<1>2. pc \in Running /\ pc' \notin Written /\ pc' # "fetch"
  BY <1>1 DEF Running, Written
<1>3. Marks'
  BY <1>1 DEF Marks
<1> QED
  BY <1>1, <1>2, <1>3, OutputOf, GoesOn

(* Part of a series is one. *)
LEMMA PartOf ==
    ASSUME NEW D, NEW s \in Seq(D), NEW from \in Nat \ {0}, NEW to \in Int, to <= Len(s)
    PROVE  /\ SubSeq(s, from, to) \in Seq(D)
           /\ Len(SubSeq(s, from, to)) = (IF from <= to THEN to - from + 1 ELSE 0)
           /\ \A r \in 1 .. Len(SubSeq(s, from, to)) : SubSeq(s, from, to)[r] = s[from + r - 1]
<1>1. Len(s) \in Nat /\ \A k \in 1 .. Len(s) : s[k] \in D
  OBVIOUS
<1>2. \A k \in from .. to : k \in 1 .. Len(s)
  BY <1>1
<1>3. Len(SubSeq(s, from, to)) = IF from <= to THEN to - from + 1 ELSE 0
  OBVIOUS
<1>4. SubSeq(s, from, to) \in Seq(D)
  BY <1>1, <1>2
<1>5. \A r \in 1 .. Len(SubSeq(s, from, to)) : SubSeq(s, from, to)[r] = s[from + r - 1]
  BY <1>1, <1>3
<1> QED
  BY <1>3, <1>4, <1>5

LEMMA WriteKeeps == ASSUME SeriesInv, Series!Write PROVE SeriesInv'
<1> DEFINE to == IF size < Len(distances) THEN size ELSE Len(distances)
           part == SubSeq(distances, 1, to)
<1>1. /\ pc = "write" /\ UNCHANGED <<prog, size, words, i, lagCt, leadCt, distances, most, maxout>>
      /\ \/ out' = part /\ pc' = (IF size < Len(distances) THEN "panic" ELSE "plot")
         \/ pc' = "panic" /\ out' = out
  BY DEF Series!Write, Series!ofSeries, Series!ofPass, Series!Panic
<1>2. size \in Nat /\ distances \in Seq(RowDistances) /\ Len(distances) \in Nat
  BY SeriesTypes
<1>3. to \in Nat /\ to <= Len(distances)
  BY <1>2
<1>4. ~ (size < Len(distances)) => to = Len(distances)
  OBVIOUS
<1> HIDE DEF to
<1>5. /\ part \in Seq(RowDistances) /\ Len(part) = to /\ \A r \in 1 .. Len(part) : part[r] = distances[r]
  <2>1. /\ part \in Seq(RowDistances) /\ Len(part) = (IF 1 <= to THEN to - 1 + 1 ELSE 0)
        /\ \A r \in 1 .. Len(part) : part[r] = distances[1 + r - 1]
    BY <1>2, <1>3, PartOf
  <2> HIDE DEF part
  <2>2. \A r \in Nat : 1 + r - 1 = r
    OBVIOUS
  <2>3. Len(part) = to
    BY <1>3, <2>1
  <2> QED
    BY <1>3, <2>1, <2>2, <2>3
<1> HIDE DEF part
<1>6. to = Len(distances) => part = distances
  BY <1>2, <1>5
<1>7. /\ out' \in Seq(RowDistances) /\ Len(out') <= Len(distances)
      /\ \A r \in 1 .. Len(out') : out'[r] = distances[r]
  BY <1>1, <1>3, <1>5, OutputOf
<1>8. pc' \in Written => out' = distances
  BY <1>1, <1>4, <1>6 DEF Written
<1>9. pc \in Running /\ i >= Passes
  BY <1>1 DEF SeriesInv, Rows, Running
<1>10. pc' # "fetch" /\ Marks'
  BY <1>1 DEF Marks
<1> QED
  BY <1>1, <1>7, <1>8, <1>9, <1>10, OutputOf, GoesOn

LEMMA PlotKeeps == ASSUME SeriesInv, Series!Plot PROVE SeriesInv'
<1>1. /\ pc = "plot" /\ pc' \in {"writemax", "end", "panic"} /\ (prog = "tsb" => pc' # "end")
      /\ UNCHANGED <<prog, size, words, i, lagCt, leadCt, distances, most, out, maxout>>
  BY DEF Series!Plot, Series!ofSeries, Series!ofPass, Series!Panic
<1>2. pc \in Running /\ i >= Passes /\ out = distances
  BY <1>1 DEF SeriesInv, Rows, Output, Running, Written
<1>3. Marks' /\ pc' # "fetch"
  BY <1>1 DEF Marks
<1> QED
  BY <1>1, <1>2, <1>3, OutputOf, GoesOn

LEMMA WriteMaxKeeps == ASSUME SeriesInv, Series!WriteMax PROVE SeriesInv'
<1> DEFINE to == IF most + SeriesWindow < Len(distances) THEN most + SeriesWindow ELSE Len(distances)
           part == SubSeq(distances, most + 1, to)
<1>1. /\ most \in Nat /\ SeriesWindow \in Nat /\ distances \in Seq(RowDistances) /\ Len(distances) \in Nat
  BY SeriesTypes
<1>2. Series!Min({most + SeriesWindow, Len(distances)}) = to
  <2> DEFINE S == {most + SeriesWindow, Len(distances)}
  <2>1. most + SeriesWindow \in Nat
    BY <1>1
  <2>2. to \in S /\ (\A y \in S : y >= to) /\ \A x \in S : (\A y \in S : y >= x) => x = to
    BY <1>1, <2>1
  <2>3. Series!Min(S) = CHOOSE x \in S : \A y \in S : x <= y
    BY DEF Series!Min
  <2>4. to \in S /\ (\A y \in S : to <= y) /\ \A x \in S : (\A y \in S : x <= y) => x = to
    BY <1>1, <2>1
  <2> HIDE DEF S, to
  <2> QED
    BY <2>3, <2>4 DEF S
<1>3. /\ pc = "writemax" /\ UNCHANGED <<prog, size, words, i, lagCt, leadCt, distances, most, out>>
      /\ \/ maxout' = part /\ pc' = "end"
         \/ pc' = "panic" /\ maxout' = maxout
  <2> HIDE DEF to
  <2> QED
    BY <1>2 DEF Series!WriteMax, Series!ofSeries, Series!ofPass, Series!Panic
<1>4. part \in Seq(RowDistances)
  <2>1. to \in Int /\ to <= Len(distances) /\ most + 1 \in Nat \ {0}
    BY <1>1
  <2> HIDE DEF to
  <2> QED
    BY <1>1, <2>1, PartOf
<1>5. maxout' \in Seq(RowDistances)
  BY <1>3, <1>4, OutputOf
<1>6. pc \in Running /\ i >= Passes /\ out = distances
  BY <1>3 DEF SeriesInv, Rows, Output, Running, Written
<1>7. Marks' /\ pc' # "fetch"
  BY <1>3 DEF Marks
<1> QED
  BY <1>3, <1>5, <1>6, <1>7, OutputOf, GoesOn

LEMMA UnchangedKeepsSeries == ASSUME SeriesInv, UNCHANGED Series!vars PROVE SeriesInv'
<1>1. UNCHANGED <<prog, size, words, pc, i, lagCt, leadCt, distances, most, out, maxout>>
  BY DEF Series!vars
<1>2. Marks'
  BY <1>1 DEF SeriesInv, Marks
<1>3. (pc \in Running \ {"scan"} => i >= Passes) /\ (pc \in Written => out = distances)
  BY DEF SeriesInv, Rows, Output
<1> QED
  BY <1>1, <1>2, <1>3, OutputOf, GoesOn

LEMMA InitSeries == ASSUME Series!Init PROVE SeriesInv
<1>1. /\ prog \in Tools /\ size \in Sizes[prog] /\ pc = "fetch" /\ i = 0 /\ most = 0
      /\ words \in [1 .. Series!WordCount(size) -> Series!WordsOf(prog)]
      /\ lagCt = Series!Nothing /\ leadCt = Series!Nothing
      /\ distances = <<>> /\ out = <<>> /\ maxout = <<>>
  BY DEF Series!Init
<1>2. size \in Nat
  BY <1>1, SeriesFacts
<1>3. <<>> \in Seq(RowDistances) /\ Len(<<>>) = 0
  OBVIOUS
<1>4. \A r \in 1 .. 0 : FALSE
  OBVIOUS
<1>5. SeriesTyped
  BY <1>1, <1>2, <1>3 DEF SeriesTyped
<1>6. Rows /\ Output /\ Marked /\ Marks
  BY <1>1, <1>3, <1>4 DEF Rows, Output, Marked, Marks, Running, Written
<1> QED
  BY <1>5, <1>6 DEF SeriesInv

LEMMA NextSeries == ASSUME SeriesInv, Series!Next PROVE SeriesInv'
  BY FetchKeeps, WindowPassKeeps, WordPassKeeps, EndsKeep, WriteKeeps, PlotKeeps, WriteMaxKeeps DEF Series!Next

(* What is written at the end is what was to be compared. *)
LEMMA SeriesCompares == ASSUME SeriesInv PROVE Series!SeriesCompareTheirWindows
<1>1. /\ i \in Nat /\ most \in Nat /\ Len(words) \in Nat /\ SeriesWindow \in Nat \ {0}
      /\ (Len(words) = 0 => words = <<>>)
      /\ distances \in Seq(RowDistances) /\ out \in Seq(RowDistances) /\ maxout \in Seq(RowDistances)
  BY SeriesTypes
<1>2. /\ Len(out) <= Len(distances) /\ \A r \in 1 .. Len(out) : out[r] = distances[r]
      /\ pc = "end" => out = distances
      /\ \A r \in 1 .. Len(distances) : distances[r] = RowDistance(r)
      /\ Len(distances) \in Nat /\ Len(out) \in Nat /\ DOMAIN out = 1 .. Len(out) /\ DOMAIN maxout = 1 .. Len(maxout)
  BY <1>1 DEF SeriesInv, Output, Rows, Written
<1>3. pc = "end" => Len(distances) = (IF prog = "tsb" THEN SeriesWindow + i ELSE i) /\ i >= Passes
  BY DEF SeriesInv, Rows, Running
<1>4. i = 0 \/ i <= Passes
  BY DEF SeriesInv, SeriesTyped
<1>5. ASSUME NEW r \in DOMAIN out
      PROVE  out[r] = IF prog = "tsb" THEN IF r <= SeriesWindow THEN 0 ELSE Series!Apart(r - 1 - SeriesWindow)
                      ELSE Series!WordDistance(words[IF prog = "basecomp" THEN 1 ELSE r], words[r + 1])
  <2>1. out[r] = RowDistance(r)
    BY <1>2
  <2> QED
    BY <2>1, Zenon DEF RowDistance
<1>6. ASSUME pc = "end", prog # "tsb" PROVE Len(out) + 1 = Len(words) \/ words = <<>>
  <2>1. Passes = Len(words) - 1 /\ Len(out) = i
    BY <1>2, <1>3, <1>6 DEF Passes
  <2> QED
    BY <1>1, <1>3, <1>4, <1>6, <2>1
<1>7. ASSUME pc = "end", prog = "tsb"
      PROVE  /\ Len(out) = SeriesWindow + (IF Len(words) > 2 * SeriesWindow THEN Len(words) - 2 * SeriesWindow ELSE 0)
             /\ \A r \in DOMAIN maxout : maxout[r] = out[most + r]
             /\ (\E k \in 1 .. i : out[k] > 0) => maxout[1] > 0 /\ \A k \in most + 2 .. i : out[k] = 0
  <2> DEFINE to == IF most + SeriesWindow < Len(distances) THEN most + SeriesWindow ELSE Len(distances)
  <2>1. Passes = Len(words) - 2 * SeriesWindow /\ out = distances /\ Len(distances) = SeriesWindow + i
    BY <1>2, <1>3, <1>7 DEF Passes
  <2>2. Len(out) = SeriesWindow + (IF Len(words) > 2 * SeriesWindow THEN Len(words) - 2 * SeriesWindow ELSE 0)
    BY <1>1, <1>3, <1>4, <1>7, <2>1
  <2>3. maxout = SubSeq(distances, most + 1, to)
    BY <1>7 DEF SeriesInv, Marks
  <2>4. to \in Int /\ to <= Len(distances) /\ most + 1 \in Nat \ {0}
    BY <1>1, <1>2
  <2>5. most < i => most + 1 <= to
    BY <1>1, <1>2, <2>1
  <2> HIDE DEF to
  <2>6. /\ Len(maxout) = (IF most + 1 <= to THEN to - (most + 1) + 1 ELSE 0)
        /\ \A r \in 1 .. Len(maxout) : maxout[r] = distances[most + 1 + r - 1]
    BY <1>1, <2>3, <2>4, PartOf
  <2>7. \A r \in 1 .. Len(maxout) : maxout[r] = out[most + r]
    <3>1. \A r \in Nat : most + 1 + r - 1 = most + r
      BY <1>1
    <3>2. \A r \in 1 .. Len(maxout) : r \in Nat
      OBVIOUS
    <3> QED
      BY <2>1, <2>6, <3>1, <3>2
  <2>8. ASSUME NEW k \in 1 .. i, out[k] > 0 PROVE maxout[1] > 0 /\ \A m \in most + 2 .. i : out[m] = 0
    <3>1. /\ \A m \in most + 2 .. i : distances[m] = 0
          /\ (most < i /\ distances[most + 1] > 0) \/ \A m \in 1 .. i : distances[m] = 0
      BY <1>7 DEF SeriesInv, Marked, Running
    <3>2. most < i /\ distances[most + 1] > 0
      BY <2>1, <2>8, <3>1
    <3>3. 1 \in 1 .. Len(maxout)
      BY <1>1, <2>4, <2>5, <2>6, <3>2
    <3> QED
      BY <2>1, <2>7, <3>1, <3>2, <3>3
  <2> QED
    BY <1>2, <2>2, <2>7, <2>8
<1> QED
  BY <1>5, <1>6, <1>7 DEF Series!SeriesCompareTheirWindows

(* tsb_comp.go:99-132, basecomp.go:69 and scomp.go:109: in every row       *)
(* stands the distance of its own windows or words, for every series and   *)
(* every length of a window; counting on top of a map that was emptied     *)
(* gives the bitmap of the counts.                                         *)
THEOREM SeriesCompareTheirWindowsEver == ScansSpec => []SeriesCompareTheirWindows
<1> DEFINE Inv == tool = "series" => SeriesInv
<1>1. ScansInit => Inv
  <2> SUFFICES ASSUME ScansInit, tool = "series" PROVE SeriesInv
    OBVIOUS
  <2>1. Series!Init
    BY DEF ScansInit
  <2> QED
    BY <2>1, InitSeries
<1>2. Inv /\ [ScansNext]_allVars => Inv'
  <2> SUFFICES ASSUME Inv, [ScansNext]_allVars, tool' = "series" PROVE SeriesInv'
    OBVIOUS
  <2>1. CASE ScansNext
    <3>1. tool' = tool
      BY <2>1 DEF ScansNext, InWindows, InSearch, InSeries, InWords
    <3>2. Series!Next
      BY <2>1, <3>1 DEF ScansNext, InWindows, InSearch, InSeries, InWords
    <3> QED
      BY <3>1, <3>2, NextSeries
  <2>2. CASE UNCHANGED allVars
    <3>1. tool' = tool /\ UNCHANGED Series!vars
      BY <2>2 DEF allVars, vars, ofSeries, Series!vars
    <3> QED
      BY <3>1, UnchangedKeepsSeries
  <2> QED
    BY <2>1, <2>2
<1>3. Inv => SeriesCompareTheirWindows
  BY SeriesCompares DEF SeriesCompareTheirWindows
<1> QED
  BY <1>1, <1>2, <1>3, PTL DEF ScansSpec

----------------------------------------------------------------------------
(* The words of a series. *)

(* What the words take of their constants. *)
LEMMA WordFacts ==
    Symbol \in Nat \ {0} /\ Fwin \in Nat \ {0} /\ \A p \in Programs : Curves[p] \subseteq Seq(Int)
<1>1. Words!WordConstants
  BY ScanConstants
<1> QED
  BY <1>1, Zenon DEF Words!WordConstants

(* The sums of the first numbers of a sequence. *)
Prefixes(P, s) == /\ P \in [0 .. Len(s) -> Int] /\ P[0] = 0
                  /\ \A m \in 0 .. Len(s) - 1 : P[m + 1] = P[m] + s[m + 1]

(* A sum over a range is the last of its prefixes. *)
LEMMA SumsGivePrefixes ==
    ASSUME NEW s \in Seq(Int), NEW g, Sums(g, 1 .. Len(s), s)
    PROVE  \E P : Prefixes(P, s) /\ P[Len(s)] = g[1 .. Len(s)]
<1> DEFINE P == [m \in 0 .. Len(s) |-> g[1 .. m]]
<1>1. Len(s) \in Nat
  OBVIOUS
<1>2. \A m \in 0 .. Len(s) : 1 .. m \in SUBSET (1 .. Len(s))
  BY <1>1
<1>3. P \in [0 .. Len(s) -> Int] /\ P[0] = 0 /\ P[Len(s)] = g[1 .. Len(s)]
  <2>1. 1 .. 0 = {}
    OBVIOUS
  <2>2. g \in [SUBSET (1 .. Len(s)) -> Int] /\ g[{}] = 0
    BY DEF Sums
  <2>3. \A m \in 0 .. Len(s) : g[1 .. m] \in Int
    BY <1>2, <2>2
  <2>4. P[0] = g[1 .. 0] /\ P[Len(s)] = g[1 .. Len(s)]
    BY <1>1
  <2> QED
    BY <2>1, <2>2, <2>3, <2>4
<1>4. ASSUME NEW m \in 0 .. Len(s) - 1 PROVE P[m + 1] = P[m] + s[m + 1]
  <2> DEFINE t == 1 .. m + 1
  <2>1. t \in SUBSET (1 .. Len(s)) /\ m + 1 \in t /\ t \ {m + 1} = 1 .. m /\ m \in 0 .. Len(s) /\ m + 1 \in 0 .. Len(s)
    BY <1>1
  <2>2. P[m + 1] = g[t] /\ P[m] = g[1 .. m]
    BY <2>1
  <2> HIDE DEF t
  <2>3. g[t] = s[m + 1] + g[t \ {m + 1}]
    BY <2>1 DEF Sums
  <2>4. g[t] = s[m + 1] + g[1 .. m]
    BY <2>1, <2>3, Zenon
  <2>5. s[m + 1] \in Int /\ P[m] \in Int
    BY <1>1, <1>3, <2>1
  <2> HIDE DEF P
  <2> QED
    BY <2>2, <2>4, <2>5
<1> HIDE DEF P
<1>5. Prefixes(P, s)
  BY <1>3, <1>4 DEF Prefixes
<1> QED
  BY <1>3, <1>5

SquaresOf(s) == [m \in 1 .. Len(s) |-> s[m] * s[m]]

(* The folds of a sequence are such sums. *)
LEMMA TotalIs ==
    ASSUME NEW s \in Seq(Int) PROVE \E P : Prefixes(P, s) /\ Words!Total(s) = P[Len(s)]
<1> DEFINE S == 1 .. Len(s)
           Body(g) == [t \in SUBSET S |->
                          IF t = {} THEN 0
                          ELSE LET x == CHOOSE x \in t : TRUE IN s[x] + g[t \ {x}]]
           iter == CHOOSE g : g = Body(g)
<1>1. DOMAIN s = S /\ IsFiniteSet(S) /\ s \in [S -> Int]
  BY FS_Interval
<1>2. Words!Total(s) = iter[S]
  BY <1>1 DEF Words!Total, Words!FoldSeq, Words!FoldFunction, Words!FoldFunctionOnSet, Words!MapThenFoldSet
<1> HIDE DEF S
<1>3. \A g : Steps(g, S, s) = Body(g)
  BY DEF Steps, Folds, Base, Join, Picked
<1>4. iter = Steps(iter, S, s)
  <2> HIDE DEF Body
  <2>1. \E g : g = Body(g)
    <3>1. \E g : g = Steps(g, S, s)
      BY <1>1, FoldsExist DEF Steps
    <3> QED
      BY <1>3, <3>1
  <2>2. iter = Body(iter)
    BY <2>1
  <2> QED
    BY <1>3, <2>2
<1> HIDE DEF iter
<1>5. Sums(iter, S, s)
  BY <1>1, <1>4, StepsAreSums
<1> QED
  BY <1>2, <1>5, SumsGivePrefixes DEF S

(* So is the sum of squares. *)
LEMMA SquaresIs ==
    ASSUME NEW s \in Seq(Int)
    PROVE  SquaresOf(s) \in Seq(Int) /\ Len(SquaresOf(s)) = Len(s)
           /\ \E P : Prefixes(P, SquaresOf(s)) /\ Words!Squares(s) = P[Len(s)]
<1> DEFINE S == 1 .. Len(s)
           f == SquaresOf(s)
           Body(g) == [t \in SUBSET S |->
                          IF t = {} THEN 0
                          ELSE LET x == CHOOSE x \in t : TRUE IN s[x] * s[x] + g[t \ {x}]]
           iter == CHOOSE g : g = Body(g)
<1>1. DOMAIN s = S /\ IsFiniteSet(S) /\ Len(s) \in Nat
  BY FS_Interval
<1>2. Words!Squares(s) = iter[S]
  BY <1>1 DEF Words!Squares, Words!FoldSeq, Words!FoldFunction, Words!FoldFunctionOnSet, Words!MapThenFoldSet
<1>3. f \in [S -> Int] /\ \A x \in S : f[x] = s[x] * s[x]
  <2>1. \A a \in Int : a * a \in Int
    BY SMT
  <2>2. \A x \in S : s[x] \in Int
    OBVIOUS
  <2>3. \A x \in S : s[x] * s[x] \in Int
    BY <2>1, <2>2
  <2> QED
    BY <2>3 DEF SquaresOf
<1>4. f \in Seq(Int) /\ Len(f) = Len(s)
  <2>1. \A b \in Nat : \A h \in [1 .. b -> Int] : h \in Seq(Int) /\ Len(h) = b
    OBVIOUS
  <2>2. f \in [1 .. Len(s) -> Int]
    BY <1>3, Zenon
  <2> HIDE DEF f
  <2> QED
    BY <1>1, <2>1, <2>2, Zenon
<1> HIDE DEF S, f
<1>5. \A g : Steps(g, S, f) = Body(g)
  <2> SUFFICES ASSUME NEW g PROVE Steps(g, S, f) = Body(g)
    OBVIOUS
  <2>1. \A t \in SUBSET S : t # {} => Picked(t) \in S
    BY PickedIsIn
  <2> QED
    BY <1>3, <2>1 DEF Steps, Folds, Base, Join, Picked
<1>6. iter = Steps(iter, S, f)
  <2> HIDE DEF Body
  <2>1. \E g : g = Body(g)
    <3>1. \E g : g = Steps(g, S, f)
      BY <1>1, FoldsExist DEF Steps
    <3> QED
      BY <1>5, <3>1
  <2>2. iter = Body(iter)
    BY <2>1
  <2> QED
    BY <1>5, <2>2
<1> HIDE DEF iter
<1>7. Sums(iter, S, f)
  BY <1>1, <1>3, <1>6, StepsAreSums
<1>8. \E P : Prefixes(P, f) /\ P[Len(f)] = iter[1 .. Len(f)]
  <2>1. S = 1 .. Len(f)
    BY <1>4 DEF S
  <2> QED
    BY <1>4, <1>7, <2>1, SumsGivePrefixes
<1> QED
  BY <1>2, <1>4, <1>8 DEF f, S

(* The sums of sequences of which one is a combination of the others. *)
Combined(len, f, g, h, p, q, r, c) == \A m \in 1 .. len : p * f[m] = q * g[m] + r * h[m] + c

(* Products of integers, stated so that they can be cited. *)
LEMMA Distributes ==
    /\ \A k, a, b \in Int : k * (a + b) = k * a + k * b
    /\ \A k, a, b \in Int : k * (a - b) = k * a - k * b
    /\ \A k, a \in Int : k * a \in Int /\ k * a = a * k /\ (k + 1) * a = k * a + a
    /\ \A k, a, b \in Int : (k * a) * b = k * (a * b)
<1>1. \A k, a, b \in Int : k * (a + b) = k * a + k * b
  BY SMT
<1>2. \A k, a, b \in Int : k * (a - b) = k * a - k * b
  BY SMT
<1>3. \A k, a \in Int : k * a \in Int /\ k * a = a * k /\ (k + 1) * a = k * a + a
  BY SMT
<1>4. \A k, a, b \in Int : (k * a) * b = k * (a * b)
  BY SMT
<1> QED
  BY <1>1, <1>2, <1>3, <1>4

Balanced(p, q, r, c, m, F, G, H) == p * F = q * G + r * H + m * c

(* If every term is a combination of the others, the sum is. *)
LEMMA SumsCombine ==
    ASSUME NEW len \in Nat, NEW f \in Seq(Int), NEW g \in Seq(Int), NEW h \in Seq(Int),
           Len(f) = len, Len(g) = len, Len(h) = len,
           NEW p \in Int, NEW q \in Int, NEW r \in Int, NEW c \in Int, Combined(len, f, g, h, p, q, r, c),
           NEW F, Prefixes(F, f), NEW G, Prefixes(G, g), NEW H, Prefixes(H, h)
    PROVE  p * F[len] = q * G[len] + r * H[len] + len * c
<1> DEFINE A == {m \in Nat : m <= len => Balanced(p, q, r, c, m, F[m], G[m], H[m])}
<1>1. 0 \in A
  BY DEF Prefixes, Balanced
<1>2. ASSUME NEW m \in Nat, m \in A PROVE m + 1 \in A
  <2> SUFFICES ASSUME m + 1 <= len PROVE Balanced(p, q, r, c, m + 1, F[m + 1], G[m + 1], H[m + 1])
    OBVIOUS
  <2>1. m \in 0 .. len - 1 /\ m \in 0 .. len /\ m + 1 \in 1 .. len
    OBVIOUS
  <2>2. F[m + 1] = F[m] + f[m + 1] /\ G[m + 1] = G[m] + g[m + 1] /\ H[m + 1] = H[m] + h[m + 1]
    BY <2>1 DEF Prefixes
  <2>3. F[m] \in Int /\ G[m] \in Int /\ H[m] \in Int /\ f[m + 1] \in Int /\ g[m + 1] \in Int /\ h[m + 1] \in Int
    BY <2>1 DEF Prefixes
  <2>4. p * F[m] = q * G[m] + r * H[m] + m * c /\ p * f[m + 1] = q * g[m + 1] + r * h[m + 1] + c
    BY <1>2, <2>1 DEF Combined, Balanced
  <2>5. PICK u, v, w, x, y, z : u = F[m] /\ v = G[m] /\ w = H[m] /\ x = f[m + 1] /\ y = g[m + 1] /\ z = h[m + 1]
    OBVIOUS
  <2>6. p * (u + x) = q * (v + y) + r * (w + z) + (m + 1) * c
    <3>1. u \in Int /\ v \in Int /\ w \in Int /\ x \in Int /\ y \in Int /\ z \in Int
      BY <2>3, <2>5
    <3>2. p * u = q * v + r * w + m * c /\ p * x = q * y + r * z + c
      BY <2>4, <2>5, Zenon
    <3>3. p * (u + x) = p * u + p * x
      BY <3>1, Distributes
    <3>4. q * (v + y) = q * v + q * y
      BY <3>1, Distributes
    <3>5. r * (w + z) = r * w + r * z
      BY <3>1, Distributes
    <3>6. (m + 1) * c = m * c + c
      BY Distributes
    <3>7. p * u \in Int /\ p * x \in Int /\ q * v \in Int /\ q * y \in Int /\ r * w \in Int /\ r * z \in Int /\ m * c \in Int
      BY <3>1, Distributes
    <3>9. p * u + p * x = (q * v + q * y) + (r * w + r * z) + (m * c + c)
      <4>1. PICK pu, px, qv, qy, rw, rz, mc : /\ pu = p * u /\ px = p * x /\ qv = q * v /\ qy = q * y
                                              /\ rw = r * w /\ rz = r * z /\ mc = m * c
        OBVIOUS
      <4>2. pu \in Int /\ px \in Int /\ qv \in Int /\ qy \in Int /\ rw \in Int /\ rz \in Int /\ mc \in Int
        BY <3>7, <4>1, Zenon
      <4>3. pu = qv + rw + mc /\ px = qy + rz + c
        BY <3>2, <4>1, Zenon
      <4>4. pu + px = (qv + qy) + (rw + rz) + (mc + c)
        BY <4>2, <4>3
      <4> QED
        BY <4>1, <4>4, Zenon
    <3> QED
      BY <3>3, <3>4, <3>5, <3>6, <3>9, Zenon
  <2>7. F[m + 1] = u + x /\ G[m + 1] = v + y /\ H[m + 1] = w + z
    BY <2>2, <2>5, Zenon
  <2> QED
    BY <2>6, <2>7, Zenon DEF Balanced
<1>3. \A m \in Nat : m \in A
  <2> HIDE DEF A
  <2> QED
    BY <1>1, <1>2, NaturalsFrom
<1>4. Balanced(p, q, r, c, len, F[len], G[len], H[len])
  BY <1>3
<1> QED
  BY <1>4 DEF Balanced

LEMMA TotalsType == ASSUME NEW s \in Seq(Int) PROVE Words!Total(s) \in Int /\ Words!Squares(s) \in Int
<1>1. PICK P : Prefixes(P, s) /\ Words!Total(s) = P[Len(s)]
  BY TotalIs
<1>2. PICK Q : Prefixes(Q, SquaresOf(s)) /\ Words!Squares(s) = Q[Len(s)]
  BY SquaresIs
<1>3. Len(s) \in 0 .. Len(s) /\ Len(SquaresOf(s)) = Len(s)
  BY SquaresIs
<1> QED
  BY <1>1, <1>2, <1>3 DEF Prefixes

(* One sequence is the other up to a scale and an offset. *)
Scaled(x, y, a, b, c) == Len(x) = Len(y) /\ \A m \in 1 .. Len(x) : a * x[m] = b * y[m] + c

(* The total of a scaled sequence. *)
LEMMA TotalsScale ==
    ASSUME NEW x \in Seq(Int), NEW y \in Seq(Int), NEW a \in Int, NEW b \in Int, NEW c \in Int, Scaled(x, y, a, b, c)
    PROVE  a * Words!Total(x) = b * Words!Total(y) + Len(x) * c
<1>1. PICK F : Prefixes(F, x) /\ Words!Total(x) = F[Len(x)]
  BY TotalIs
<1>2. PICK G : Prefixes(G, y) /\ Words!Total(y) = G[Len(y)]
  BY TotalIs
<1>3. Len(y) = Len(x) /\ Len(x) \in Nat /\ \A m \in 1 .. Len(x) : x[m] \in Int /\ y[m] \in Int /\ a * x[m] = b * y[m] + c
  BY DEF Scaled
<1>4. Combined(Len(x), x, y, y, a, b, 0, c)
  <2>1. \A m \in 1 .. Len(x) : b * y[m] + 0 * y[m] + c = b * y[m] + c
    BY <1>3
  <2> QED
    BY <1>3, <2>1 DEF Combined
<1>5. a * F[Len(x)] = b * G[Len(x)] + 0 * G[Len(x)] + Len(x) * c
  BY <1>1, <1>2, <1>3, <1>4, SumsCombine
<1>6. F[Len(x)] \in Int /\ G[Len(x)] \in Int
  BY <1>1, <1>2, <1>3 DEF Prefixes
<1>7. b * G[Len(x)] + 0 * G[Len(x)] + Len(x) * c = b * G[Len(x)] + Len(x) * c
  BY <1>3, <1>6
<1> QED
  BY <1>1, <1>2, <1>3, <1>5, <1>7

(* The squares of a scaled sequence. *)
LEMMA SquaresScale ==
    ASSUME NEW x \in Seq(Int), NEW y \in Seq(Int), NEW a \in Int, NEW b \in Int, NEW c \in Int, Scaled(x, y, a, b, c)
    PROVE  (a * a) * Words!Squares(x)
              = (b * b) * Words!Squares(y) + (2 * (b * c)) * Words!Total(y) + Len(x) * (c * c)
<1> DEFINE f == SquaresOf(x)
           g == SquaresOf(y)
<1>1. PICK F : Prefixes(F, f) /\ Words!Squares(x) = F[Len(x)]
  BY SquaresIs
<1>2. PICK G : Prefixes(G, g) /\ Words!Squares(y) = G[Len(y)]
  BY SquaresIs
<1>3. PICK H : Prefixes(H, y) /\ Words!Total(y) = H[Len(y)]
  BY TotalIs
<1>4. Len(y) = Len(x) /\ Len(x) \in Nat /\ \A m \in 1 .. Len(x) : x[m] \in Int /\ y[m] \in Int /\ a * x[m] = b * y[m] + c
  BY DEF Scaled
<1>5. f \in Seq(Int) /\ Len(f) = Len(x) /\ g \in Seq(Int) /\ Len(g) = Len(x)
  BY <1>4, SquaresIs
<1>6. \A m \in 1 .. Len(x) : f[m] = x[m] * x[m] /\ g[m] = y[m] * y[m]
  BY <1>4 DEF SquaresOf
<1> HIDE DEF f, g
<1>7. Combined(Len(x), f, g, y, a * a, b * b, 2 * (b * c), c * c)
  <2> SUFFICES ASSUME NEW m \in 1 .. Len(x)
               PROVE  (a * a) * f[m] = (b * b) * g[m] + (2 * (b * c)) * y[m] + c * c
    BY DEF Combined
  <2> DEFINE u == x[m]
             v == y[m]
  <2>1. u \in Int /\ v \in Int /\ a * u = b * v + c /\ f[m] = u * u /\ g[m] = v * v
    BY <1>4, <1>6
  <2> HIDE DEF u, v
  <2>2. (a * a) * (u * u) = (a * u) * (a * u)
    BY <2>1, SMT
  <2>3. (b * v + c) * (b * v + c) = (b * b) * (v * v) + (2 * (b * c)) * v + c * c
    BY <2>1, SMT
  <2>4. (a * u) * (a * u) = (b * v + c) * (b * v + c)
    BY <2>1, Zenon
  <2>5. (a * a) * (u * u) = (b * b) * (v * v) + (2 * (b * c)) * v + c * c
    BY <2>2, <2>3, <2>4, Zenon
  <2> QED
    BY <2>1, <2>5, Zenon DEF v
<1>8. a * a \in Int /\ b * b \in Int /\ 2 * (b * c) \in Int /\ c * c \in Int
  BY SMT
<1>9. \A p, q, r, s \in Int : Combined(Len(x), f, g, y, p, q, r, s) =>
        p * F[Len(x)] = q * G[Len(x)] + r * H[Len(x)] + Len(x) * s
  BY <1>1, <1>2, <1>3, <1>4, <1>5, SumsCombine
<1>10. (a * a) * F[Len(x)] = (b * b) * G[Len(x)] + (2 * (b * c)) * H[Len(x)] + Len(x) * (c * c)
  <2> DEFINE aa == a * a
             bb == b * b
             bc == 2 * (b * c)
             cc == c * c
  <2>1. aa \in Int /\ bb \in Int /\ bc \in Int /\ cc \in Int /\ Combined(Len(x), f, g, y, aa, bb, bc, cc)
    BY <1>7, <1>8
  <2> HIDE DEF aa, bb, bc, cc
  <2>2. aa * F[Len(x)] = bb * G[Len(x)] + bc * H[Len(x)] + Len(x) * cc
    BY <1>9, <2>1
  <2> QED
    BY <2>2, Zenon DEF aa, bb, bc, cc
<1> QED
  BY <1>1, <1>2, <1>3, <1>4, <1>10, Zenon

(* Letters do not depend on the scale. *)
SameScale(a, b, dx, dy, numx, numy, denx, deny) ==
    /\ a \in 1 .. 2 /\ b \in 1 .. 2 /\ dx \in Int /\ dy \in Int
    /\ numx \in Int /\ numy \in Int /\ denx \in Int /\ deny \in Int
    /\ a * dx = b * dy /\ (a * a) * numx = (b * b) * numy /\ (a * a) * denx = (b * b) * deny

(* A section of the same scale has the same letter. *)
LEMMA SymbolScales ==
    ASSUME NEW a, NEW b, NEW dx, NEW dy, NEW numx, NEW numy, NEW denx, NEW deny,
           SameScale(a, b, dx, dy, numx, numy, denx, deny)
    PROVE  Words!Symbol4(dx, numx, denx) = Words!Symbol4(dy, numy, deny)
<1>0. a \in 1 .. 2 /\ b \in 1 .. 2
  BY DEF SameScale
<1>4. /\ dx \in Int /\ dy \in Int /\ numx \in Int /\ numy \in Int /\ denx \in Int /\ deny \in Int
  BY DEF SameScale
<1>5. a * dx = b * dy /\ (a * a) * numx = (b * b) * numy /\ (a * a) * denx = (b * b) * deny
  BY DEF SameScale
<1>1. /\ dx < 0 <=> dy < 0
      /\ 1600 * numx > 729 * denx <=> 1600 * numy > 729 * deny
      /\ 1600 * numx < 729 * denx <=> 1600 * numy < 729 * deny
  <2>1. CASE a = 1 /\ b = 1
    BY <1>4, <1>5, <2>1
  <2>2. CASE a = 1 /\ b = 2
    BY <1>4, <1>5, <2>2
  <2>3. CASE a = 2 /\ b = 1
    BY <1>4, <1>5, <2>3
  <2>4. CASE a = 2 /\ b = 2
    BY <1>4, <1>5, <2>4
  <2> QED
    BY <1>0, <2>1, <2>2, <2>3, <2>4
<1>2. CASE dx < 0
  <2>1. dy < 0
    BY <1>1, <1>2
  <2>2. CASE 1600 * numx > 729 * denx
    <3>1. 1600 * numy > 729 * deny
      BY <1>1, <1>4, <2>2
    <3> QED
      BY <1>2, <2>1, <2>2, <3>1 DEF Words!Symbol4
  <2>3. CASE ~ (1600 * numx > 729 * denx)
    <3>1. ~ (1600 * numy > 729 * deny)
      BY <1>1, <1>4, <2>3
    <3> QED
      BY <1>2, <2>1, <2>3, <3>1 DEF Words!Symbol4
  <2> QED
    BY <2>2, <2>3
<1>3. CASE ~ (dx < 0)
  <2>1. ~ (dy < 0)
    BY <1>1, <1>3
  <2>2. CASE 1600 * numx < 729 * denx
    <3>1. 1600 * numy < 729 * deny
      BY <1>1, <1>4, <2>2
    <3> QED
      BY <1>3, <2>1, <2>2, <3>1 DEF Words!Symbol4
  <2>3. CASE ~ (1600 * numx < 729 * denx)
    <3>1. ~ (1600 * numy < 729 * deny)
      BY <1>1, <1>4, <2>3
    <3> QED
      BY <1>3, <2>1, <2>3, <3>1 DEF Words!Symbol4
  <2> QED
    BY <2>2, <2>3
<1> QED
  BY <1>2, <1>3

(* So has a section of a scaled window: d and v of SaxWords scale, z does  *)
(* not.                                                                    *)
LEMMA LettersScale ==
    ASSUME NEW x \in Seq(Int), NEW y \in Seq(Int), NEW u \in Seq(Int), NEW v \in Seq(Int), NEW flat,
           NEW a \in 1 .. 2, NEW b \in 1 .. 2, NEW c \in Int, Scaled(x, y, a, b, c), Scaled(u, v, a, b, c)
    PROVE  Words!Letter(u, x, flat) = Words!Letter(v, y, flat)
<1>1. PICK n, k, tx, ty, sx, sy, qx, qy :
        /\ n = Len(x) /\ k = Len(u) /\ tx = Words!Total(x) /\ ty = Words!Total(y)
        /\ sx = Words!Total(u) /\ sy = Words!Total(v) /\ qx = Words!Squares(x) /\ qy = Words!Squares(y)
  OBVIOUS
<1>2. /\ n \in Nat /\ k \in Nat /\ Len(y) = n /\ Len(v) = k
      /\ tx \in Int /\ ty \in Int /\ sx \in Int /\ sy \in Int /\ qx \in Int /\ qy \in Int /\ a \in Int /\ b \in Int
  BY <1>1, TotalsType DEF Scaled
<1>3. a * tx = b * ty + n * c
  <2>1. a * Words!Total(x) = b * Words!Total(y) + Len(x) * c
    BY <1>2, TotalsScale
  <2> QED
    BY <1>1, <2>1, Zenon
<1>4. a * sx = b * sy + k * c
  <2>1. a * Words!Total(u) = b * Words!Total(v) + Len(u) * c
    BY <1>2, TotalsScale
  <2> QED
    BY <1>1, <2>1, Zenon
<1>5. (a * a) * qx = (b * b) * qy + (2 * (b * c)) * ty + n * (c * c)
  <2>1. (a * a) * Words!Squares(x) = (b * b) * Words!Squares(y) + (2 * (b * c)) * Words!Total(y) + Len(x) * (c * c)
    BY <1>2, SquaresScale
  <2> QED
    BY <1>1, <2>1, Zenon
<1>6. a * (n * sx - k * tx) = b * (n * sy - k * ty)
  <2>1. a * (n * sx - k * tx) = n * (a * sx) - k * (a * tx)
    BY <1>2, SMT
  <2>2. n * (b * sy + k * c) - k * (b * ty + n * c) = b * (n * sy - k * ty)
    BY <1>2, SMT
  <2>3. n * (a * sx) - k * (a * tx) = n * (b * sy + k * c) - k * (b * ty + n * c)
    BY <1>3, <1>4, Zenon
  <2> QED
    BY <2>1, <2>2, <2>3, Zenon
<1>7. (a * a) * (n * qx - tx * tx) = (b * b) * (n * qy - ty * ty)
  <2>1. (a * a) * (n * qx - tx * tx) = n * ((a * a) * qx) - (a * tx) * (a * tx)
    BY <1>2, SMT
  <2>2. n * ((b * b) * qy + (2 * (b * c)) * ty + n * (c * c)) - (b * ty + n * c) * (b * ty + n * c)
           = (b * b) * (n * qy - ty * ty)
    BY <1>2, SMT
  <2>3. n * ((a * a) * qx) - (a * tx) * (a * tx)
           = n * ((b * b) * qy + (2 * (b * c)) * ty + n * (c * c)) - (b * ty + n * c) * (b * ty + n * c)
    BY <1>3, <1>5, Zenon
  <2> QED
    BY <2>1, <2>2, <2>3, Zenon
<1>8. PICK dx, dy, vx, vy : /\ dx = n * sx - k * tx /\ dy = n * sy - k * ty
                            /\ vx = n * qx - tx * tx /\ vy = n * qy - ty * ty
  OBVIOUS
<1>9. dx \in Int /\ dy \in Int /\ vx \in Int /\ vy \in Int
  BY <1>2, <1>8, SMT
<1>10. a * dx = b * dy /\ (a * a) * vx = (b * b) * vy
  BY <1>6, <1>7, <1>8, Zenon
<1>11. vx = 0 <=> vy = 0
  <2>1. CASE a = 1 /\ b = 1
    BY <1>9, <1>10, <2>1
  <2>2. CASE a = 1 /\ b = 2
    BY <1>9, <1>10, <2>2
  <2>3. CASE a = 2 /\ b = 1
    BY <1>9, <1>10, <2>3
  <2>4. CASE a = 2 /\ b = 2
    BY <1>9, <1>10, <2>4
  <2> QED
    BY <2>1, <2>2, <2>3, <2>4
<1>12. (a * a) * (dx * dx * (n - 1)) = (b * b) * (dy * dy * (n - 1))
  <2>1. (a * a) * (dx * dx * (n - 1)) = (a * dx) * (a * dx) * (n - 1)
    BY <1>2, <1>9, SMT
  <2>2. (b * b) * (dy * dy * (n - 1)) = (b * dy) * (b * dy) * (n - 1)
    BY <1>2, <1>9, SMT
  <2> QED
    BY <1>10, <2>1, <2>2, Zenon
<1>13. (a * a) * (k * k * n * vx) = (b * b) * (k * k * n * vy)
  <2>1. (a * a) * (k * k * n * vx) = (k * k * n) * ((a * a) * vx)
    BY <1>2, <1>9, SMT
  <2>2. (b * b) * (k * k * n * vy) = (k * k * n) * ((b * b) * vy)
    BY <1>2, <1>9, SMT
  <2> QED
    BY <1>10, <2>1, <2>2, Zenon
<1>14. dx * dx * (n - 1) \in Int /\ dy * dy * (n - 1) \in Int /\ k * k * n * vx \in Int /\ k * k * n * vy \in Int
  BY <1>2, <1>9, SMT
<1>15. Words!Symbol4(dx, dx * dx * (n - 1), k * k * n * vx) = Words!Symbol4(dy, dy * dy * (n - 1), k * k * n * vy)
  <2>1. PICK nx, ny, ex, ey : /\ nx = dx * dx * (n - 1) /\ ny = dy * dy * (n - 1)
                              /\ ex = k * k * n * vx /\ ey = k * k * n * vy
    OBVIOUS
  <2>2. nx \in Int /\ ny \in Int /\ ex \in Int /\ ey \in Int /\ (a * a) * nx = (b * b) * ny /\ (a * a) * ex = (b * b) * ey
    BY <1>12, <1>13, <1>14, <2>1, Zenon
  <2>3. SameScale(a, b, dx, dy, nx, ny, ex, ey)
    BY <1>9, <1>10, <2>2, Zenon DEF SameScale
  <2>4. Words!Symbol4(dx, nx, ex) = Words!Symbol4(dy, ny, ey)
    BY <2>3, SymbolScales
  <2> QED
    BY <2>1, <2>4, Zenon
<1>16. Words!Letter(u, x, flat) = IF vx = 0 THEN flat ELSE Words!Symbol4(dx, dx * dx * (n - 1), k * k * n * vx)
  BY <1>1, <1>8, Zenon DEF Words!Letter
<1>17. Words!Letter(v, y, flat) = IF vy = 0 THEN flat ELSE Words!Symbol4(dy, dy * dy * (n - 1), k * k * n * vy)
  BY <1>1, <1>2, <1>8, Zenon DEF Words!Letter
<1>18. CASE vx = 0
  BY <1>11, <1>16, <1>17, <1>18, Zenon
<1>19. CASE vx # 0
  BY <1>11, <1>15, <1>16, <1>17, <1>19, Zenon
<1> QED
  BY <1>18, <1>19
(* The word of a window and the words of a series: what stands for a       *)
(* window is its word, however many were made before.                      *)
Letters4 == {"a", "b", "c", "d"}
ToolLetters == IF prog \in {"tsb", "basecomp"} THEN Fwin ELSE Fwin - 1
WordOf(k) ==
    IF prog = "saxutil" THEN Words!GenWord(Words!GenWindow(k))
    ELSE Words!Word(Words!ToolWindow(k), ToolLetters, Symbol - 1, Words!FlatInTools)
WindowsOf == IF prog = "saxutil" THEN Len(series) ELSE Words!ToolWindows

WordsInv ==
    /\ prog \in Programs /\ series \in Seq(Int) /\ i \in Nat /\ (i = 0 \/ i <= WindowsOf)
    /\ words \in Seq(Seq(Letters4)) /\ Len(words) = i
    /\ \A k \in 1 .. Len(words) : words[k] = WordOf(k - 1)

LEMMA LetterType ==
    ASSUME NEW section, NEW data, NEW flat \in Letters4 PROVE Words!Letter(section, data, flat) \in Letters4
<1>1. \A d, num, den : Words!Symbol4(d, num, den) \in Letters4
  <2>1. "a" \in Letters4 /\ "b" \in Letters4 /\ "c" \in Letters4 /\ "d" \in Letters4
    BY DEF Letters4
  <2> QED
    BY <2>1 DEF Words!Symbol4
<1> QED
  BY <1>1, Zenon DEF Words!Letter

SectionOf(data, k, length) == SubSeq(data, (k - 1) * Symbol + 1, (k - 1) * Symbol + length)

LEMMA WordType ==
    ASSUME NEW data, NEW letters \in Nat, NEW length, NEW flat \in Letters4
    PROVE  /\ Words!Word(data, letters, length, flat) \in Seq(Letters4)
           /\ Len(Words!Word(data, letters, length, flat)) = letters
           /\ \A k \in 1 .. letters :
                 Words!Word(data, letters, length, flat)[k] = Words!Letter(SectionOf(data, k, length), data, flat)
<1> DEFINE word == [k \in 1 .. letters |-> Words!Letter(SectionOf(data, k, length), data, flat)]
<1>1. Words!Word(data, letters, length, flat) = word
  BY Zenon DEF Words!Word, Words!Sections, SectionOf
<1>2. \A k \in 1 .. letters : word[k] \in Letters4
  BY LetterType, Zenon
<1>3. DOMAIN word = 1 .. letters /\ word = [k \in 1 .. letters |-> word[k]]
  OBVIOUS
<1>4. word \in Seq(Letters4) /\ Len(word) = letters
  <2> HIDE DEF word
  <2> QED
    BY <1>2, <1>3
<1>5. \A k \in 1 .. letters : word[k] = Words!Letter(SectionOf(data, k, length), data, flat)
  OBVIOUS
<1> HIDE DEF word
<1> QED
  BY <1>1, <1>4, <1>5, Zenon

LEMMA FlatLetters == Words!Flat \in Letters4 /\ Words!FlatInTools \in Letters4
  BY DEF Words!Flat, Words!FlatInTools, Letters4

(* A window of a series, while there is one. *)
WindowOf(k) == IF prog = "saxutil" THEN Words!GenWindow(k) ELSE Words!ToolWindow(k)
LettersOf(k) == IF prog = "saxutil" THEN Len(Words!GenWindow(k)) \div Symbol ELSE ToolLetters
SectionLength == IF prog = "saxutil" THEN Symbol ELSE Symbol - 1
FlatLetter(k) == IF prog = "saxutil" THEN Words!GenFlat(WindowOf(k)) ELSE Words!FlatInTools

(* The word of a window, whichever tool makes it. *)
LEMMA WordOfIs == \A k : WordOf(k) = Words!Word(WindowOf(k), LettersOf(k), SectionLength, FlatLetter(k))
<1>1. CASE prog = "saxutil"
  BY <1>1, Zenon DEF WordOf, WindowOf, LettersOf, SectionLength, FlatLetter, Words!GenWord
<1>2. CASE prog # "saxutil"
  BY <1>2, Zenon DEF WordOf, WindowOf, LettersOf, SectionLength, FlatLetter
<1> QED
  BY <1>1, <1>2

(* A window has whole symbols. *)
LEMMA FeatureFacts == /\ Words!Feature = Symbol * Fwin /\ Words!Feature \in Nat \ {0} /\ ToolLetters \in 0 .. Fwin
                      /\ \A k \in Nat : (k * Symbol) \in Nat
                      /\ \A j, k \in Nat : j <= k => j * Symbol <= k * Symbol
<1>1. Symbol \in Nat \ {0} /\ Fwin \in Nat \ {0}
  BY WordFacts
<1>2. Words!Feature = Fwin * Symbol
  BY Zenon DEF Words!Feature
<1>3. Fwin * Symbol = Symbol * Fwin /\ Fwin * Symbol \in Nat \ {0}
  BY <1>1, SMT
<1>4. ToolLetters \in 0 .. Fwin
  BY <1>1 DEF ToolLetters
<1>5. \A k \in Nat : (k * Symbol) \in Nat
  BY <1>1, SMT
<1>6. \A j, k \in Nat : j <= k => j * Symbol <= k * Symbol
  <2> SUFFICES ASSUME NEW j \in Nat, NEW k \in Nat, j <= k PROVE j * Symbol <= k * Symbol
    OBVIOUS
  <2>1. k * Symbol = j * Symbol + (k - j) * Symbol
    BY <1>1, SMT
  <2>2. k - j \in Nat
    OBVIOUS
  <2> QED
    BY <1>5, <2>1, <2>2
<1> QED
  BY <1>2, <1>3, <1>4, <1>5, <1>6

(* Its sections lie in it. *)
LEMMA WindowFacts ==
    ASSUME series \in Seq(Int), NEW k \in Nat, k < WindowsOf
    PROVE  /\ WindowOf(k) \in Seq(Int) /\ LettersOf(k) \in Nat /\ SectionLength \in Nat
           /\ \A m \in 1 .. LettersOf(k) : (m - 1) * Symbol \in Nat /\ (m - 1) * Symbol + SectionLength <= Len(WindowOf(k))
           /\ prog = "saxutil" => Len(WindowOf(k)) > 0
           /\ prog # "saxutil" => Len(WindowOf(k)) = Words!Feature - 1
<1>1. Symbol \in Nat \ {0} /\ Fwin \in Nat \ {0} /\ Len(series) \in Nat /\ Words!Feature \in Nat \ {0}
  BY WordFacts, FeatureFacts
<1>2. CASE prog = "saxutil"
  <2> DEFINE to == IF k < Len(series) - Words!Feature THEN k + Words!Feature ELSE Len(series)
             x == Len(WindowOf(k))
  <2>1. WindowOf(k) = SubSeq(series, k + 1, to)
    BY <1>2, Zenon DEF WindowOf, Words!GenWindow
  <2>2. k < Len(series)
    BY <1>2 DEF WindowsOf
  <2>3. to \in Int /\ to <= Len(series) /\ k + 1 <= to /\ k + 1 \in Nat \ {0}
    BY <1>1, <2>2
  <2> HIDE DEF to
  <2>4. WindowOf(k) \in Seq(Int) /\ Len(WindowOf(k)) = to - (k + 1) + 1
    BY <2>1, <2>3, PartOf
  <2>5. x \in Nat /\ x > 0
    BY <2>3, <2>4
  <2>6. LettersOf(k) = x \div Symbol /\ SectionLength = Symbol
    BY <1>2, Zenon DEF LettersOf, SectionLength, WindowOf
  <2> HIDE DEF x
  <2>7. x \div Symbol \in Nat /\ Symbol * (x \div Symbol) <= x
    BY <1>1, <2>5, WholeSymbols
  <2>8. ASSUME NEW m \in 1 .. x \div Symbol
        PROVE  (m - 1) * Symbol \in Nat /\ (m - 1) * Symbol + Symbol <= x
    <3>1. m - 1 \in Nat /\ m \in Nat /\ m <= x \div Symbol
      BY <2>7
    <3>2. (m - 1) * Symbol \in Nat /\ m * Symbol <= (x \div Symbol) * Symbol /\ (x \div Symbol) * Symbol \in Nat
      BY <2>7, <3>1, FeatureFacts
    <3>3. (m - 1) * Symbol + Symbol = m * Symbol /\ (x \div Symbol) * Symbol = Symbol * (x \div Symbol)
      BY <1>1, <2>7, <3>1, SMT
    <3> QED
      BY <1>1, <2>5, <2>7, <3>2, <3>3
  <2> QED
    BY <1>1, <1>2, <2>4, <2>5, <2>6, <2>7, <2>8 DEF x
<1>3. CASE prog # "saxutil"
  <2> DEFINE to == k + Words!Feature - 1
  <2>1. WindowOf(k) = SubSeq(series, k + 1, to)
    BY <1>3, Zenon DEF WindowOf, Words!ToolWindow
  <2>2. k < Len(series) - Words!Feature
    BY <1>3 DEF WindowsOf, Words!ToolWindows
  <2>3. to \in Int /\ to <= Len(series) /\ k + 1 \in Nat \ {0} /\ to = k + Words!Feature - 1
    BY <1>1, <2>2
  <2> HIDE DEF to
  <2>4. WindowOf(k) \in Seq(Int)
        /\ Len(WindowOf(k)) = (IF k + 1 <= to THEN to - (k + 1) + 1 ELSE 0)
    BY <2>1, <2>3, PartOf
  <2>5. Len(WindowOf(k)) = Words!Feature - 1
    BY <1>1, <2>3, <2>4
  <2>6. LettersOf(k) \in 0 .. Fwin /\ SectionLength = Symbol - 1
    BY <1>3, FeatureFacts DEF LettersOf, SectionLength
  <2>7. ASSUME NEW m \in 1 .. LettersOf(k)
        PROVE  (m - 1) * Symbol \in Nat /\ (m - 1) * Symbol + (Symbol - 1) <= Words!Feature - 1
    <3>1. m - 1 \in Nat /\ m \in Nat /\ m <= Fwin
      BY <1>1, <2>6
    <3>2. (m - 1) * Symbol \in Nat /\ m * Symbol <= Fwin * Symbol /\ m * Symbol \in Nat
      BY <1>1, <3>1, FeatureFacts
    <3>3. (m - 1) * Symbol + Symbol = m * Symbol /\ Words!Feature = Fwin * Symbol
      BY <1>1, <3>1, SMT DEF Words!Feature
    <3> QED
      BY <1>1, <3>2, <3>3
  <2> QED
    BY <1>1, <1>3, <2>4, <2>5, <2>6, <2>7
<1> QED
  BY <1>2, <1>3

(* A section is that part of its window. *)
LEMMA SectionFacts ==
    ASSUME series \in Seq(Int), NEW k \in Nat, k < WindowsOf, NEW m \in 1 .. LettersOf(k)
    PROVE  /\ SectionOf(WindowOf(k), m, SectionLength) \in Seq(Int)
           /\ Len(SectionOf(WindowOf(k), m, SectionLength)) = SectionLength
           /\ \A r \in 1 .. SectionLength :
                 /\ SectionOf(WindowOf(k), m, SectionLength)[r] = WindowOf(k)[(m - 1) * Symbol + r]
                 /\ (m - 1) * Symbol + r \in 1 .. Len(WindowOf(k))
<1> DEFINE data == WindowOf(k)
           before == (m - 1) * Symbol
           to == before + SectionLength
           section == SubSeq(data, before + 1, to)
<1>1. data \in Seq(Int) /\ SectionLength \in Nat /\ before \in Nat /\ to <= Len(data) /\ Len(data) \in Nat
  BY WindowFacts
<1>2. SectionOf(WindowOf(k), m, SectionLength) = section
  BY Zenon DEF SectionOf
<1> HIDE DEF data, before
<1>3. to \in Int /\ before + 1 \in Nat \ {0} /\ to = before + SectionLength
  BY <1>1
<1> HIDE DEF to
<1>4. /\ section \in Seq(Int) /\ Len(section) = (IF before + 1 <= to THEN to - (before + 1) + 1 ELSE 0)
      /\ \A r \in 1 .. Len(section) : section[r] = data[before + 1 + r - 1]
  BY <1>1, <1>3, PartOf
<1> HIDE DEF section
<1>5. Len(section) = SectionLength
  BY <1>1, <1>3, <1>4
<1>6. \A r \in 1 .. SectionLength : before + 1 + r - 1 = before + r /\ before + r \in 1 .. Len(data)
  BY <1>1, <1>3
<1>7. \A r \in 1 .. SectionLength : section[r] = data[before + r] /\ before + r \in 1 .. Len(data)
  BY <1>4, <1>5, <1>6
<1> QED
  BY <1>2, <1>4, <1>5, <1>7, Zenon DEF data, before

(* A word has a letter for every section of its window. *)
LEMMA WordOfType ==
    ASSUME series \in Seq(Int), NEW k \in Nat, k < WindowsOf
    PROVE  /\ WordOf(k) \in Seq(Letters4) /\ Len(WordOf(k)) = LettersOf(k)
           /\ \A m \in 1 .. LettersOf(k) :
                 WordOf(k)[m] = Words!Letter(SectionOf(WindowOf(k), m, SectionLength), WindowOf(k), FlatLetter(k))
<1>1. WordOf(k) = Words!Word(WindowOf(k), LettersOf(k), SectionLength, FlatLetter(k))
  BY WordOfIs
<1>2. LettersOf(k) \in Nat
  BY WindowFacts
<1>3. FlatLetter(k) \in Letters4
  BY FlatLetters, Zenon DEF FlatLetter, Words!GenFlat
<1> QED
  BY <1>1, <1>2, <1>3, WordType

LEMMA SameWordOf == ASSUME UNCHANGED <<prog, series>> PROVE \A k : WordOf(k)' = WordOf(k)
  BY DEF WordOf, Words!GenWindow, Words!ToolWindow, ToolLetters

(* A pass appends the word of its own window. *)
LEMMA AppendKeeps ==
    ASSUME WordsInv, i < WindowsOf, Words!AppendWord(WordOf(i)) PROVE WordsInv'
<1>1. words' = Append(words, WordOf(i)) /\ i' = i + 1 /\ UNCHANGED <<prog, series>>
  BY DEF Words!AppendWord
<1>2. series \in Seq(Int) /\ i \in Nat /\ words \in Seq(Seq(Letters4)) /\ Len(words) = i
      /\ \A k \in 1 .. i : words[k] = WordOf(k - 1)
  BY DEF WordsInv
<1>3. WordOf(i) \in Seq(Letters4)
  BY <1>2, WordOfType
<1>4. words' \in Seq(Seq(Letters4)) /\ Len(words') = i + 1 /\ words'[i + 1] = WordOf(i)
      /\ \A k \in 1 .. i : words'[k] = words[k]
  BY <1>1, <1>2, <1>3
<1>5. ASSUME NEW k \in 1 .. i + 1 PROVE words'[k] = WordOf(k - 1)'
  <2>1. WordOf(k - 1)' = WordOf(k - 1)
    BY <1>1, SameWordOf
  <2>2. CASE k = i + 1
    <3>1. k - 1 = i
      BY <1>2, <2>2
    <3> QED
      BY <1>4, <2>1, <2>2, <3>1, Zenon
  <2>3. CASE k \in 1 .. i
    BY <1>2, <1>4, <2>1, <2>3
  <2> QED
    BY <1>2, <2>2, <2>3
<1>6. i + 1 <= WindowsOf
  <2>1. WindowsOf \in Int
    BY <1>2, FeatureFacts DEF WindowsOf, Words!ToolWindows
  <2> QED
    BY <1>2, <2>1
<1>7. WindowsOf' = WindowsOf
  BY <1>1 DEF WindowsOf, Words!ToolWindows
<1>8. i' \in Nat /\ (i' = 0 \/ i' <= WindowsOf') /\ prog' \in Programs /\ series' \in Seq(Int)
  BY <1>1, <1>2, <1>6, <1>7 DEF WordsInv
<1>9. \A k \in 1 .. Len(words') : words'[k] = WordOf(k - 1)'
  BY <1>4, <1>5
<1> QED
  BY <1>1, <1>4, <1>8, <1>9 DEF WordsInv

LEMMA UnchangedKeepsWords == ASSUME WordsInv, UNCHANGED <<prog, series, i, words>> PROVE WordsInv'
<1>1. \A k : WordOf(k)' = WordOf(k)
  BY SameWordOf
<1>2. WindowsOf' = WindowsOf
  BY DEF WindowsOf, Words!ToolWindows
<1> QED
  BY <1>1, <1>2 DEF WordsInv

LEMMA InitWords == ASSUME Words!Init PROVE WordsInv
<1>1. prog \in Programs /\ series \in Curves[prog] /\ i = 0 /\ words = <<>>
  BY DEF Words!Init
<1>2. series \in Seq(Int)
  BY <1>1, WordFacts
<1>3. <<>> \in Seq(Seq(Letters4)) /\ Len(<<>>) = 0 /\ \A k \in 1 .. 0 : FALSE
  OBVIOUS
<1> QED
  BY <1>1, <1>2, <1>3 DEF WordsInv

LEMMA NextWords == ASSUME WordsInv, Words!Next PROVE WordsInv'
<1>1. CASE Words!GenWords
  <2>1. prog = "saxutil" /\ i < Len(series) /\ Words!AppendWord(Words!GenWord(Words!GenWindow(i)))
    BY <1>1 DEF Words!GenWords
  <2> QED
    BY <2>1, AppendKeeps, Zenon DEF WordOf, WindowsOf
<1>2. ASSUME NEW p, NEW letters, p # "saxutil", letters = (IF p \in {"tsb", "basecomp"} THEN Fwin ELSE Fwin - 1),
             Words!ToolPass(p, letters)
      PROVE  WordsInv'
  <2>1. prog = p /\ i < Words!ToolWindows /\ letters = ToolLetters
        /\ Words!AppendWord(Words!Word(Words!ToolWindow(i), letters, Symbol - 1, Words!FlatInTools))
    BY <1>2, Zenon DEF Words!ToolPass, ToolLetters
  <2>2. Words!AppendWord(WordOf(i)) /\ i < WindowsOf
    BY <1>2, <2>1, Zenon DEF WordOf, WindowsOf
  <2> QED
    BY <2>2, AppendKeeps
<1>3. CASE Words!TsbWords
  BY <1>2, <1>3 DEF Words!TsbWords
<1>4. CASE Words!BasecompWords
  BY <1>2, <1>4 DEF Words!BasecompWords
<1>5. CASE Words!ScompWords
  BY <1>2, <1>5 DEF Words!ScompWords
<1>6. CASE Words!LocalWords
  BY <1>2, <1>6 DEF Words!LocalWords
<1>7. CASE Words!WordsEnd
  BY <1>7, UnchangedKeepsWords DEF Words!WordsEnd
<1> QED
  BY <1>1, <1>3, <1>4, <1>5, <1>6, <1>7 DEF Words!Next

(* The words so far are those of their windows. *)
LEMMA WordsAre ==
    ASSUME WordsInv, NEW k \in 0 .. Len(words) - 1
    PROVE  series \in Seq(Int) /\ k \in Nat /\ k < WindowsOf /\ words[k + 1] = WordOf(k) /\ Words!Window(k) = WindowOf(k)
<1>1. series \in Seq(Int) /\ i \in Nat /\ (i = 0 \/ i <= WindowsOf) /\ Len(words) = i
      /\ \A m \in 1 .. Len(words) : words[m] = WordOf(m - 1)
  BY DEF WordsInv
<1>2. WindowsOf \in Int
  BY <1>1, FeatureFacts DEF WindowsOf, Words!ToolWindows
<1>3. k \in Nat /\ k + 1 \in 1 .. Len(words) /\ k + 1 - 1 = k /\ k < WindowsOf
  BY <1>1, <1>2
<1>4. words[k + 1] = WordOf(k)
  BY <1>1, <1>3
<1> QED
  BY <1>1, <1>3, <1>4, Zenon DEF Words!Window, WindowOf

(* Windows that are alike are one the other's up to a scale and an offset. *)
LEMMA AlikeScales ==
    ASSUME NEW x \in Seq(Int), NEW y \in Seq(Int), Words!Alike(x, y)
    PROVE  \E a, b \in 1 .. 2 : \E c \in Int : Scaled(x, y, a, b, c)
<1>1. Len(x) = Len(y) /\ Len(x) \in Nat /\ DOMAIN x = 1 .. Len(x)
      /\ \A m \in 1 .. Len(x) : x[m] \in Int /\ y[m] \in Int
  BY DEF Words!Alike
<1>2. PICK a \in 1 .. 2, b \in 1 .. 2 : \A j, k \in 1 .. Len(x) : a * (x[j] - x[k]) = b * (y[j] - y[k])
  <2>1. PICK a \in 1 .. 2, b \in 1 .. 2 : \A j, k \in DOMAIN x : a * (x[j] - x[k]) = b * (y[j] - y[k])
    BY Zenon DEF Words!Alike
  <2>2. \A j, k \in 1 .. Len(x) : a * (x[j] - x[k]) = b * (y[j] - y[k])
    BY <1>1, <2>1, Zenon
  <2> QED
    BY <2>2, Zenon
<1>3. a \in Int /\ b \in Int
  OBVIOUS
<1>4. CASE Len(x) = 0
  <2>1. Scaled(x, y, a, b, 0)
    BY <1>1, <1>4 DEF Scaled
  <2> QED
    BY <2>1
<1>5. CASE Len(x) # 0
  <2> DEFINE c == a * x[1] - b * y[1]
  <2>1. 1 \in 1 .. Len(x) /\ x[1] \in Int /\ y[1] \in Int
    BY <1>1, <1>5
  <2>2. a * x[1] \in Int /\ b * y[1] \in Int
    BY <1>3, <2>1, Distributes
  <2>3. c \in Int
    BY <2>2
  <2>4. ASSUME NEW m \in 1 .. Len(x) PROVE a * x[m] = b * y[m] + c
    <3>1. x[m] \in Int /\ y[m] \in Int
      BY <1>1
    <3>2. PICK p, q, p1, q1 : p = x[m] /\ q = y[m] /\ p1 = x[1] /\ q1 = y[1]
      OBVIOUS
    <3>3. a * (p - p1) = b * (q - q1)
      <4>1. a * (x[m] - x[1]) = b * (y[m] - y[1])
        BY <1>2, <2>1, Zenon
      <4> QED
        BY <3>2, <4>1, Zenon
    <3>4. p \in Int /\ q \in Int /\ p1 \in Int /\ q1 \in Int
      BY <2>1, <3>1, <3>2
    <3>5. a * p = b * q + (a * p1 - b * q1)
      <4>1. (a = 1 \/ a = 2) /\ (b = 1 \/ b = 2)
        OBVIOUS
      <4>2. CASE a = 1 /\ b = 1
        BY <3>3, <3>4, <4>2
      <4>3. CASE a = 1 /\ b = 2
        BY <3>3, <3>4, <4>3
      <4>4. CASE a = 2 /\ b = 1
        BY <3>3, <3>4, <4>4
      <4>5. CASE a = 2 /\ b = 2
        BY <3>3, <3>4, <4>5
      <4> QED
        BY <4>1, <4>2, <4>3, <4>4, <4>5
    <3> QED
      BY <3>2, <3>5, Zenon
  <2> HIDE DEF c
  <2>5. Scaled(x, y, a, b, c)
    BY <1>1, <2>4 DEF Scaled
  <2> QED
    BY <2>3, <2>5
<1> QED
  BY <1>4, <1>5

(* Windows that are alike have one word. *)
LEMMA WordsSoundAlike == ASSUME WordsInv PROVE Words!AlikeSoundAlike
<1> SUFFICES ASSUME NEW j \in 0 .. Len(words) - 1, NEW k \in 0 .. Len(words) - 1, Words!Alike(Words!Window(j), Words!Window(k))
             PROVE  words[j + 1] = words[k + 1]
  BY DEF Words!AlikeSoundAlike
<1> DEFINE x == WindowOf(j)
           y == WindowOf(k)
<1>1. series \in Seq(Int) /\ j \in Nat /\ k \in Nat /\ j < WindowsOf /\ k < WindowsOf
      /\ words[j + 1] = WordOf(j) /\ words[k + 1] = WordOf(k)
      /\ Words!Window(j) = x /\ Words!Window(k) = y
  BY WordsAre
<1>2. x \in Seq(Int) /\ y \in Seq(Int) /\ Words!Alike(x, y) /\ Len(x) = Len(y)
  <2>1. x \in Seq(Int) /\ y \in Seq(Int)
    BY <1>1, WindowFacts
  <2>2. Words!Alike(x, y)
    BY <1>1, Zenon
  <2> QED
    BY <2>1, <2>2, Zenon DEF Words!Alike
<1>3. PICK a \in 1 .. 2, b \in 1 .. 2, c \in Int : Scaled(x, y, a, b, c)
  BY <1>2, AlikeScales
<1>4. LettersOf(j) = LettersOf(k) /\ LettersOf(j) \in Nat /\ SectionLength \in Nat
  <2>1. LettersOf(j) = LettersOf(k)
    BY <1>2 DEF LettersOf, WindowOf
  <2> QED
    BY <1>1, <2>1, WindowFacts
<1>5. ASSUME NEW m \in 1 .. LettersOf(j) PROVE WordOf(j)[m] = WordOf(k)[m]
  <2> DEFINE u == SectionOf(x, m, SectionLength)
             v == SectionOf(y, m, SectionLength)
  <2>1. /\ u \in Seq(Int) /\ Len(u) = SectionLength
        /\ \A r \in 1 .. SectionLength : u[r] = x[(m - 1) * Symbol + r] /\ (m - 1) * Symbol + r \in 1 .. Len(x)
    BY <1>1, SectionFacts
  <2>2. /\ v \in Seq(Int) /\ Len(v) = SectionLength
        /\ \A r \in 1 .. SectionLength : v[r] = y[(m - 1) * Symbol + r]
    BY <1>1, <1>4, SectionFacts
  <2>3. /\ WordOf(j)[m] = Words!Letter(u, x, FlatLetter(j))
        /\ WordOf(k)[m] = Words!Letter(v, y, FlatLetter(k))
    BY <1>1, <1>4, WordOfType
  <2>6. FlatLetter(j) = FlatLetter(k)
    BY <1>2, Zenon DEF FlatLetter, Words!GenFlat
  <2> HIDE DEF u, v, x, y
  <2>4. Scaled(u, v, a, b, c)
    BY <1>3, <2>1, <2>2 DEF Scaled
  <2>5. Words!Letter(u, x, FlatLetter(j)) = Words!Letter(v, y, FlatLetter(j))
    BY <1>2, <1>3, <2>1, <2>2, <2>4, LettersScale
  <2> QED
    BY <2>3, <2>5, <2>6, Zenon
<1>6. WordOf(j) \in Seq(Letters4) /\ WordOf(k) \in Seq(Letters4)
      /\ Len(WordOf(j)) = LettersOf(j) /\ Len(WordOf(k)) = LettersOf(j)
  BY <1>1, <1>4, WordOfType
<1>7. WordOf(j) = WordOf(k)
  <2> DEFINE s == WordOf(j)
             t == WordOf(k)
  <2>1. /\ s \in Seq(Letters4) /\ t \in Seq(Letters4) /\ Len(s) = Len(t)
        /\ \A m \in 1 .. Len(s) : s[m] = t[m]
    BY <1>5, <1>6
  <2> HIDE DEF s, t
  <2>2. s = t
    BY <2>1
  <2> QED
    BY <2>2, Zenon DEF s, t
<1> QED
  BY <1>1, <1>7, Zenon

(* A greater mean has no lower letter. *)
LEMMA OrderIs == /\ Words!LetterOrder["a"] = 1 /\ Words!LetterOrder["b"] = 2
                 /\ Words!LetterOrder["c"] = 3 /\ Words!LetterOrder["d"] = 4
  BY DEF Words!LetterOrder

(* Products of naturals. *)
LEMMA Products == /\ \A a, b \in Nat : a * b \in Nat
                  /\ \A a, b \in Nat \ {0} : a * b \in Nat \ {0}
<1>1. \A a, b \in Nat : a * b \in Nat
  BY SMT
<1>2. \A a, b \in Nat \ {0} : a * b \in Nat \ {0}
  BY SMT
<1> QED
  BY <1>1, <1>2

(* Of two numbers in order the squares are, or the other way round. *)
Ordered(d, e, p, q) == /\ d \in Int /\ e \in Int /\ p \in Int /\ q \in Int /\ d <= e
                       /\ (e < 0 => q <= p) /\ (0 <= d => p <= q)

(* The square of the one further from 0 is greater. *)
LEMMA SquaresOrdered ==
    ASSUME NEW d \in Int, NEW e \in Int, d <= e, NEW n \in Nat
    PROVE  Ordered(d, e, d * d * n, e * e * n)
<1>1. d * d \in Int /\ e * e \in Int /\ d * d * n \in Int /\ e * e * n \in Int
  BY SMT
<1>2. \A x, y \in Int : y - x \in Nat => y * n - x * n \in Nat
  <2> SUFFICES ASSUME NEW x \in Int, NEW y \in Int, y - x \in Nat PROVE y * n - x * n \in Nat
    OBVIOUS
  <2>1. y * n - x * n = (y - x) * n
    BY SMT
  <2>2. (y - x) * n \in Nat
    BY Products
  <2> QED
    BY <2>1, <2>2
<1>3. ASSUME e < 0 PROVE e * e * n <= d * d * n
  <2>1. d * d - e * e = (e - d) * (0 - (d + e))
    BY SMT
  <2>2. e - d \in Nat /\ 0 - (d + e) \in Nat
    BY <1>3
  <2>3. d * d - e * e \in Nat
    <3> DEFINE a == e - d
               b == 0 - (d + e)
    <3>1. a \in Nat /\ b \in Nat
      BY <2>2
    <3> HIDE DEF a, b
    <3>2. a * b \in Nat
      BY <3>1, Products
    <3> QED
      BY <2>1, <3>2 DEF a, b
  <2>4. (d * d) * n - (e * e) * n \in Nat
    BY <1>1, <1>2, <2>3
  <2> QED
    BY <1>1, <2>4
<1>4. ASSUME 0 <= d PROVE d * d * n <= e * e * n
  <2>1. e * e - d * d = (e - d) * (d + e)
    BY SMT
  <2>2. e - d \in Nat /\ d + e \in Nat
    BY <1>4
  <2>3. e * e - d * d \in Nat
    <3> DEFINE a == e - d
               b == d + e
    <3>1. a \in Nat /\ b \in Nat
      BY <2>2
    <3> HIDE DEF a, b
    <3>2. a * b \in Nat
      BY <3>1, Products
    <3> QED
      BY <2>1, <3>2 DEF a, b
  <2>4. (e * e) * n - (d * d) * n \in Nat
    BY <1>1, <1>2, <2>3
  <2> QED
    BY <1>1, <2>4
<1> QED
  BY <1>1, <1>3, <1>4, Zenon DEF Ordered

(* Of two sections the one with the greater mean has no lower letter. *)
LEMMA SymbolGrows ==
    ASSUME NEW d, NEW e, NEW p, NEW q, Ordered(d, e, p, q), NEW den \in Int
    PROVE  Words!LetterOrder[Words!Symbol4(d, p, den)] <= Words!LetterOrder[Words!Symbol4(e, q, den)]
<1>1. d \in Int /\ e \in Int /\ p \in Int /\ q \in Int /\ d <= e /\ (e < 0 => q <= p) /\ (0 <= d => p <= q)
  BY DEF Ordered
<1>2. CASE d < 0
  <2>1. Words!Symbol4(d, p, den) = IF 1600 * p > 729 * den THEN "a" ELSE "b"
    BY <1>2 DEF Words!Symbol4
  <2>2. CASE e < 0
    <3>1. Words!Symbol4(e, q, den) = IF 1600 * q > 729 * den THEN "a" ELSE "b"
      BY <2>2 DEF Words!Symbol4
    <3>2. 1600 * q > 729 * den => 1600 * p > 729 * den
      BY <1>1, <2>2
    <3>3. \/ Words!Symbol4(d, p, den) = "a" /\ Words!Symbol4(e, q, den) \in {"a", "b"}
          \/ Words!Symbol4(d, p, den) = "b" /\ Words!Symbol4(e, q, den) = "b"
      BY <2>1, <3>1, <3>2
    <3> QED
      BY <3>3, OrderIs
  <2>3. CASE ~ (e < 0)
    <3>1. Words!Symbol4(e, q, den) \in {"c", "d"}
      BY <2>3 DEF Words!Symbol4
    <3>2. Words!Symbol4(d, p, den) \in {"a", "b"}
      BY <2>1
    <3> QED
      BY <3>1, <3>2, OrderIs
  <2> QED
    BY <2>2, <2>3
<1>3. CASE ~ (d < 0)
  <2>1. ~ (e < 0) /\ p <= q
    BY <1>1, <1>3
  <2>2. Words!Symbol4(d, p, den) = IF 1600 * p < 729 * den THEN "c" ELSE "d"
    BY <1>3 DEF Words!Symbol4
  <2>3. Words!Symbol4(e, q, den) = IF 1600 * q < 729 * den THEN "c" ELSE "d"
    BY <2>1 DEF Words!Symbol4
  <2>4. 1600 * q < 729 * den => 1600 * p < 729 * den
    BY <1>1, <2>1
  <2>5. \/ Words!Symbol4(d, p, den) = "c" /\ Words!Symbol4(e, q, den) \in {"c", "d"}
        \/ Words!Symbol4(d, p, den) = "d" /\ Words!Symbol4(e, q, den) = "d"
    BY <2>2, <2>3, <2>4
  <2> QED
    BY <2>5, OrderIs
<1> QED
  BY <1>2, <1>3

(* What a letter depends on. *)
Offset(u, x) == Len(x) * Words!Total(u) - Len(u) * Words!Total(x)
Spread(x)    == Len(x) * Words!Squares(x) - Words!Total(x) * Words!Total(x)

(* What a letter is, with all numbers integers. *)
LEMMA LetterIs ==
    ASSUME NEW u \in Seq(Int), NEW x \in Seq(Int), NEW flat
    PROVE  /\ Offset(u, x) \in Int /\ Spread(x) \in Int /\ Len(u) * Len(u) * Len(x) * Spread(x) \in Int
           /\ Words!Letter(u, x, flat) =
                 IF Spread(x) = 0 THEN flat
                 ELSE Words!Symbol4(Offset(u, x), Offset(u, x) * Offset(u, x) * (Len(x) - 1),
                                    Len(u) * Len(u) * Len(x) * Spread(x))
<1>1. PICK n, k, t, s, q : n = Len(x) /\ k = Len(u) /\ t = Words!Total(x) /\ s = Words!Total(u) /\ q = Words!Squares(x)
  OBVIOUS
<1>2. n \in Nat /\ k \in Nat /\ t \in Int /\ s \in Int /\ q \in Int
  BY <1>1, TotalsType
<1>3. n * s - k * t \in Int /\ n * q - t * t \in Int
  BY <1>2, SMT
<1>4. Offset(u, x) = n * s - k * t /\ Spread(x) = n * q - t * t
  BY <1>1, Zenon DEF Offset, Spread
<1>5. \A v \in Int : k * k * n * v \in Int
  BY <1>2, SMT
<1>6. k * k * n * Spread(x) \in Int
  BY <1>3, <1>4, <1>5, Zenon
<1>7. Words!Letter(u, x, flat) =
         IF Spread(x) = 0 THEN flat
         ELSE Words!Symbol4(Offset(u, x), Offset(u, x) * Offset(u, x) * (Len(x) - 1),
                            Len(u) * Len(u) * Len(x) * Spread(x))
  BY Zenon DEF Words!Letter, Offset, Spread
<1> QED
  BY <1>1, <1>3, <1>4, <1>6, <1>7, Zenon

(* A section with the greater total has no lower letter. *)
LEMMA LettersGrow ==
    ASSUME NEW x \in Seq(Int), NEW u \in Seq(Int), NEW v \in Seq(Int), Len(u) = Len(v),
           Words!Total(u) < Words!Total(v), NEW flat \in Letters4
    PROVE  Words!LetterOrder[Words!Letter(u, x, flat)] <= Words!LetterOrder[Words!Letter(v, x, flat)]
<1> DEFINE d == Offset(u, x)
           e == Offset(v, x)
           n == Len(x) - 1
           den == Len(u) * Len(u) * Len(x) * Spread(x)
<1>1. /\ d \in Int /\ e \in Int /\ den \in Int
      /\ Words!Letter(u, x, flat) = IF Spread(x) = 0 THEN flat ELSE Words!Symbol4(d, d * d * n, den)
      /\ Words!Letter(v, x, flat) = IF Spread(x) = 0 THEN flat ELSE Words!Symbol4(e, e * e * n, den)
  <2>1. d \in Int /\ den \in Int
        /\ Words!Letter(u, x, flat) = IF Spread(x) = 0 THEN flat ELSE Words!Symbol4(d, d * d * n, den)
    BY LetterIs
  <2>2. e \in Int
        /\ Words!Letter(v, x, flat) = IF Spread(x) = 0 THEN flat ELSE
              Words!Symbol4(e, e * e * n, Len(v) * Len(v) * Len(x) * Spread(x))
    BY LetterIs
  <2> QED
    BY <2>1, <2>2, Zenon
<1>2. d <= e /\ (Len(x) = 0 => d = e)
  <2>1. PICK m, k, t, s, r : m = Len(x) /\ k = Len(u) /\ t = Words!Total(x) /\ s = Words!Total(u) /\ r = Words!Total(v)
    OBVIOUS
  <2>2. m \in Nat /\ k \in Nat /\ t \in Int /\ s \in Int /\ r \in Int /\ s < r
    BY <2>1, TotalsType
  <2>3. d = m * s - k * t /\ e = m * r - k * t
    BY <2>1, Zenon DEF Offset
  <2>4. m * r - m * s = m * (r - s) /\ m * r \in Int /\ m * s \in Int /\ k * t \in Int
    BY <2>2, SMT
  <2>5. r - s \in Nat /\ m * (r - s) \in Nat
    BY <2>2, Products
  <2>6. m * s - k * t <= m * r - k * t
    BY <2>4, <2>5
  <2>7. m = 0 => m * s = 0 /\ m * r = 0
    BY <2>2
  <2> QED
    BY <2>1, <2>3, <2>6, <2>7, Zenon
<1> HIDE DEF d, e, den
<1>3. CASE Spread(x) = 0
  <2>1. Words!LetterOrder[flat] \in Int
    BY OrderIs DEF Letters4
  <2>2. Words!LetterOrder[flat] <= Words!LetterOrder[flat]
    BY <2>1
  <2> QED
    BY <1>1, <1>3, <2>2, Zenon
<1>4. CASE Spread(x) # 0 /\ Len(x) # 0
  <2>1. n \in Nat
    BY <1>4
  <2> HIDE DEF n
  <2>2. Ordered(d, e, d * d * n, e * e * n)
    BY <1>1, <1>2, <2>1, SquaresOrdered
  <2>3. Words!LetterOrder[Words!Symbol4(d, d * d * n, den)] <= Words!LetterOrder[Words!Symbol4(e, e * e * n, den)]
    BY <1>1, <2>2, SymbolGrows
  <2> QED
    BY <1>1, <1>4, <2>3, Zenon
<1>5. CASE Spread(x) # 0 /\ Len(x) = 0
  <2>1. Words!Letter(u, x, flat) = Words!Letter(v, x, flat)
    BY <1>1, <1>2, <1>5, Zenon
  <2>2. Words!LetterOrder[Words!Letter(u, x, flat)] \in Int
    <3>1. \A l \in Letters4 : Words!LetterOrder[l] \in Int
      BY OrderIs DEF Letters4
    <3>2. Words!Letter(u, x, flat) \in Letters4
      BY LetterType
    <3> QED
      BY <3>1, <3>2, Zenon
  <2>3. Words!LetterOrder[Words!Letter(u, x, flat)] <= Words!LetterOrder[Words!Letter(u, x, flat)]
    BY <2>2
  <2> QED
    BY <2>1, <2>3, Zenon
<1> QED
  BY <1>3, <1>4, <1>5

(* The mean of a section is below the mean of the window or is not. *)
LEMMA LetterSigns ==
    ASSUME NEW x \in Seq(Int), NEW u \in Seq(Int), NEW flat, Spread(x) # 0
    PROVE  /\ Offset(u, x) < 0 => Words!Letter(u, x, flat) \in {"a", "b"}
           /\ Offset(u, x) >= 0 => Words!Letter(u, x, flat) \in {"c", "d"}
<1>1. PICK d, p, den : d = Offset(u, x) /\ Words!Letter(u, x, flat) = Words!Symbol4(d, p, den)
  <2>1. Words!Letter(u, x, flat) = Words!Symbol4(Offset(u, x), Offset(u, x) * Offset(u, x) * (Len(x) - 1),
                                                 Len(u) * Len(u) * Len(x) * Spread(x))
    BY LetterIs, Zenon
  <2> QED
    BY <2>1, Zenon
<1>2. d \in Int
  BY <1>1, LetterIs
<1>3. d < 0 => Words!Symbol4(d, p, den) \in {"a", "b"}
  BY DEF Words!Symbol4
<1>4. d >= 0 => Words!Symbol4(d, p, den) \in {"c", "d"}
  BY <1>2 DEF Words!Symbol4
<1> QED
  BY <1>1, <1>3, <1>4, Zenon

(* The total of a section. *)
LiesAt(x, u, from) == /\ u \in Seq(Int) /\ from \in Nat /\ from + Len(u) <= Len(x)
                      /\ \A r \in 1 .. Len(u) : u[r] = x[from + r]

LEMMA SectionTotal ==
    ASSUME NEW x \in Seq(Int), NEW P, Prefixes(P, x), NEW u, NEW from, LiesAt(x, u, from)
    PROVE  Words!Total(u) = P[from + Len(u)] - P[from]
<1>0. u \in Seq(Int) /\ from \in Nat /\ from + Len(u) <= Len(x) /\ \A r \in 1 .. Len(u) : u[r] = x[from + r]
  BY DEF LiesAt
<1>1. PICK G : Prefixes(G, u) /\ Words!Total(u) = G[Len(u)]
  BY <1>0, TotalIs
<1>2. Len(u) \in Nat /\ Len(x) \in Nat
  BY <1>0
<1> DEFINE A == {r \in Nat : r <= Len(u) => G[r] = P[from + r] - P[from]}
<1>3. 0 \in A
  <2>1. from \in 0 .. Len(x) /\ from + 0 = from
    BY <1>0, <1>2
  <2>2. P[from] \in Int
    BY <2>1 DEF Prefixes
  <2>3. G[0] = 0
    BY <1>1 DEF Prefixes
  <2> QED
    BY <2>1, <2>2, <2>3
<1>4. ASSUME NEW r \in Nat, r \in A PROVE r + 1 \in A
  <2> SUFFICES ASSUME r + 1 <= Len(u) PROVE G[r + 1] = P[from + (r + 1)] - P[from]
    OBVIOUS
  <2>1. r \in 0 .. Len(u) - 1 /\ r + 1 \in 1 .. Len(u) /\ r \in 0 .. Len(u)
        /\ from + r \in 0 .. Len(x) - 1 /\ from + r \in 0 .. Len(x) /\ from \in 0 .. Len(x)
        /\ from + (r + 1) = (from + r) + 1 /\ (from + r) + 1 \in 1 .. Len(x)
    BY <1>0, <1>2
  <2>2. G[r + 1] = G[r] + u[r + 1]
    BY <1>1, <2>1 DEF Prefixes
  <2>3. P[(from + r) + 1] = P[from + r] + x[(from + r) + 1]
    BY <2>1 DEF Prefixes
  <2>8. u[r + 1] = x[from + (r + 1)]
    BY <1>0, <2>1
  <2>4. u[r + 1] = x[(from + r) + 1] /\ u[r + 1] \in Int
    BY <1>0, <2>1, <2>8
  <2>5. P[from + r] \in Int /\ P[from] \in Int
    BY <2>1 DEF Prefixes
  <2>6. G[r] = P[from + r] - P[from]
    BY <1>4, <2>1
  <2>7. P[from + (r + 1)] = P[from + r] + u[r + 1]
    BY <2>1, <2>3, <2>4, Zenon
  <2>9. PICK g, pr, pf, a : g = G[r] /\ pr = P[from + r] /\ pf = P[from] /\ a = u[r + 1]
    OBVIOUS
  <2>10. pr \in Int /\ pf \in Int /\ a \in Int
    BY <2>4, <2>5, <2>9
  <2>11. g = pr - pf => g + a = (pr + a) - pf
    BY <2>10
  <2> QED
    BY <2>2, <2>6, <2>7, <2>9, <2>11, Zenon
<1>5. \A r \in Nat : r \in A
  <2> HIDE DEF A
  <2> QED
    BY <1>3, <1>4, NaturalsFrom
<1>6. G[Len(u)] = P[from + Len(u)] - P[from]
  BY <1>2, <1>5
<1> QED
  BY <1>1, <1>6

(* Numbers none of which is negative sum to a positive number if one is.   *)
LEMMA SumsArePositive ==
    ASSUME NEW s \in Seq(Int), NEW P, Prefixes(P, s), \A m \in 1 .. Len(s) : s[m] >= 0,
           NEW k \in 1 .. Len(s), s[k] > 0
    PROVE  P[Len(s)] > 0
<1> DEFINE A == {m \in Nat : m <= Len(s) => P[m] >= 0 /\ (m >= k => P[m] > 0)}
<1>1. 0 \in A
  BY DEF Prefixes
<1>2. ASSUME NEW m \in Nat, m \in A PROVE m + 1 \in A
  <2> SUFFICES ASSUME m + 1 <= Len(s) PROVE P[m + 1] >= 0 /\ (m + 1 >= k => P[m + 1] > 0)
    OBVIOUS
  <2>1. m \in 0 .. Len(s) - 1 /\ m \in 0 .. Len(s) /\ m + 1 \in 1 .. Len(s)
    OBVIOUS
  <2>2. P[m + 1] = P[m] + s[m + 1] /\ P[m] \in Int /\ s[m + 1] \in Int
    BY <2>1 DEF Prefixes
  <2>5. s[m + 1] >= 0
    BY <2>1
  <2>3. P[m] >= 0 /\ (m >= k => P[m] > 0)
    BY <1>2, <2>1
  <2>4. m + 1 >= k => m >= k \/ m + 1 = k
    OBVIOUS
  <2> QED
    BY <2>2, <2>3, <2>4, <2>5
<1>3. \A m \in Nat : m \in A
  <2> HIDE DEF A
  <2> QED
    BY <1>1, <1>2, NaturalsFrom
<1> QED
  BY <1>3

(* Negative numbers sum to a negative one. *)
LEMMA SumsAreNegative ==
    ASSUME NEW s \in Seq(Int), NEW P, Prefixes(P, s), \A m \in 1 .. Len(s) : s[m] < 0, Len(s) > 0
    PROVE  P[Len(s)] < 0
<1> DEFINE A == {m \in Nat : m <= Len(s) => P[m] \in Int /\ P[m] <= 0 /\ (m > 0 => P[m] < 0)}
<1>1. 0 \in A
  BY DEF Prefixes
<1>2. ASSUME NEW m \in Nat, m \in A PROVE m + 1 \in A
  <2> SUFFICES ASSUME m + 1 <= Len(s) PROVE P[m + 1] \in Int /\ P[m + 1] < 0
    OBVIOUS
  <2>1. m \in 0 .. Len(s) - 1 /\ m \in 0 .. Len(s) /\ m + 1 \in 1 .. Len(s)
    OBVIOUS
  <2>2. P[m + 1] = P[m] + s[m + 1] /\ P[m] \in Int /\ s[m + 1] \in Int /\ s[m + 1] < 0
    BY <2>1 DEF Prefixes
  <2>3. P[m] <= 0
    BY <1>2, <2>1
  <2> QED
    BY <2>2, <2>3
<1>3. \A m \in Nat : m \in A
  <2> HIDE DEF A
  <2> QED
    BY <1>1, <1>2, NaturalsFrom
<1> QED
  BY <1>3

(* A window without deviation is flat: its samples are its mean. *)
LEMMA NoSpreadIsFlat ==
    ASSUME NEW x \in Seq(Int), Spread(x) = 0
    PROVE  \A m \in 1 .. Len(x) : Len(x) * x[m] = Words!Total(x)
<1>1. PICK n, t, q : n = Len(x) /\ t = Words!Total(x) /\ q = Words!Squares(x)
  OBVIOUS
<1>2. n \in Nat /\ t \in Int /\ q \in Int /\ n * q - t * t = 0
  <2>1. n \in Nat /\ t \in Int /\ q \in Int
    BY <1>1, TotalsType
  <2>2. n * q - t * t = 0
    BY <1>1, Zenon DEF Spread
  <2> QED
    BY <2>1, <2>2, Zenon
<1> DEFINE s == [m \in 1 .. n |-> (n * x[m] - t) * (n * x[m] - t)]
           f == SquaresOf(x)
<1>3. \A m \in 1 .. n : n * x[m] - t \in Int
  <2>1. \A m \in 1 .. n : x[m] \in Int
    BY <1>1
  <2> QED
    BY <1>2, <2>1, Distributes
<1>4. \A a \in Int : a * a \in Int /\ a * a >= 0 /\ (a # 0 => a * a > 0)
  BY SMT
<1>5. /\ DOMAIN s = 1 .. n /\ s = [m \in 1 .. n |-> s[m]]
      /\ \A m \in 1 .. n : /\ s[m] \in Int /\ s[m] >= 0 /\ (n * x[m] - t # 0 => s[m] > 0)
                           /\ s[m] = (n * x[m] - t) * (n * x[m] - t)
  BY <1>3, <1>4
<1> HIDE DEF s
<1>6. s \in Seq(Int) /\ Len(s) = n
  <2>1. s = [m \in 1 .. n |-> s[m]] /\ \A m \in 1 .. n : s[m] \in Int
    BY <1>5, Zenon
  <2>2. n \in Nat
    BY <1>2, Zenon
  <2>3. s \in [1 .. n -> Int]
    BY <2>1, Zenon
  <2>4. \A b \in Nat : \A h \in [1 .. b -> Int] : h \in Seq(Int) /\ Len(h) = b
    OBVIOUS
  <2> QED
    BY <2>2, <2>3, <2>4, Zenon
<1>7. PICK W : Prefixes(W, s)
  BY <1>6, TotalIs
<1>8. PICK Q : Prefixes(Q, f) /\ q = Q[n]
  BY <1>1, SquaresIs
<1>9. PICK P : Prefixes(P, x) /\ t = P[n]
  BY <1>1, TotalIs
<1>10. f \in Seq(Int) /\ Len(f) = n /\ \A m \in 1 .. n : f[m] = x[m] * x[m]
  BY <1>1, SquaresIs DEF SquaresOf
<1> HIDE DEF f
<1>11. PICK nn, nt, tt : nn = n * n /\ nt = (0 - 2) * (n * t) /\ tt = t * t
  OBVIOUS
<1>12. nn \in Int /\ nt \in Int /\ tt \in Int
  BY <1>2, <1>11, SMT
<1>13. Combined(n, s, f, x, 1, nn, nt, tt)
  <2> SUFFICES ASSUME NEW m \in 1 .. n PROVE 1 * s[m] = nn * f[m] + nt * x[m] + tt
    BY DEF Combined
  <2>1. PICK a : a = x[m]
    OBVIOUS
  <2>2. a \in Int
    BY <1>1, <2>1
  <2>3. (n * a - t) * (n * a - t) = (n * n) * (a * a) + ((0 - 2) * (n * t)) * a + t * t
    BY <1>2, <2>2, SMT
  <2>4. s[m] = nn * f[m] + nt * x[m] + tt
    BY <1>5, <1>10, <1>11, <2>1, <2>3, Zenon
  <2>5. 1 * s[m] = s[m]
    BY <1>5
  <2> QED
    BY <2>4, <2>5, Zenon
<1>14. 1 * W[n] = nn * Q[n] + nt * P[n] + n * tt
  <2>1. Len(x) = n /\ 1 \in Int
    BY <1>1
  <2> QED
    BY <1>2, <1>6, <1>7, <1>8, <1>9, <1>10, <1>12, <1>13, <2>1, SumsCombine
<1>15. W[n] = 0
  <2>1. nn * q + nt * t + n * tt = n * (n * q - t * t)
    <3>1. (n * n) * q + ((0 - 2) * (n * t)) * t + n * (t * t) = n * (n * q - t * t)
      BY <1>2, SMT
    <3> QED
      BY <1>11, <3>1, Zenon
  <2>2. n * (n * q - t * t) = 0
    BY <1>2
  <2>3. 1 * W[n] = 0
    BY <1>8, <1>9, <1>14, <2>1, <2>2, Zenon
  <2>4. W[n] \in Int
    BY <1>2, <1>6, <1>7 DEF Prefixes
  <2> QED
    BY <2>3, <2>4
<1>16. ASSUME NEW m \in 1 .. n PROVE n * x[m] = t
  <2>1. CASE n * x[m] - t # 0
    <3>1. s[m] > 0
      BY <1>5, <2>1
    <3>2. W[Len(s)] > 0
      BY <1>5, <1>6, <1>7, <3>1, SumsArePositive
    <3> QED
      BY <1>6, <1>15, <3>2
  <2>2. CASE n * x[m] - t = 0
    <3>1. n * x[m] \in Int
      <4>1. x[m] \in Int
        BY <1>1
      <4> QED
        BY <1>2, <4>1, Distributes
    <3> QED
      BY <1>2, <2>2, <3>1
  <2> QED
    BY <2>1, <2>2
<1> QED
  BY <1>1, <1>16, Zenon

(* Where sections fill a window and differ, some are below its mean and    *)
(* some are not.                                                           *)
LEMMA BothSides ==
    ASSUME series \in Seq(Int), NEW k \in Nat, k < WindowsOf, prog = "saxutil",
           Len(WindowOf(k)) = LettersOf(k) * Symbol,
           NEW j \in 1 .. LettersOf(k), NEW q \in 1 .. LettersOf(k),
           Words!Total(SectionOf(WindowOf(k), j, Symbol)) < Words!Total(SectionOf(WindowOf(k), q, Symbol))
    PROVE  /\ \E m \in 1 .. LettersOf(k) : WordOf(k)[m] \in {"a", "b"}
           /\ \E m \in 1 .. LettersOf(k) : WordOf(k)[m] \in {"c", "d"}
<1> DEFINE x == WindowOf(k)
           L == LettersOf(k)
           U(m) == SectionOf(x, m, Symbol)
<1>1. /\ x \in Seq(Int) /\ L \in Nat /\ Len(x) > 0 /\ Len(x) \in Nat /\ Len(x) = L * Symbol /\ Symbol \in Nat \ {0}
  BY WindowFacts, WordFacts
<1>2. SectionLength = Symbol
  BY DEF SectionLength
<1>3. \A m \in 1 .. L : /\ U(m) \in Seq(Int) /\ Len(U(m)) = Symbol
                        /\ \A r \in 1 .. Symbol : /\ U(m)[r] = x[(m - 1) * Symbol + r]
                                                  /\ (m - 1) * Symbol + r \in 1 .. Len(x)
  BY <1>2, SectionFacts
<1>4. \A m \in 1 .. L : WordOf(k)[m] = Words!Letter(U(m), x, FlatLetter(k))
  BY <1>2, WordOfType
<1>5. \A m \in 1 .. L : (m - 1) * Symbol \in Nat /\ (m - 1) * Symbol + Symbol <= Len(x)
  BY <1>2, WindowFacts
<1>6. Words!Total(U(j)) < Words!Total(U(q)) /\ j \in 1 .. L /\ q \in 1 .. L
  OBVIOUS
<1> HIDE DEF x, L, U
<1>7. PICK P : Prefixes(P, x) /\ Words!Total(x) = P[Len(x)]
  BY <1>1, TotalIs
<1>8. \A m \in 1 .. L : Words!Total(U(m)) = P[(m - 1) * Symbol + Symbol] - P[(m - 1) * Symbol]
  <2> SUFFICES ASSUME NEW m \in 1 .. L
               PROVE  Words!Total(U(m)) = P[(m - 1) * Symbol + Symbol] - P[(m - 1) * Symbol]
    OBVIOUS
  <2>1. PICK from : from = (m - 1) * Symbol
    OBVIOUS
  <2>5. U(m) \in Seq(Int) /\ Len(U(m)) = Symbol
    BY <1>3, Zenon
  <2>6. from \in Nat /\ from + Symbol <= Len(x)
    BY <1>5, <2>1, Zenon
  <2>2. from \in Nat /\ from + Len(U(m)) <= Len(x) /\ U(m) \in Seq(Int) /\ Len(U(m)) = Symbol
    BY <2>5, <2>6, Zenon
  <2>3. \A r \in 1 .. Len(U(m)) : U(m)[r] = x[from + r]
    BY <1>3, <2>1, <2>2, Zenon
  <2>7. LiesAt(x, U(m), from)
    BY <2>2, <2>3, Zenon DEF LiesAt
  <2>4. Words!Total(U(m)) = P[from + Len(U(m))] - P[from]
    BY <1>1, <1>7, <2>7, SectionTotal
  <2> QED
    BY <2>1, <2>2, <2>4, Zenon
<1>9. PICK n, t : n = Len(x) /\ t = Words!Total(x)
  OBVIOUS
<1>10. n \in Nat \ {0} /\ n \in Int /\ t \in Int /\ \A m \in 1 .. L : Words!Total(U(m)) \in Int
  BY <1>1, <1>3, <1>9, TotalsType
<1>11. Spread(x) # 0
  <2> SUFFICES ASSUME Spread(x) = 0 PROVE FALSE
    OBVIOUS
  <2>1. \A r \in 1 .. Len(x) : n * x[r] = t
    BY <1>1, <1>9, NoSpreadIsFlat
  <2>2. ASSUME NEW m \in 1 .. L PROVE n * Words!Total(U(m)) = Symbol * t
    <3>1. Scaled(U(m), U(m), n, 0, t)
      <4>1. \A r \in 1 .. Symbol : n * U(m)[r] = t
        <5> SUFFICES ASSUME NEW r \in 1 .. Symbol PROVE n * U(m)[r] = t
          OBVIOUS
        <5>1. PICK p \in 1 .. Len(x) : U(m)[r] = x[p]
          BY <1>3, Zenon
        <5> QED
          BY <2>1, <5>1, Zenon
      <4>2. \A r \in 1 .. Symbol : 0 * U(m)[r] + t = t
        <5> SUFFICES ASSUME NEW r \in 1 .. Symbol PROVE 0 * U(m)[r] + t = t
          OBVIOUS
        <5>1. r \in 1 .. Len(U(m)) /\ U(m) \in Seq(Int)
          BY <1>3, Zenon
        <5>2. U(m)[r] \in Int
          BY <5>1
        <5> QED
          BY <1>10, <5>2
      <4> QED
        BY <1>3, <4>1, <4>2, Zenon DEF Scaled
    <3>2. 0 \in Int
      OBVIOUS
    <3>3. n * Words!Total(U(m)) = 0 * Words!Total(U(m)) + Len(U(m)) * t
      BY <1>3, <1>10, <3>1, <3>2, TotalsScale
    <3>4. 0 * Words!Total(U(m)) + Symbol * t = Symbol * t
      <4>1. Symbol * t \in Int
        BY <1>1, <1>10, Distributes
      <4> QED
        BY <1>10, <4>1
    <3> QED
      BY <1>3, <3>3, <3>4, Zenon
  <2>3. n * Words!Total(U(j)) = n * Words!Total(U(q))
    BY <1>6, <2>2, Zenon
  <2>4. \A a, b \in Int : a < b => n * a # n * b
    <3> SUFFICES ASSUME NEW a \in Int, NEW b \in Int, a < b, n * a = n * b PROVE FALSE
      OBVIOUS
    <3>1. n * (b - a) = n * b - n * a /\ n * a \in Int
      BY <1>10, Distributes
    <3>2. b - a \in Nat \ {0}
      OBVIOUS
    <3>3. n * (b - a) \in Nat \ {0}
      BY <1>10, <3>2, Products
    <3> QED
      BY <3>1, <3>3
  <2> QED
    BY <1>6, <1>10, <2>3, <2>4
<1> DEFINE d == [m \in 1 .. L |-> Offset(U(m), x)]
           D == [m \in 0 .. L |-> n * P[m * Symbol] - (m * Symbol) * t]
<1>12. \A m \in 1 .. L : Offset(U(m), x) = n * Words!Total(U(m)) - Symbol * t /\ Offset(U(m), x) \in Int
  BY <1>1, <1>3, <1>9, LetterIs, Zenon DEF Offset
<1>13. d \in Seq(Int) /\ Len(d) = L /\ \A m \in 1 .. L : d[m] = Offset(U(m), x)
  <2>1. d \in [1 .. L -> Int]
    BY <1>12
  <2>2. \A b \in Nat : \A h \in [1 .. b -> Int] : h \in Seq(Int) /\ Len(h) = b
    OBVIOUS
  <2>3. \A m \in 1 .. L : d[m] = Offset(U(m), x)
    OBVIOUS
  <2> HIDE DEF d
  <2> QED
    BY <1>1, <2>1, <2>2, <2>3, Zenon
<1>14. \A m \in 0 .. L : m * Symbol \in Nat /\ m * Symbol <= Len(x) /\ P[m * Symbol] \in Int
  <2> SUFFICES ASSUME NEW m \in 0 .. L PROVE m * Symbol \in Nat /\ m * Symbol <= Len(x) /\ P[m * Symbol] \in Int
    OBVIOUS
  <2>1. m \in Nat /\ m <= L
    BY <1>1
  <2>2. m * Symbol \in Nat /\ m * Symbol <= L * Symbol
    BY <1>1, <2>1, FeatureFacts
  <2>3. m * Symbol <= Len(x)
    BY <1>1, <2>2, Zenon
  <2>4. m * Symbol \in 0 .. Len(x)
    BY <1>1, <2>2, <2>3
  <2> QED
    BY <1>7, <2>2, <2>3, <2>4 DEF Prefixes
<1>15. \A m \in 0 .. L : D[m] \in Int /\ D[m] = n * P[m * Symbol] - (m * Symbol) * t
  <2> SUFFICES ASSUME NEW m \in 0 .. L PROVE D[m] \in Int /\ D[m] = n * P[m * Symbol] - (m * Symbol) * t
    OBVIOUS
  <2>1. n * P[m * Symbol] \in Int
    BY <1>10, <1>14, Distributes
  <2>2. (m * Symbol) * t \in Int
    <3>1. m * Symbol \in Int
      BY <1>14
    <3> QED
      BY <1>10, <3>1, Distributes
  <2>3. D[m] = n * P[m * Symbol] - (m * Symbol) * t
    OBVIOUS
  <2> HIDE DEF D
  <2> QED
    BY <2>1, <2>2, <2>3
<1>16. DOMAIN D = 0 .. L /\ D = [m \in 0 .. L |-> D[m]]
  OBVIOUS
<1> HIDE DEF d, D
<1>17. D \in [0 .. L -> Int]
  BY <1>15, <1>16
<1>18. D[0] = 0
  <2>1. 0 \in 0 .. L /\ 0 * Symbol = 0
    BY <1>1
  <2>2. P[0] = 0
    BY <1>7 DEF Prefixes
  <2>3. D[0] = n * 0 - 0 * t
    BY <1>15, <2>1, <2>2, Zenon
  <2> QED
    BY <1>10, <2>3
<1>19. D[L] = 0
  <2>1. L \in 0 .. L
    BY <1>1
  <2>2. P[L * Symbol] = t /\ L * Symbol = n
    BY <1>1, <1>7, <1>9, Zenon
  <2>3. D[L] = n * t - n * t
    BY <1>15, <2>1, <2>2, Zenon
  <2>4. n * t \in Int
    BY <1>10, Distributes
  <2> QED
    BY <2>3, <2>4
<1>20. ASSUME NEW m \in 0 .. L - 1 PROVE D[m + 1] = D[m] + d[m + 1]
  <2>1. m \in 0 .. L /\ m + 1 \in 0 .. L /\ m + 1 \in 1 .. L /\ m \in Nat /\ (m + 1) - 1 = m
    BY <1>1
  <2>2. (m + 1) * Symbol = m * Symbol + Symbol /\ m * Symbol \in Nat
    BY <1>1, <1>14, <2>1, SMT
  <2>3. Words!Total(U(m + 1)) = P[(m + 1) * Symbol] - P[m * Symbol]
    BY <1>8, <2>1, <2>2, Zenon
  <2>4. D[m + 1] = n * P[(m + 1) * Symbol] - ((m + 1) * Symbol) * t /\ D[m] = n * P[m * Symbol] - (m * Symbol) * t
    BY <1>15, <2>1, Zenon
  <2>5. d[m + 1] = n * Words!Total(U(m + 1)) - Symbol * t
    BY <1>12, <1>13, <2>1, Zenon
  <2>6. PICK a, b, c : a = P[m * Symbol] /\ b = P[(m + 1) * Symbol] /\ c = m * Symbol
    OBVIOUS
  <2>9. m * Symbol \in Nat /\ P[m * Symbol] \in Int /\ P[(m + 1) * Symbol] \in Int
    BY <1>14, <2>1, Zenon
  <2>10. a \in Int /\ b \in Int /\ c \in Nat
    BY <2>6, <2>9, Zenon
  <2>7. a \in Int /\ b \in Int /\ c \in Int /\ Symbol \in Int
    BY <1>1, <2>10
  <2>8. n * b - (c + Symbol) * t = (n * a - c * t) + (n * (b - a) - Symbol * t)
    BY <1>10, <2>7, SMT
  <2> QED
    BY <2>2, <2>3, <2>4, <2>5, <2>6, <2>8, Zenon
<1>21. Prefixes(D, d) /\ D[Len(d)] = 0
  BY <1>13, <1>17, <1>18, <1>19, <1>20 DEF Prefixes
<1>22. \E m \in 1 .. L : d[m] < 0
  <2> SUFFICES ASSUME \A m \in 1 .. L : ~ (d[m] < 0) PROVE FALSE
    OBVIOUS
  <2>1. \A m \in 1 .. L : d[m] \in Int
    BY <1>12, <1>13, Zenon
  <2>2. \A m \in 1 .. Len(d) : d[m] >= 0
    BY <1>13, <2>1
  <2>3. d[q] > 0
    <3>1. d[j] = n * Words!Total(U(j)) - Symbol * t /\ d[q] = n * Words!Total(U(q)) - Symbol * t
      BY <1>6, <1>12, <1>13, Zenon
    <3>2. PICK a, b, c, e, f : /\ a = Words!Total(U(j)) /\ b = Words!Total(U(q)) /\ c = Symbol * t
                               /\ e = n * Words!Total(U(j)) /\ f = n * Words!Total(U(q))
      OBVIOUS
    <3>3. a \in Int /\ b \in Int /\ a < b
      BY <1>6, <1>10, <3>2
    <3>4. n * (b - a) = n * b - n * a /\ n * a \in Int /\ n * b \in Int
      BY <1>10, <3>3, Distributes
    <3>5. b - a \in Nat \ {0}
      BY <3>3
    <3>6. n * (b - a) \in Nat \ {0}
      BY <1>10, <3>5, Products
    <3>7. n * b - n * a > 0
      BY <3>4, <3>6
    <3>8. e \in Int /\ f \in Int /\ f - e > 0
      BY <3>2, <3>4, <3>7, Zenon
    <3>9. c \in Int
      <4>1. Symbol * t \in Int
        BY <1>1, <1>10, Distributes
      <4> QED
        BY <3>2, <4>1, Zenon
    <3>10. d[j] = e - c /\ d[q] = f - c
      BY <3>1, <3>2, Zenon
    <3>11. d[j] >= 0
      BY <1>6, <1>13, <2>2
    <3> QED
      BY <3>8, <3>9, <3>10, <3>11
  <2>4. q \in 1 .. Len(d)
    BY <1>6, <1>13
  <2>5. D[Len(d)] > 0
    BY <1>13, <1>21, <2>2, <2>3, <2>4, SumsArePositive
  <2> QED
    BY <1>21, <2>5
<1>23. \E m \in 1 .. L : d[m] >= 0
  <2> SUFFICES ASSUME \A m \in 1 .. L : ~ (d[m] >= 0) PROVE FALSE
    OBVIOUS
  <2>1. \A m \in 1 .. L : d[m] \in Int
    BY <1>12, <1>13, Zenon
  <2>2. \A m \in 1 .. Len(d) : d[m] < 0
    BY <1>13, <2>1
  <2>3. Len(d) > 0
    BY <1>1, <1>6, <1>13
  <2>4. D[Len(d)] < 0
    BY <1>13, <1>21, <2>2, <2>3, SumsAreNegative
  <2> QED
    BY <1>21, <2>4
<1>24. \A m \in 1 .. L : /\ d[m] < 0 => WordOf(k)[m] \in {"a", "b"}
                         /\ d[m] >= 0 => WordOf(k)[m] \in {"c", "d"}
  <2> SUFFICES ASSUME NEW m \in 1 .. L PROVE /\ d[m] < 0 => WordOf(k)[m] \in {"a", "b"}
                                             /\ d[m] >= 0 => WordOf(k)[m] \in {"c", "d"}
    OBVIOUS
  <2>1. /\ Offset(U(m), x) < 0 => Words!Letter(U(m), x, FlatLetter(k)) \in {"a", "b"}
        /\ Offset(U(m), x) >= 0 => Words!Letter(U(m), x, FlatLetter(k)) \in {"c", "d"}
    BY <1>1, <1>3, <1>11, LetterSigns
  <2> QED
    BY <1>4, <1>13, <2>1, Zenon
<1>25. /\ \E m \in 1 .. L : WordOf(k)[m] \in {"a", "b"}
       /\ \E m \in 1 .. L : WordOf(k)[m] \in {"c", "d"}
  BY <1>22, <1>23, <1>24, Zenon
<1> QED
  BY <1>25, Zenon DEF L

(* Letters follow the samples. *)
LEMMA LettersFollow == ASSUME WordsInv PROVE Words!LettersFollowSamples
<1> DEFINE data(n) == Words!Window(n - 1)
           length == IF prog = "saxutil" THEN Symbol ELSE Symbol - 1
           cut(n) == Words!Sections(data(n), Len(words[n]), length)
<1>1. ASSUME NEW n \in 1 .. Len(words)
      PROVE  /\ \A j, k \in DOMAIN cut(n) :
                   Words!Total(cut(n)[j]) < Words!Total(cut(n)[k])
                   => Words!LetterOrder[words[n][j]] <= Words!LetterOrder[words[n][k]]
             /\ (prog = "saxutil" /\ Len(data(n)) = Len(words[n]) * Symbol
                   /\ \E j, k \in DOMAIN cut(n) : Words!Total(cut(n)[j]) # Words!Total(cut(n)[k]))
                => Words!Range(words[n]) \cap {"a", "b"} # {} /\ Words!Range(words[n]) \cap {"c", "d"} # {}
  <2>1. PICK k : k = n - 1
    OBVIOUS
  <2>2. k \in 0 .. Len(words) - 1 /\ k + 1 = n
    BY <2>1
  <2>3. series \in Seq(Int) /\ k \in Nat /\ k < WindowsOf /\ words[n] = WordOf(k) /\ data(n) = WindowOf(k)
    BY <2>1, <2>2, WordsAre, Zenon
  <2> DEFINE x == WindowOf(k)
             L == LettersOf(k)
             U(m) == SectionOf(x, m, SectionLength)
             word == WordOf(k)
  <2>4. /\ x \in Seq(Int) /\ L \in Nat
        /\ \A m \in 1 .. L : U(m) \in Seq(Int) /\ Len(U(m)) = SectionLength
        /\ word \in Seq(Letters4) /\ Len(word) = L
        /\ \A m \in 1 .. L : word[m] = Words!Letter(U(m), x, FlatLetter(k))
    BY <2>3, WindowFacts, SectionFacts, WordOfType
  <2>5. cut(n) = [m \in 1 .. L |-> U(m)]
    <3>1. cut(n) = [m \in 1 .. Len(words[n]) |-> SubSeq(x, (m - 1) * Symbol + 1, (m - 1) * Symbol + SectionLength)]
      BY <2>3, Zenon DEF Words!Sections, SectionLength
    <3> QED
      BY <2>3, <2>4, <3>1, Zenon DEF SectionOf
  <2>6. ASSUME prog = "saxutil", Len(x) = L * Symbol,
               NEW j \in 1 .. L, NEW m \in 1 .. L, Words!Total(U(j)) < Words!Total(U(m))
        PROVE  (\E r \in 1 .. L : word[r] \in {"a", "b"}) /\ (\E r \in 1 .. L : word[r] \in {"c", "d"})
    <3>1. SectionLength = Symbol
      BY <2>6 DEF SectionLength
    <3>2. Words!Total(SectionOf(WindowOf(k), j, Symbol)) < Words!Total(SectionOf(WindowOf(k), m, Symbol))
      BY <2>6, <3>1
    <3> QED
      BY <2>3, <2>6, <3>2, BothSides
  <2> HIDE DEF data, cut, length, x, L, U, word
  <2>7. ASSUME NEW j \in DOMAIN cut(n), NEW m \in DOMAIN cut(n), Words!Total(cut(n)[j]) < Words!Total(cut(n)[m])
        PROVE  Words!LetterOrder[words[n][j]] <= Words!LetterOrder[words[n][m]]
    <3>1. j \in 1 .. L /\ m \in 1 .. L /\ cut(n)[j] = U(j) /\ cut(n)[m] = U(m)
      BY <2>5, <2>7
    <3>2. Words!Total(U(j)) < Words!Total(U(m))
      BY <2>7, <3>1
    <3>3. U(j) \in Seq(Int) /\ U(m) \in Seq(Int) /\ Len(U(j)) = Len(U(m))
      BY <2>4, <3>1
    <3>4. FlatLetter(k) \in Letters4
      BY FlatLetters, Zenon DEF FlatLetter, Words!GenFlat
    <3>5. Words!LetterOrder[Words!Letter(U(j), x, FlatLetter(k))] <= Words!LetterOrder[Words!Letter(U(m), x, FlatLetter(k))]
      BY <2>4, <3>2, <3>3, <3>4, LettersGrow
    <3>6. words[n][j] = Words!Letter(U(j), x, FlatLetter(k)) /\ words[n][m] = Words!Letter(U(m), x, FlatLetter(k))
      BY <2>3, <2>4, <3>1, Zenon DEF word
    <3> QED
      BY <3>5, <3>6, Zenon
  <2>8. ASSUME prog = "saxutil", Len(data(n)) = Len(words[n]) * Symbol,
               NEW j \in DOMAIN cut(n), NEW m \in DOMAIN cut(n), Words!Total(cut(n)[j]) # Words!Total(cut(n)[m])
        PROVE  Words!Range(words[n]) \cap {"a", "b"} # {} /\ Words!Range(words[n]) \cap {"c", "d"} # {}
    <3>1. j \in 1 .. L /\ m \in 1 .. L /\ cut(n)[j] = U(j) /\ cut(n)[m] = U(m)
      BY <2>5, <2>8
    <3>2. words[n] = word /\ data(n) = x
      BY <2>3 DEF word, x
    <3>3. Len(x) = L * Symbol
      BY <2>4, <2>8, <3>2, Zenon
    <3>4. Words!Total(U(j)) \in Int /\ Words!Total(U(m)) \in Int
      BY <2>4, <3>1, TotalsType
    <3>5. Words!Total(U(j)) < Words!Total(U(m)) \/ Words!Total(U(m)) < Words!Total(U(j))
      BY <2>8, <3>1, <3>4
    <3>6. (\E r \in 1 .. L : word[r] \in {"a", "b"}) /\ (\E r \in 1 .. L : word[r] \in {"c", "d"})
      BY <2>6, <2>8, <3>1, <3>3, <3>5
    <3>7. DOMAIN word = 1 .. L
      BY <2>4
    <3>8. Words!Range(word) = {word[r] : r \in DOMAIN word}
      BY DEF Words!Range
    <3> QED
      BY <3>2, <3>6, <3>7, <3>8, Zenon
  <2> QED
    BY <2>7, <2>8, Zenon
<1> QED
  BY <1>1, Zenon DEF Words!LettersFollowSamples

(* The words of saxutil are as long as the counts of windows take them to  *)
(* be, and those of a tool equally long.                                   *)
LEMMA LengthsAre ==
    ASSUME WordsInv, NEW k \in 0 .. Len(words) - 1
    PROVE  /\ Len(words[k + 1]) = LettersOf(k)
           /\ prog = "saxutil" => LettersOf(k) = WordLength(k, Len(series), Fwin, Symbol) /\ k <= Len(series)
           /\ prog # "saxutil" => LettersOf(k) = ToolLetters
<1>1. series \in Seq(Int) /\ k \in Nat /\ k < WindowsOf /\ words[k + 1] = WordOf(k)
  BY WordsAre
<1>2. Len(words[k + 1]) = LettersOf(k)
  BY <1>1, WordOfType
<1>3. ASSUME prog = "saxutil" PROVE LettersOf(k) = WordLength(k, Len(series), Fwin, Symbol) /\ k <= Len(series)
  <2> DEFINE F == Words!Feature
             to == IF k < Len(series) - F THEN k + F ELSE Len(series)
  <2>1. F \in Nat \ {0} /\ Symbol \in Nat \ {0} /\ Fwin \in Nat \ {0} /\ Len(series) \in Nat /\ F = Fwin * Symbol
    <3>1. Len(series) \in Nat
      BY <1>1
    <3>2. F = Fwin * Symbol
      BY Zenon DEF Words!Feature
    <3> QED
      BY <3>1, <3>2, WordFacts, FeatureFacts, Zenon
  <2>2. k < Len(series)
    BY <1>1, <1>3 DEF WindowsOf
  <2>3. Words!GenWindow(k) = SubSeq(series, k + 1, to)
    BY Zenon DEF Words!GenWindow
  <2> HIDE DEF F
  <2>4. to \in Int /\ to <= Len(series) /\ k + 1 <= to /\ k + 1 \in Nat \ {0}
    BY <1>1, <2>1, <2>2
  <2>5. Len(Words!GenWindow(k)) = to - k
    <3> HIDE DEF to
    <3>1. Len(Words!GenWindow(k)) = (IF k + 1 <= to THEN to - (k + 1) + 1 ELSE 0)
      BY <1>1, <2>3, <2>4, PartOf
    <3> QED
      BY <1>1, <2>4, <3>1
  <2>6. LettersOf(k) = Len(Words!GenWindow(k)) \div Symbol
    BY <1>3, Zenon DEF LettersOf
  <2>7. CASE k < Len(series) - F
    <3>1. Len(Words!GenWindow(k)) = F
      BY <1>1, <2>1, <2>5, <2>7
    <3>2. (Fwin * Symbol) \div Symbol = Fwin
      <4>1. \A a \in Nat : (a * Symbol) \div Symbol = a
        BY <2>1, SMT
      <4> QED
        BY <2>1, <4>1
    <3>3. WordLength(k, Len(series), Fwin, Symbol) = Fwin
      BY <2>1, <2>7, Zenon DEF WordLength
    <3> QED
      BY <2>1, <2>2, <2>6, <3>1, <3>2, <3>3
  <2>8. CASE ~ (k < Len(series) - F)
    <3>1. Len(Words!GenWindow(k)) = Len(series) - k
      BY <2>5, <2>8
    <3>2. WordLength(k, Len(series), Fwin, Symbol) = (Len(series) - k) \div Symbol
      BY <2>1, <2>8, Zenon DEF WordLength
    <3>3. k <= Len(series)
      BY <1>1, <2>1, <2>2
    <3> QED
      BY <2>6, <3>1, <3>2, <3>3, Zenon
  <2> QED
    BY <2>7, <2>8
<1>4. prog # "saxutil" => LettersOf(k) = ToolLetters
  BY Zenon DEF LettersOf
<1> QED
  BY <1>2, <1>3, <1>4

(* No word is longer than the one before it, and those of saxutil are as   *)
(* long as the counts of windows take them to be.                          *)
LEMMA WordsGetShorter ==
    ASSUME WordsInv
    PROVE  /\ Words!WordsNeverGrow
           /\ prog = "saxutil" => \A k \in DOMAIN words : Len(words[k]) = WordLength(k - 1, Len(series), Fwin, Symbol)
<1>1. Len(words) \in Nat /\ DOMAIN words = 1 .. Len(words) /\ Len(series) \in Nat /\ Symbol \in Nat \ {0} /\ Fwin \in Nat \ {0}
  BY WordFacts DEF WordsInv
<1>2. \A k \in 1 .. Len(words) : k - 1 \in 0 .. Len(words) - 1 /\ (k - 1) + 1 = k
  BY <1>1
<1>3. ASSUME prog = "saxutil", NEW k \in 1 .. Len(words)
      PROVE  Len(words[k]) = WordLength(k - 1, Len(series), Fwin, Symbol) /\ k - 1 <= Len(series)
  <2>1. PICK j : j = k - 1
    OBVIOUS
  <2>2. j \in 0 .. Len(words) - 1 /\ j + 1 = k
    BY <1>2, <2>1
  <2>3. Len(words[j + 1]) = LettersOf(j) /\ LettersOf(j) = WordLength(j, Len(series), Fwin, Symbol) /\ j <= Len(series)
    BY <1>3, <2>2, LengthsAre
  <2> QED
    BY <2>1, <2>2, <2>3, Zenon
<1>4. ASSUME prog # "saxutil", NEW k \in 1 .. Len(words) PROVE Len(words[k]) = ToolLetters
  <2>1. PICK j : j = k - 1
    OBVIOUS
  <2>2. j \in 0 .. Len(words) - 1 /\ j + 1 = k
    BY <1>2, <2>1
  <2>3. Len(words[j + 1]) = LettersOf(j) /\ LettersOf(j) = ToolLetters
    BY <1>4, <2>2, LengthsAre
  <2> QED
    BY <2>1, <2>2, <2>3, Zenon
<1>5. ASSUME NEW k \in 2 .. Len(words) PROVE Len(words[k]) <= Len(words[k - 1])
  <2>1. k \in 1 .. Len(words) /\ k - 1 \in 1 .. Len(words)
    BY <1>1
  <2>2. CASE prog = "saxutil"
    <3>1. PICK j, m : j = (k - 1) - 1 /\ m = k - 1
      OBVIOUS
    <3>2. Len(words[k]) = WordLength(m, Len(series), Fwin, Symbol) /\ m <= Len(series)
      BY <1>3, <2>1, <2>2, <3>1, Zenon
    <3>3. Len(words[k - 1]) = WordLength(j, Len(series), Fwin, Symbol)
      BY <1>3, <2>1, <2>2, <3>1, Zenon
    <3>4. j \in 0 .. Len(series) /\ m \in j .. Len(series)
      BY <1>1, <3>1, <3>2
    <3>5. WordLength(m, Len(series), Fwin, Symbol) <= WordLength(j, Len(series), Fwin, Symbol)
      BY <1>1, <3>4, WordsNeverGrow
    <3> QED
      BY <3>2, <3>3, <3>5, Zenon
  <2>3. CASE prog # "saxutil"
    <3>1. Len(words[k]) = ToolLetters /\ Len(words[k - 1]) = ToolLetters
      BY <1>4, <2>1, <2>3
    <3>2. ToolLetters <= ToolLetters
      BY FeatureFacts
    <3> QED
      BY <3>1, <3>2, Zenon
  <2> QED
    BY <2>2, <2>3
<1> QED
  BY <1>1, <1>3, <1>5, Zenon DEF Words!WordsNeverGrow

(* saxutil.go:31-46, 170-219 and get_sax_words of the tools: for every     *)
(* series, symbol and word, windows of one shape have one word whatever    *)
(* their scale and level, letters follow the samples, and words get        *)
(* shorter only as the counts of windows take them to.                     *)
THEOREM WordsShowTheShapeEver == ScansSpec => []WordsShowTheShape
<1> DEFINE Inv == tool = "words" => WordsInv
<1>1. ScansInit => Inv
  <2> SUFFICES ASSUME ScansInit, tool = "words" PROVE WordsInv
    OBVIOUS
  <2>1. Words!Init
    BY DEF ScansInit
  <2> QED
    BY <2>1, InitWords
<1>2. Inv /\ [ScansNext]_allVars => Inv'
  <2> SUFFICES ASSUME Inv, [ScansNext]_allVars, tool' = "words" PROVE WordsInv'
    OBVIOUS
  <2>1. CASE ScansNext
    <3>1. tool' = tool
      BY <2>1 DEF ScansNext, InWindows, InSearch, InSeries, InWords
    <3>2. Words!Next
      BY <2>1, <3>1 DEF ScansNext, InWindows, InSearch, InSeries, InWords
    <3> QED
      BY <3>1, <3>2, NextWords
  <2>2. CASE UNCHANGED allVars
    <3>1. tool' = tool /\ UNCHANGED <<prog, series, i, words>>
      BY <2>2 DEF allVars, vars, ofSeries
    <3> QED
      BY <3>1, UnchangedKeepsWords
  <2> QED
    BY <2>1, <2>2
<1>3. Inv => WordsShowTheShape
  BY WordsSoundAlike, LettersFollow, WordsGetShorter DEF WordsShowTheShape
<1> QED
  BY <1>1, <1>2, <1>3, PTL DEF ScansSpec
=============================================================================
