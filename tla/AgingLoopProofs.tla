-------------------------- MODULE AgingLoopProofs --------------------------
(***************************************************************************)
(* Proofs about AgingLoop for any attributes, nodes and periods: a quiet   *)
(* that is long enough brings every picture up to date.                    *)
(***************************************************************************)
EXTENDS AgingLoop, SequenceTheorems, TLAPS

(* In a quiet a select times out again and again: since the first of these *)
(* no picture has waited longer for its repaint than the gap and what the  *)
(* current select has waited.                                              *)
DueIsDone == \A a \in Attr : quiet <= wait \/ since[a] < RefreshGap + wait

(* A fade moves by at most one step in a tick. *)
LagIsTime == \A a \in Attr, n \in Node :
                since[a] < Calm => Fade(age[a][n]) <= shown[a][n] + since[a]

AgingInv == TypeOK /\ DueIsDone /\ LagIsTime

----------------------------------------------------------------------------
LEMMA Periods ==
    /\ SelTimeout \in Nat \ {0} /\ RefreshGap \in Nat \ {0} /\ BeginFade \in Nat /\ FadeTime \in Nat \ {0}
    /\ Calm = RefreshGap + SelTimeout /\ Calm \in Nat /\ Old = BeginFade + FadeTime /\ Old \in Nat
  BY AgingConstants DEF AgingConstants, Calm, Old

(* The fade of an age, and of the age one tick later. *)
LEMMA FadeSteps ==
    ASSUME NEW t \in 0 .. Old
    PROVE  /\ Fade(t) \in 0 .. FadeTime
           /\ Fade(0) = 0
           /\ Least(t + 1, Old) \in 0 .. Old
           /\ Fade(Least(t + 1, Old)) <= Fade(t) + 1
  BY Periods DEF Fade, Least

(* A repaint takes the pictures that waited for the gap, and no other.     *)
LEMMA Repainted ==
    ASSUME AgingInv, NEW A \in SUBSET Attr, NEW g \in [Attr -> [Node -> 0 .. Old]], Repaint(A, g)
    PROVE  /\ since' \in [Attr -> 0 .. Calm] /\ shown' \in [Attr -> [Node -> 0 .. FadeTime]]
           /\ \A a \in Attr :
                 \/ /\ since'[a] = 0 /\ \A n \in Node : shown'[a][n] = Fade(g[a][n])
                 \/ /\ since'[a] = since[a] /\ shown'[a] = shown[a]
                    /\ a \in A => since[a] < RefreshGap
<1> DEFINE due == {a \in A : since[a] >= RefreshGap}
<1>1. /\ since' = [a \in Attr |-> IF a \in due THEN 0 ELSE since[a]]
      /\ shown' = [a \in Attr |-> IF a \in due THEN [n \in Node |-> Fade(g[a][n])] ELSE shown[a]]
  BY DEF Repaint
<1>2. since \in [Attr -> 0 .. Calm] /\ shown \in [Attr -> [Node -> 0 .. FadeTime]]
  BY DEF AgingInv, TypeOK
<1>3. \A a \in Attr : [n \in Node |-> Fade(g[a][n])] \in [Node -> 0 .. FadeTime]
  BY FadeSteps
<1>4. \A a \in Attr : since[a] \in Nat /\ since[a] \in 0 .. Calm
  BY <1>2, Periods
<1>5. 0 \in 0 .. Calm
  BY Periods
<1>6. \A a \in Attr : a \in A /\ a \notin due => since[a] < RefreshGap
  BY <1>4, Periods
<1> HIDE DEF due
<1>7. since' \in [Attr -> 0 .. Calm]
  BY <1>1, <1>4, <1>5
<1>8. shown' \in [Attr -> [Node -> 0 .. FadeTime]]
  BY <1>1, <1>2, <1>3
<1>9. ASSUME NEW a \in Attr
      PROVE  \/ /\ since'[a] = 0 /\ \A n \in Node : shown'[a][n] = Fade(g[a][n])
             \/ /\ since'[a] = since[a] /\ shown'[a] = shown[a]
                /\ a \in A => since[a] < RefreshGap
  BY <1>1, <1>6
<1>. QED  BY <1>7, <1>8, <1>9

----------------------------------------------------------------------------
LEMMA AgingStart == Init => AgingInv
  BY Periods DEF Init, AgingInv, TypeOK, DueIsDone, LagIsTime

(* A packet is sent. *)
LEMMA ArriveKeeps == ASSUME AgingInv, NEW p \in Packets, Arrive(p) PROVE AgingInv'
<1>1. inbox' \in Seq(Packets) /\ sent' \subseteq Packets
  BY DEF AgingInv, TypeOK, Arrive
<1>. QED  BY <1>1 DEF AgingInv, TypeOK, DueIsDone, LagIsTime, Arrive, picture

(* A packet ends the quiet; the status it brings fades from 0 on, if it is *)
(* not older than the one that is there.                                   *)
LEMMA HandleKeeps == ASSUME AgingInv, NEW a \in Attr, NEW n \in Node, Handle(a, n) PROVE AgingInv'
<1>1. inbox' \in Seq(Packets) /\ sent' \subseteq Packets /\ wait' = 0 /\ quiet' = 0
  BY HeadTailProperties DEF AgingInv, TypeOK, Handle
<1>2. age \in [Attr -> [Node -> 0 .. Old]] /\ (age' = [age EXCEPT ![a][n] = 0] \/ age' = age)
  BY DEF AgingInv, TypeOK, Handle, Store, Ignore
<1>3. /\ age' \in [Attr -> [Node -> 0 .. Old]]
      /\ \A b \in Attr, m \in Node : age'[b][m] = 0 \/ age'[b][m] = age[b][m]
  <2>1. 0 \in 0 .. Old
    BY Periods
  <2>. QED  BY <1>2, <2>1
<1>4. Repaint({a}, age) \/ Repaint({a}, age') \/ UNCHANGED <<since, shown>>
  BY DEF Handle, Store, Ignore
<1>7. /\ since' \in [Attr -> 0 .. Calm] /\ shown' \in [Attr -> [Node -> 0 .. FadeTime]]
      /\ \A b \in Attr :
            \/ since'[b] = 0 /\ \A m \in Node : shown'[b][m] \in {Fade(age[b][m]), Fade(age'[b][m])}
            \/ since'[b] = since[b] /\ shown'[b] = shown[b]
  <2>1. CASE UNCHANGED <<since, shown>>
    BY <2>1 DEF AgingInv, TypeOK
  <2>2. CASE Repaint({a}, age)
    BY <1>2, <2>2, Repainted
  <2>3. CASE Repaint({a}, age')
    BY <1>3, <2>3, Repainted
  <2>. QED  BY <1>4, <2>1, <2>2, <2>3
<1>8. TypeOK' /\ DueIsDone'
  BY <1>1, <1>3, <1>7, Periods DEF TypeOK, DueIsDone
<1>9. ASSUME NEW b \in Attr, NEW m \in Node, since'[b] < Calm
      PROVE  Fade(age'[b][m]) <= shown'[b][m] + since'[b]
  <2>1. since'[b] \in Nat /\ shown'[b][m] \in Nat /\ Fade(0) = 0
    BY <1>7, FadeSteps, Periods
  <2>2. Fade(age[b][m]) \in Nat
    BY <1>2, FadeSteps
  <2>3. CASE age'[b][m] = 0
    BY <2>1, <2>3
  <2>4. CASE age'[b][m] = age[b][m] /\ since'[b] = 0 /\ shown'[b][m] = Fade(age[b][m])
    BY <2>1, <2>2, <2>4
  <2>5. CASE age'[b][m] = age[b][m] /\ since'[b] = since[b] /\ shown'[b] = shown[b]
    BY <1>9, <2>5 DEF AgingInv, LagIsTime
  <2>. QED  BY <1>3, <1>7, <2>3, <2>4, <2>5
<1>. QED  BY <1>8, <1>9 DEF AgingInv, LagIsTime, Calm

(* Every picture that is due is repainted. *)
LEMMA TimeoutKeeps == ASSUME AgingInv, SelectTimeout PROVE AgingInv'
<1>1. wait' = 0 /\ UNCHANGED <<inbox, sent, age, quiet>> /\ Repaint(Attr, age)
  BY DEF SelectTimeout
<1>2. age \in [Attr -> [Node -> 0 .. Old]]
  BY DEF AgingInv, TypeOK
<1>3. /\ since' \in [Attr -> 0 .. Calm] /\ shown' \in [Attr -> [Node -> 0 .. FadeTime]]
      /\ \A a \in Attr :
            \/ since'[a] = 0 /\ \A n \in Node : shown'[a][n] = Fade(age[a][n])
            \/ since'[a] = since[a] /\ shown'[a] = shown[a] /\ since[a] < RefreshGap
  BY <1>1, <1>2, Repainted
<1>4. TypeOK'
  BY <1>1, <1>3, Periods DEF AgingInv, TypeOK
<1>5. DueIsDone'
  BY <1>1, <1>3, Periods DEF DueIsDone
<1>6. ASSUME NEW a \in Attr, NEW n \in Node, since'[a] < Calm
      PROVE  Fade(age'[a][n]) <= shown'[a][n] + since'[a]
  <2>1. Fade(age[a][n]) \in Nat /\ age' = age
    BY <1>1, <1>2, FadeSteps
  <2>2. CASE since'[a] = 0 /\ shown'[a][n] = Fade(age[a][n])
    BY <2>1, <2>2
  <2>3. CASE since'[a] = since[a] /\ shown'[a] = shown[a]
    BY <1>6, <2>1, <2>3 DEF AgingInv, LagIsTime
  <2>. QED  BY <1>3, <2>2, <2>3
<1>. QED  BY <1>4, <1>5, <1>6 DEF AgingInv, LagIsTime, Calm

(* All ages and waits grow by a tick, where they are not at their caps. *)
LEMMA TickKeeps == ASSUME AgingInv, Tick PROVE AgingInv'
<1>1. /\ wait < SelTimeout /\ wait' = wait + 1 /\ quiet' = Least(quiet + 1, Calm)
      /\ age' = [a \in Attr |-> [n \in Node |-> Least(age[a][n] + 1, Old)]]
      /\ since' = [a \in Attr |-> Least(since[a] + 1, Calm)]
      /\ sent' = {} /\ UNCHANGED <<inbox, shown>>
  BY DEF Tick
<1>2. /\ wait \in 0 .. SelTimeout /\ quiet \in 0 .. Calm /\ inbox \in Seq(Packets)
      /\ age \in [Attr -> [Node -> 0 .. Old]] /\ since \in [Attr -> 0 .. Calm]
      /\ shown \in [Attr -> [Node -> 0 .. FadeTime]]
  BY DEF AgingInv, TypeOK
<1>3. \A a \in Attr, n \in Node : age[a][n] \in 0 .. Old /\ shown[a][n] \in Nat
  BY <1>2
<1>4. \A a \in Attr, n \in Node : /\ Least(age[a][n] + 1, Old) \in 0 .. Old
                                 /\ Fade(Least(age[a][n] + 1, Old)) <= Fade(age[a][n]) + 1
                                 /\ Fade(age[a][n]) \in Nat /\ Fade(Least(age[a][n] + 1, Old)) \in Nat
  BY <1>3, FadeSteps
<1>5. \A a \in Attr : /\ since[a] \in Nat /\ since'[a] \in 0 .. Calm
                      /\ since'[a] <= since[a] + 1
                      /\ since'[a] < Calm => since'[a] = since[a] + 1 /\ since[a] < Calm
  BY <1>1, <1>2, Periods DEF Least
<1>6. quiet' \in 0 .. Calm /\ quiet' <= quiet + 1 /\ quiet \in Nat /\ quiet' \in Nat
  BY <1>1, <1>2, Periods DEF Least
<1>7. wait' \in 0 .. SelTimeout /\ wait \in Nat
  BY <1>1, <1>2, Periods
<1>8. TypeOK'
  <2>1. age' \in [Attr -> [Node -> 0 .. Old]]
    BY <1>1, <1>4
  <2>2. since' \in [Attr -> 0 .. Calm]
    BY <1>1, <1>5
  <2>. QED  BY <1>1, <1>2, <1>6, <1>7, <2>1, <2>2 DEF TypeOK, Calm, Old
<1>9. DueIsDone'
  <2> SUFFICES ASSUME NEW a \in Attr PROVE quiet' <= wait' \/ since'[a] < RefreshGap + wait'
    BY DEF DueIsDone
  <2>1. quiet <= wait \/ since[a] < RefreshGap + wait
    BY DEF AgingInv, DueIsDone
  <2>2. since[a] \in Nat /\ since'[a] \in Nat /\ since'[a] <= since[a] + 1
    BY <1>5, Periods
  <2>. QED  BY <1>1, <1>6, <1>7, <2>1, <2>2, Periods
<1>10. LagIsTime'
  <2> SUFFICES ASSUME NEW a \in Attr, NEW n \in Node, since'[a] < Calm
               PROVE  Fade(age'[a][n]) <= shown'[a][n] + since'[a]
    BY DEF LagIsTime, Calm
  <2>1. Fade(age[a][n]) <= shown[a][n] + since[a] /\ since'[a] = since[a] + 1 /\ since[a] \in Nat
    BY <1>5 DEF AgingInv, LagIsTime
  <2>2. age'[a][n] = Least(age[a][n] + 1, Old) /\ shown'[a][n] = shown[a][n]
    BY <1>1
  <2>3. /\ Fade(age'[a][n]) <= Fade(age[a][n]) + 1
        /\ Fade(age'[a][n]) \in Nat /\ Fade(age[a][n]) \in Nat /\ shown[a][n] \in Nat
    BY <1>3, <1>4, <2>2
  <2>. QED  BY <2>1, <2>2, <2>3
<1>. QED  BY <1>8, <1>9, <1>10 DEF AgingInv

LEMMA AgingStep == AgingInv /\ [Next]_vars => AgingInv'
<1> SUFFICES ASSUME AgingInv, [Next]_vars PROVE AgingInv'
  OBVIOUS
<1>1. CASE UNCHANGED vars
  BY <1>1 DEF vars, picture, AgingInv, TypeOK, DueIsDone, LagIsTime
<1>2. CASE Next
  BY <1>2, ArriveKeeps, HandleKeeps, TimeoutKeeps, TickKeeps DEF Next
<1>. QED  BY <1>1, <1>2

(* Without a packet for a repaint gap and a select every picture was       *)
(* repainted since, and lags no further behind (nodescape.c:169, :497).    *)
LEMMA AgingCore == AgingInv => QuietRepaints
<1> SUFFICES ASSUME AgingInv, quiet = Calm, NEW a \in Attr
             PROVE  since[a] < Calm /\ \A n \in Node : Fade(age[a][n]) < shown[a][n] + Calm
  BY DEF QuietRepaints
<1>1. wait \in 0 .. SelTimeout /\ since[a] \in 0 .. Calm
  BY DEF AgingInv, TypeOK
<1>2. since[a] < Calm
  BY <1>1, Periods DEF AgingInv, DueIsDone
<1>3. ASSUME NEW n \in Node PROVE Fade(age[a][n]) < shown[a][n] + Calm
  <2>1. Fade(age[a][n]) <= shown[a][n] + since[a]
    BY <1>2 DEF AgingInv, LagIsTime
  <2>2. age[a][n] \in 0 .. Old /\ shown[a][n] \in Nat
    BY DEF AgingInv, TypeOK
  <2>3. Fade(age[a][n]) \in Nat
    BY <2>2, FadeSteps
  <2>. QED  BY <1>1, <1>2, <2>1, <2>2, <2>3, Periods
<1>. QED  BY <1>2, <1>3

(* In every behaviour, for every order of the periods. *)
THEOREM QuietRepaintsEver == Spec => []QuietRepaints
  BY AgingStart, AgingStep, AgingCore, PTL DEF Spec
=============================================================================
