-------------------------- MODULE NodescapeProofs --------------------------
(***************************************************************************)
(* Proofs about Nodescape for every number of attributes, nodes, packets   *)
(* and ticks.                                                              *)
(***************************************************************************)
EXTENDS Nodescape, TLAPS

Stat == [value: Int, when: Nat]
Bnd  == [min: Int, max: Int]
Cell == [kind: {"absent", "base", "magenta", "tint"}, tint: Int \X Int, fade: Nat]
Pic  == [lastup: Nat, cells: [Nodes -> Cell]]

----------------------------------------------------------------------------
(* What the painting operators return. *)

(* A faded share is a natural number, whatever the age. *)
LEMMA FadeType == ASSUME NEW g \in Int PROVE Fade(g) \in Nat
  BY ServerConstants, SMT DEF Fade, ServerConstants

(* The tint of integers is a pair of integers. *)
LEMMA TintType == ASSUME NEW lo \in Int, NEW v \in Int, NEW hi \in Int
                  PROVE  Tint(lo, v, hi) \in Int \X Int
  BY SMT DEF Tint

(* Painting a status gives a cell. *)
LEMMA PaintedType == ASSUME NEW b \in Bnd, NEW s \in Stat, now \in Nat
                     PROVE  Painted(b, s) \in Cell
<1>1. Fade(now - s.when) \in Nat
  BY FadeType DEF Stat
<1>2. Tint(b.min, s.value, b.max) \in Int \X Int
  BY TintType DEF Stat, Bnd
<1>. QED  BY <1>1, <1>2 DEF Painted, Cell, Magenta

(* A repaint, taken or skipped, gives a picture. *)
LEMMA UptintType == ASSUME NEW p \in Pic, NEW b \in Bnd, NEW row \in [Nodes -> Stat], now \in Nat
                    PROVE  Uptint(p, b, row) \in Pic
<1>1. \A n \in Nodes : Painted(b, row[n]) \in Cell
  BY PaintedType
<1>2. [lastup |-> now, cells |-> [n \in Nodes |-> Painted(b, row[n])]] \in Pic
  BY <1>1 DEF Pic
<1>. QED  BY <1>2 DEF Uptint

(* The bounds stay integers when a value widens them. *)
LEMMA WidenType == ASSUME NEW b \in Bnd, NEW v \in Int PROVE Widen(b, v) \in Bnd
  BY SMT DEF Widen, Bnd

(* A slot in use has a picture. *)
LEMMA PictureType == ASSUME TypeOK, NEW i \in Used PROVE i \in Slots /\ names[i] \in Attr /\ Picture(i) \in Pic
<1>1. i \in Slots
  BY ServerConstants DEF TypeOK, Used, Slots, ServerConstants
<1>2. names[i] \in Attr
  BY DEF TypeOK, Used
<1>. QED  BY <1>1, <1>2 DEF TypeOK, Picture, Pic, Cell

----------------------------------------------------------------------------
(* One lemma per action that touches the table. *)

(* A timeout keeps the types: every slot in use gets a picture. *)
LEMMA SelectTimeoutType == TypeOK /\ SelectTimeout => TypeOK'
<1> SUFFICES ASSUME TypeOK, SelectTimeout PROVE TypeOK'
  OBVIOUS
<1> DEFINE pic == [i \in Used |-> Uptint(Picture(i), bound[i], status[i])]
<1>1. \A i \in Used : pic[i] \in Pic
  <2> TAKE i \in Used
  <2>1. i \in Slots /\ Picture(i) \in Pic
    BY PictureType
  <2>2. bound[i] \in Bnd
    BY <2>1, ServerConstants DEF TypeOK, Slots, Bnd, ServerConstants
  <2>3. status[i] \in [Nodes -> Stat]
    BY <2>1 DEF TypeOK, Stat
  <2>4. now \in Nat
    BY DEF TypeOK
  <2>. QED  BY <2>1, <2>2, <2>3, <2>4, UptintType
<1>2. lastup' \in [Slots -> Nat]
  BY <1>1 DEF SelectTimeout, TypeOK, Pic
<1>3. disp' \in [Attr -> [Nodes -> Cell]]
  <2>1. disp' = [a \in Attr |-> IF \E i \in Used : names[i] = a
                                THEN pic[CHOOSE i \in Used : names[i] = a].cells ELSE disp[a]]
    BY DEF SelectTimeout
  <2>2. \A a \in Attr : (\E i \in Used : names[i] = a) =>
                          (CHOOSE i \in Used : names[i] = a) \in Used
    OBVIOUS
  <2>3. \A a \in Attr : disp[a] \in [Nodes -> Cell]
    BY DEF TypeOK, Cell
  <2>. QED  BY <2>1, <2>2, <2>3, <1>1 DEF Pic
<1>. QED  BY <1>2, <1>3 DEF SelectTimeout, TypeOK, Cell, Used

(* A packet of a known attribute keeps the types, the bounds of the next   *)
(* slot included when its node is MAXNODE.                                 *)
LEMMA UpdateType == ASSUME TypeOK, NEW m \in net, NEW i \in Used, Update(m, i) PROVE TypeOK'
<1> DEFINE wide  == [bound EXCEPT ![i] = Widen(@, m.value)]
           pic1  == IF wide = bound THEN Picture(i) ELSE Uptint(Picture(i), wide[i], status[i])
           fresh == IsFresh(wide, i, m)
           pic2  == IF fresh THEN Uptint(pic1, wide[i], status'[i]) ELSE pic1
<1>1. i \in Slots /\ i \in 1 .. MaxProp + 1 /\ i + 1 \in 1 .. MaxProp + 1
  BY PictureType, ServerConstants DEF Slots, ServerConstants
<1>2. m \in Packet /\ m.name \in Attr /\ m.node \in Nat /\ m.value \in Int /\ m.when \in Nat
  BY ServerConstants DEF TypeOK, Packet, ServerConstants
<1>3. wide \in [1 .. MaxProp + 1 -> Bnd] /\ wide[i] \in Bnd
  <2>1. bound \in [1 .. MaxProp + 1 -> Bnd]
    BY DEF TypeOK, Bnd
  <2>2. Widen(bound[i], m.value) \in Bnd
    BY <2>1, <1>1, <1>2, WidenType
  <2>. QED  BY <2>1, <2>2, <1>1
<1>4. bound' \in [1 .. MaxProp + 1 -> Bnd]
  BY <1>1, <1>2, <1>3 DEF Update, StatusOf, Bnd
<1>5. status' \in [Slots -> [Nodes -> Stat]]
  <2>1. StatusOf(m) \in Stat
    BY <1>2 DEF StatusOf, Stat
  <2>2. m.node < MaxNode => m.node \in Nodes
    BY <1>2, ServerConstants DEF Nodes, ServerConstants
  <2>3. status \in [Slots -> [Nodes -> Stat]]
    BY DEF TypeOK, Stat
  <2>. QED  BY <2>1, <2>2, <2>3, <1>1 DEF Update
<1>6. pic1 \in Pic /\ pic2 \in Pic
  <2>1. now \in Nat /\ status[i] \in [Nodes -> Stat] /\ status'[i] \in [Nodes -> Stat]
    BY <1>1, <1>5 DEF TypeOK, Stat
  <2>2. pic1 \in Pic
    BY <2>1, <1>3, UptintType, PictureType
  <2>. QED  BY <2>1, <2>2, <1>3, UptintType
<1>7. /\ lastup' = [lastup EXCEPT ![i] = pic2.lastup]
      /\ disp' = [disp EXCEPT ![m.name] = pic2.cells]
  BY DEF Update
<1>8. lastup' \in [Slots -> Nat] /\ disp' \in [Attr -> [Nodes -> Cell]]
  BY <1>6, <1>7, <1>1, <1>2 DEF TypeOK, Pic, Cell
<1>. QED  BY <1>4, <1>5, <1>8 DEF Update, TypeOK, Stat, Bnd, Cell

(* The first packet of an attribute keeps the types. *)
LEMMA NewSlotType == ASSUME TypeOK, NEW m \in net, NewSlot(m) PROVE TypeOK'
<1> DEFINE i == Len(names) + 1
<1>1. i \in Slots /\ i + 1 \in 1 .. MaxProp + 1
  BY ServerConstants DEF NewSlot, TypeOK, Slots, ServerConstants
<1>2. m \in Packet /\ m.name \in Attr /\ m.node \in Nat /\ m.value \in Int /\ m.when \in Nat
  BY ServerConstants DEF TypeOK, Packet, ServerConstants
<1>3. names' \in Seq(Attr) /\ Len(names') <= MaxProp
  BY <1>1, <1>2 DEF NewSlot, TypeOK, Slots
<1>4. bound' \in [1 .. MaxProp + 1 -> Bnd]
  BY <1>2 DEF NewSlot, TypeOK, Bnd
<1>5. status' \in [Slots -> [Nodes -> Stat]]
  <2>1. StatusOf(m) \in Stat
    BY <1>2 DEF StatusOf, Stat
  <2>2. \A n \in Nodes : [status[i][n] EXCEPT !.when = 0] \in Stat
    <3>1. \A s \in Stat : [s EXCEPT !.when = 0] \in Stat
      BY DEF Stat
    <3>2. \A n \in Nodes : status[i][n] \in Stat
      BY <1>1 DEF TypeOK, Stat
    <3>. QED  BY <3>1, <3>2
  <2>3. [n \in Nodes |-> IF n = m.node THEN StatusOf(m)
                         ELSE [status[i][n] EXCEPT !.when = 0]] \in [Nodes -> Stat]
    BY <2>1, <2>2
  <2>4. status' = [status EXCEPT ![i] =
           [n \in Nodes |-> IF n = m.node THEN StatusOf(m) ELSE [status[i][n] EXCEPT !.when = 0]]]
    BY <1>1 DEF NewSlot, TypeOK
  <2>. QED  BY <2>3, <2>4, <1>1 DEF TypeOK, Stat
<1>6. lastup' \in [Slots -> Nat]
  BY <1>1 DEF NewSlot, TypeOK
<1>7. disp' \in [Attr -> [Nodes -> Cell]]
  <2>1. [kind |-> "tint", tint |-> Tint(m.value, m.value, m.value), fade |-> 0] \in Cell
    BY <1>2, TintType DEF Cell
  <2>2. Base \in Cell
    BY DEF Base, Cell
  <2>. QED  BY <2>1, <2>2, <1>2 DEF NewSlot, TypeOK, Cell
<1>. QED  BY <1>3, <1>4, <1>5, <1>6, <1>7 DEF NewSlot, TypeOK, Bnd, Stat, Cell

(* So does every step of the server. *)
LEMMA TypeStep == TypeOK /\ [Next]_vars => TypeOK'
<1> SUFFICES ASSUME TypeOK, [Next]_vars PROVE TypeOK'
  OBVIOUS
<1>1. CASE Tick
  BY <1>1 DEF Tick, table, TypeOK, Used
<1>2. ASSUME NEW a \in Attr, NEW n \in SentNode, NEW v \in Value, NEW d \in 0 .. MaxAhead,
             Send([name |-> a, node |-> n, value |-> v, when |-> now + d])
      PROVE  TypeOK'
  <2>1. [name |-> a, node |-> n, value |-> v, when |-> now + d] \in Packet
    BY ServerConstants DEF TypeOK, Packet, ServerConstants
  <2>. QED  BY <2>1, <1>2 DEF Send, table, TypeOK, Packet
<1>3. CASE SelectTimeout
  BY <1>3, SelectTimeoutType
<1>4. ASSUME NEW m \in net, Handle(m) PROVE TypeOK'
  <2>1. CASE DropNode(m)
    BY <2>1 DEF DropNode, table, TypeOK
  <2>2. ASSUME NEW i \in Used, Update(m, i) PROVE TypeOK'
    BY <2>2, UpdateType
  <2>3. CASE NewSlot(m)
    BY <2>3, NewSlotType
  <2>4. CASE NoFile(m)
    <3>1. disp' \in [Attr -> [Nodes -> Cell]]
      BY <2>4 DEF NoFile, TypeOK, Packet, Base, Cell
    <3>. QED  BY <3>1, <2>4 DEF NoFile, TypeOK, Cell
  <2>5. CASE Overrun(m)
    BY <2>5 DEF Overrun, table, TypeOK
  <2>. QED  BY <1>4, <2>1, <2>2, <2>3, <2>4, <2>5 DEF Handle
<1>5. CASE RecvFails
  BY <1>5 DEF RecvFails, table, TypeOK
<1>6. CASE Restart
  BY <1>6, ServerConstants DEF Restart, TypeOK, Blank, ServerConstants
<1>7. CASE UNCHANGED vars
  BY <1>7 DEF vars, table, TypeOK
<1>. QED  BY <1>1, <1>2, <1>3, <1>4, <1>5, <1>6, <1>7 DEF Next

(* The state keeps its types. *)
THEOREM TypeCorrect == Spec => []TypeOK
<1>1. Init => TypeOK
  BY ServerConstants DEF Init, Cleared, TypeOK, Blank, Absent, ServerConstants
<1>. QED  BY <1>1, TypeStep, PTL DEF Spec

----------------------------------------------------------------------------
(***************************************************************************)
(* The table.  Newest status and hull of the bounds are inductive together *)
(* with one slot per attribute: a packet about a known attribute finds the *)
(* slot in which everything heard about it went, one about an unknown      *)
(* attribute was never heard of.  A packet with the node number MAXNODE    *)
(* writes over the bounds of one slot, and BoundsAreHull gives up that one.*)
(***************************************************************************)

TableInv == TypeOK /\ SlotPerAttribute /\ NewestWins /\ BoundsAreHull

(* The entry of node n in slot i is right for the packets S about them. *)
EntryRight(st, S) == IF S = {} THEN st.when = 0
                     ELSE \E m \in S : st = StatusOf(m) /\ \A k \in S : k.when <= m.when

(* A packet that is not older than the entry becomes the newest one, and   *)
(* an older one changes nothing about which is the newest.                 *)
LEMMA EntryStep ==
    ASSUME NEW S, NEW m, NEW st, st.when \in Int, m.when \in Nat, \A k \in S : k.when \in Nat,
           EntryRight(st, S)
    PROVE  EntryRight(IF st.when <= m.when THEN StatusOf(m) ELSE st, S \cup {m})
<1>1. CASE st.when <= m.when
  <2>1. \A k \in S : k.when <= m.when
    <3>1. CASE S = {}
      BY <3>1
    <3>2. CASE S # {}
      <4>1. PICK h \in S : st = StatusOf(h) /\ \A k \in S : k.when <= h.when
        BY <3>2 DEF EntryRight
      <4>2. st.when = h.when
        BY <4>1 DEF StatusOf
      <4>. QED  BY <4>1, <4>2, <1>1
    <3>. QED  BY <3>1, <3>2
  <2>2. m \in S \cup {m} /\ \A k \in S \cup {m} : k.when <= m.when
    BY <2>1
  <2>. QED  BY <1>1, <2>2 DEF EntryRight
<1>2. CASE ~(st.when <= m.when)
  <2>1. S # {}
    BY <1>2 DEF EntryRight
  <2>2. PICK h \in S : st = StatusOf(h) /\ \A k \in S : k.when <= h.when
    BY <2>1 DEF EntryRight
  <2>3. m.when <= h.when
    BY <2>2, <1>2 DEF StatusOf
  <2>. QED  BY <1>2, <2>2, <2>3 DEF EntryRight
<1>. QED  BY <1>1, <1>2

(* The hull b of the values V. *)
Hull(b, V) == b.min \in V /\ b.max \in V /\ \A v \in V : b.min <= v /\ v <= b.max

(* Widening the bounds by a value gives the hull with that value. *)
LEMMA HullStep == ASSUME NEW b \in Bnd, NEW V \in SUBSET Int, NEW v \in Int, Hull(b, V)
                  PROVE  Hull(Widen(b, v), V \cup {v})
  BY SMT DEF Hull, Widen, Bnd

(* The values heard of attribute a. *)
Values(a) == {m.value : m \in {k \in heard : k.name = a}}

(* The invariant of the table, entry by entry. *)
LEMMA TableByEntries ==
    /\ NewestWins <=> \A i \in Used, n \in Nodes : EntryRight(status[i][n], About(names[i], n))
    /\ BoundsAreHull <=> \A i \in Used : ~Spoilt(i) => Hull(bound[i], Values(names[i]))
  BY DEF NewestWins, BoundsAreHull, EntryRight, Hull, Values

(* What a packet is; its node has an entry or has not. *)
LEMMA PacketValid ==
    ASSUME TypeOK, NEW m \in net
    PROVE  /\ m.name \in Attr /\ m.node \in Nat /\ m.value \in Int /\ m.when \in Nat
           /\ m.node \in Nodes <=> m.node < MaxNode
<1>1. m \in Packet
  BY DEF TypeOK
<1>2. m.name \in Attr /\ m.node \in SentNode /\ m.value \in Value /\ m.when \in Nat
  BY <1>1 DEF Packet
<1>3. m.node \in Nat /\ MaxNode \in Nat /\ m.value \in Int
  BY <1>2, ServerConstants DEF ServerConstants
<1>. QED  BY <1>2, <1>3 DEF Nodes

(* So is every packet handled before. *)
LEMMA HeardTypes == ASSUME TypeOK PROVE \A k \in heard : k.value \in Int /\ k.when \in Nat
<1>1. \A k \in heard : k \in Packet
  BY DEF TypeOK
<1>. QED  BY <1>1, ServerConstants DEF Packet, ServerConstants

(* A packet about a known attribute. *)
LEMMA UpdateTable ==
    ASSUME TableInv, NEW m \in net, NEW i \in Used, Update(m, i)
    PROVE  TableInv'
<1>0. TypeOK /\ SlotPerAttribute /\ NewestWins /\ BoundsAreHull
  BY DEF TableInv
<1>1. /\ m.name \in Attr /\ m.node \in Nat /\ m.value \in Int /\ m.when \in Nat
      /\ m.node \in Nodes <=> m.node < MaxNode
  BY <1>0, PacketValid
<1>2. \A k \in heard : k.when \in Nat /\ k.value \in Int
  BY <1>0, HeardTypes
<1>3. i \in Slots /\ status \in [Slots -> [Nodes -> Stat]]
      /\ bound \in [1 .. MaxProp + 1 -> Bnd] /\ bound[i] \in Bnd
  <2>1. i \in Slots
    BY <1>0, PictureType
  <2>2. status \in [Slots -> [Nodes -> Stat]] /\ bound \in [1 .. MaxProp + 1 -> Bnd]
    BY <1>0 DEF TypeOK, Stat, Bnd
  <2>. QED  BY <2>1, <2>2, ServerConstants DEF Slots, ServerConstants
<1>4. /\ heard' = heard \cup {m} /\ names' = names /\ names[i] = m.name
      /\ status' = IF m.node < MaxNode /\ status[i][m.node].when <= m.when
                   THEN [status EXCEPT ![i][m.node] = StatusOf(m)] ELSE status
  <2>1. m.node < MaxNode => \A b : IsFresh(b, i, m) <=> status[i][m.node].when <= m.when
    BY DEF IsFresh, StatusAt
  <2>. QED  BY <2>1 DEF Update
<1>10. /\ bound'[i] = Widen(bound[i], m.value)
       /\ \A j \in 1 .. MaxProp + 1 : j # i /\ ~(j = i + 1 /\ m.node = MaxNode) => bound'[j] = bound[j]
  <2> DEFINE wide == [bound EXCEPT ![i] = Widen(@, m.value)]
  <2>1. bound' = wide \/ (m.node = MaxNode
                          /\ bound' = [wide EXCEPT ![i + 1] = [min |-> m.value, max |-> m.when]])
    BY DEF Update, StatusOf
  <2>2. i \in 1 .. MaxProp + 1 /\ i + 1 # i
    BY <1>3, ServerConstants DEF Slots, ServerConstants
  <2>3. wide[i] = Widen(bound[i], m.value) /\ \A j \in 1 .. MaxProp + 1 : j # i => wide[j] = bound[j]
    BY <1>3, <2>2
  <2>4. wide = [j \in 1 .. MaxProp + 1 |-> wide[j]]
    BY <1>3
  <2>. QED  BY <2>1, <2>2, <2>3, <2>4
<1>5. TypeOK'
  BY <1>0, UpdateType
<1>7. SlotPerAttribute'
  <2>1. \A j, k \in Used : names[j] = names[k] => j = k
    BY <1>0 DEF SlotPerAttribute
  <2>2. {names[j] : j \in Used} = {k.name : k \in heard}
    BY <1>0 DEF SlotPerAttribute
  <2>3. {k.name : k \in heard'} = {k.name : k \in heard} \cup {m.name}
    BY <1>4
  <2>4. m.name \in {names[j] : j \in Used}
    BY <1>4
  <2>5. {k.name : k \in heard'} = {names[j] : j \in Used}
    BY <2>2, <2>3, <2>4
  <2>6. Used' = Used
    BY <1>4 DEF Used
  <2>. QED  BY <2>1, <2>5, <2>6, <1>4 DEF SlotPerAttribute
<1>8. NewestWins'
  <2> SUFFICES ASSUME NEW j \in Used, NEW n \in Nodes
               PROVE  EntryRight(status'[j][n], About(names[j], n)')
    BY <1>4 DEF NewestWins, EntryRight, Used, Nodes, About
  <2>1. EntryRight(status[j][n], About(names[j], n))
    BY <1>0, TableByEntries
  <2>2. CASE j = i /\ n = m.node
    <3>1. About(names[j], n)' = About(names[j], n) \cup {m}
      BY <2>2, <1>4 DEF About
    <3>2. status'[j][n] = IF status[j][n].when <= m.when THEN StatusOf(m) ELSE status[j][n]
      BY <2>2, <1>1, <1>3, <1>4
    <3>3. status[j][n].when \in Int /\ \A k \in About(names[j], n) : k.when \in Nat
      BY <2>2, <1>2, <1>3 DEF Stat, About
    <3>4. EntryRight(IF status[j][n].when <= m.when THEN StatusOf(m) ELSE status[j][n],
                     About(names[j], n) \cup {m})
      BY <3>3, <2>1, <1>1, EntryStep
    <3>. QED  BY <3>1, <3>2, <3>4
  <2>3. CASE ~(j = i /\ n = m.node)
    <3>1. j # i => names[j] # m.name
      BY <1>0, <1>4 DEF SlotPerAttribute
    <3>2. About(names[j], n)' = About(names[j], n)
      BY <2>3, <3>1, <1>4 DEF About
    <3>3. j \in Slots
      BY <1>0, PictureType
    <3>4. status'[j][n] = status[j][n]
      BY <2>3, <3>3, <1>1, <1>3, <1>4
    <3>. QED  BY <3>2, <3>4, <2>1
  <2>. QED  BY <2>2, <2>3
<1>9. BoundsAreHull'
  <2> SUFFICES ASSUME NEW j \in Used, ~Spoilt(j)' PROVE Hull(bound'[j], Values(names[j])')
    BY <1>4 DEF BoundsAreHull, Hull, Values, Used
  <2>1. Hull(bound[j], Values(names[j]))
    <3>1. ~Spoilt(j)
      BY <1>4 DEF Spoilt, About
    <3>. QED  BY <3>1, <1>0, TableByEntries
  <2>2. j \in Slots /\ j \in 1 .. MaxProp + 1
    BY <1>0, PictureType, ServerConstants DEF Slots, ServerConstants
  <2>3. CASE j = i
    <3>1. Values(names[j])' = Values(names[j]) \cup {m.value}
      BY <2>3, <1>4 DEF Values
    <3>2. bound'[j] = Widen(bound[j], m.value)
      BY <2>3, <1>10
    <3>3. Values(names[j]) \in SUBSET Int
      BY <1>2 DEF Values
    <3>. QED  BY <3>1, <3>2, <3>3, <2>1, <2>3, <1>1, <1>3, HullStep
  <2>4. CASE j # i
    <3>1. names[j] # m.name
      BY <2>4, <1>0, <1>4 DEF SlotPerAttribute
    <3>2. Values(names[j])' = Values(names[j])
      BY <3>1, <1>4 DEF Values
    <3>3. ~(j = i + 1 /\ m.node = MaxNode)
      <4> SUFFICES ASSUME j = i + 1, m.node = MaxNode PROVE FALSE
        OBVIOUS
      <4>1. j > 1 /\ j - 1 = i
        BY <1>3 DEF Slots
      <4>2. m \in About(names[j - 1], MaxNode)'
        BY <4>1, <1>4 DEF About
      <4>. QED  BY <4>1, <4>2 DEF Spoilt
    <3>4. bound'[j] = bound[j]
      BY <2>2, <2>4, <3>3, <1>10
    <3>. QED  BY <3>2, <3>4, <2>1
  <2>. QED  BY <2>3, <2>4
<1>. QED  BY <1>5, <1>7, <1>8, <1>9 DEF TableInv

(* The first packet of an attribute. *)
LEMMA NewSlotTable ==
    ASSUME TableInv, NEW m \in net, NewSlot(m)
    PROVE  TableInv'
<1> DEFINE i == Len(names) + 1
<1>0. TypeOK /\ SlotPerAttribute /\ NewestWins /\ BoundsAreHull
  BY DEF TableInv
<1>1. /\ m.name \in Attr /\ m.node \in Nat /\ m.value \in Int /\ m.when \in Nat
      /\ m.node \in Nodes <=> m.node < MaxNode
  BY <1>0, PacketValid
<1>2. i \in Slots /\ i \in Nat /\ Len(names) \in Nat /\ names \in Seq(Attr)
  BY <1>0, ServerConstants DEF NewSlot, TypeOK, Slots, ServerConstants
<1>3. /\ heard' = heard \cup {m} /\ names' = Append(names, m.name)
      /\ \A j \in Used : names[j] # m.name
  BY DEF NewSlot, Unknown
<1>4. \A j \in DOMAIN bound : j < i => bound'[j] = bound[j]
  BY <1>0, <1>2 DEF NewSlot, TypeOK
<1>14. i \in DOMAIN bound /\ bound'[i] = [min |-> m.value, max |-> m.value]
  <2>1. i \in DOMAIN bound
    BY <1>0, <1>2, ServerConstants DEF TypeOK, Slots, ServerConstants
  <2>. QED  BY <2>1 DEF NewSlot
<1>5. \A j \in Slots : j # i => status'[j] = status[j]
  BY <1>0, <1>2 DEF NewSlot, TypeOK
<1>6. \A n \in Nodes : status'[i][n] = IF n = m.node THEN StatusOf(m)
                                        ELSE [status[i][n] EXCEPT !.when = 0]
  BY <1>0, <1>2 DEF NewSlot, TypeOK
<1>7. /\ Used' = Used \cup {i} /\ names'[i] = m.name
      /\ \A j \in Used : j < i /\ names'[j] = names[j]
  BY <1>2, <1>3, <1>1 DEF Used
<1>8. \A k \in heard : k.name # m.name
  BY <1>0, <1>3 DEF SlotPerAttribute
<1>9. TypeOK'
  BY <1>0, NewSlotType
<1>11. SlotPerAttribute'
  <2>1. \A j, k \in Used' : names'[j] = names'[k] => j = k
    <3>1. \A j, k \in Used : names[j] = names[k] => j = k
      BY <1>0 DEF SlotPerAttribute
    <3> SUFFICES ASSUME NEW j \in Used', NEW k \in Used', names'[j] = names'[k] PROVE j = k
      OBVIOUS
    <3>2. CASE j \in Used /\ k \in Used
      BY <3>1, <3>2, <1>7
    <3>3. CASE j = i \/ k = i
      BY <3>3, <1>3, <1>7
    <3>. QED  BY <3>2, <3>3, <1>7
  <2>2. {names'[j] : j \in Used'} = {names[j] : j \in Used} \cup {m.name}
    BY <1>7
  <2>3. {k.name : k \in heard'} = {k.name : k \in heard} \cup {m.name}
    BY <1>3
  <2>4. {names[j] : j \in Used} = {k.name : k \in heard}
    BY <1>0 DEF SlotPerAttribute
  <2>5. {names'[j] : j \in Used'} = {k.name : k \in heard'}
    BY <2>2, <2>3, <2>4
  <2>. QED  BY <2>1, <2>5 DEF SlotPerAttribute
<1>12. NewestWins'
  <2>1. ASSUME NEW n \in Nodes PROVE EntryRight(status'[i][n], About(m.name, n)')
    <3>1. About(m.name, n)' = IF n = m.node THEN {m} ELSE {}
      BY <1>3, <1>8 DEF About
    <3>2. CASE n = m.node
      <4>1. status'[i][n] = StatusOf(m) /\ About(m.name, n)' = {m}
        BY <1>6, <3>1, <3>2
      <4>. QED  BY <4>1, <1>1 DEF EntryRight
    <3>3. CASE n # m.node
      <4>1. status[i][n] \in Stat
        BY <1>0, <1>2 DEF TypeOK, Stat
      <4>2. [status[i][n] EXCEPT !.when = 0].when = 0
        BY <4>1 DEF Stat
      <4>3. status'[i][n].when = 0 /\ About(m.name, n)' = {}
        BY <1>6, <3>1, <3>3, <4>2
      <4>. QED  BY <4>3 DEF EntryRight
    <3>. QED  BY <3>2, <3>3
  <2>2. ASSUME NEW j \in Used', NEW n \in Nodes
        PROVE  EntryRight(status'[j][n], {k \in heard' : k.name = names'[j] /\ k.node = n})
    <3>1. CASE j = i
      BY <2>1, <3>1, <1>7 DEF About
    <3>2. CASE j # i
      <4>1. j \in Used /\ names'[j] = names[j]
        BY <3>2, <1>7
      <4>2. {k \in heard' : k.name = names[j] /\ k.node = n} = About(names[j], n)
        BY <4>1, <1>3 DEF About
      <4>3. EntryRight(status[j][n], About(names[j], n))
        BY <4>1, <1>0, TableByEntries
      <4>4. status'[j][n] = status[j][n]
        BY <4>1, <1>0, <1>5, <1>7, PictureType
      <4>. QED  BY <4>1, <4>2, <4>3, <4>4
    <3>. QED  BY <3>1, <3>2
  <2>. QED  BY <2>2 DEF NewestWins, EntryRight, Nodes, About
<1>15. BoundsAreHull'
  <2>1. DOMAIN bound = 1 .. MaxProp + 1 /\ i \in DOMAIN bound
    BY <1>0, <1>2, ServerConstants DEF TypeOK, Slots, ServerConstants
  <2>2. ASSUME NEW j \in Used', ~Spoilt(j)'
        PROVE  Hull(bound'[j], {k.value : k \in {h \in heard' : h.name = names'[j]}})
    <3>1. CASE j = i
      <4>1. {k.value : k \in {h \in heard' : h.name = names'[j]}} = {m.value}
        BY <3>1, <1>3, <1>7, <1>8
      <4>2. bound'[j].min = m.value /\ bound'[j].max = m.value
        BY <3>1, <1>14
      <4>. QED  BY <4>1, <4>2, <1>1 DEF Hull
    <3>2. CASE j # i
      <4>1. j \in Used /\ names'[j] = names[j] /\ names[j] # m.name
        BY <3>2, <1>3, <1>7
      <4>2. {k.value : k \in {h \in heard' : h.name = names'[j]}} = Values(names[j])
        BY <4>1, <1>3 DEF Values
      <4>3. j \in DOMAIN bound
        BY <4>1, <2>1, <1>0, PictureType, ServerConstants DEF Slots, ServerConstants
      <4>4. bound'[j] = bound[j]
        BY <4>1, <4>3, <1>4, <1>7
      <4>5. Hull(bound[j], Values(names[j]))
        <5>1. j > 1 => j - 1 \in Used
          BY <4>1 DEF Used
        <5>2. ~Spoilt(j)
          BY <5>1, <2>2, <1>3, <1>7 DEF Spoilt, About
        <5>. QED  BY <4>1, <5>2, <1>0, TableByEntries
      <4>. QED  BY <4>2, <4>4, <4>5
    <3>. QED  BY <3>1, <3>2
  <2>. QED  BY <2>2 DEF BoundsAreHull, Hull
<1>. QED  BY <1>9, <1>11, <1>12, <1>15 DEF TableInv

(* The steps that leave names, bounds, statuses and history alone. *)
LEMMA TableKept ==
    ASSUME TableInv, TypeOK', UNCHANGED <<names, bound, status, heard>>
    PROVE  TableInv'
<1>1. Used' = Used
  BY DEF Used
<1>2. SlotPerAttribute'
  BY <1>1 DEF TableInv, SlotPerAttribute
<1>3. NewestWins'
  BY <1>1 DEF TableInv, NewestWins, About, Nodes
<1>4. BoundsAreHull'
  <2>1. \A i : Spoilt(i)' <=> Spoilt(i)
    BY DEF Spoilt, About
  <2> SUFFICES ASSUME NEW i \in Used, ~Spoilt(i) PROVE Hull(bound[i], Values(names[i]))
    BY <1>1, <2>1 DEF BoundsAreHull, Hull, Values
  <2>. QED  BY TableByEntries DEF TableInv
<1>. QED  BY <1>2, <1>3, <1>4 DEF TableInv

(* Every step keeps the invariant of the table. *)
LEMMA TableStep == TableInv /\ [Next]_vars => TableInv'
<1> SUFFICES ASSUME TableInv, [Next]_vars PROVE TableInv'
  OBVIOUS
<1>1. TypeOK'
  BY TypeStep DEF TableInv
<1>2. CASE UNCHANGED <<names, bound, status, heard>>
  BY <1>1, <1>2, TableKept
<1>3. ASSUME NEW m \in net, Handle(m) PROVE TableInv'
  <2>1. ASSUME NEW i \in Used, Update(m, i) PROVE TableInv'
    BY <2>1, UpdateTable
  <2>2. CASE NewSlot(m)
    BY <2>2, NewSlotTable
  <2>3. CASE DropNode(m) \/ NoFile(m) \/ Overrun(m)
    BY <2>3, <1>2 DEF DropNode, NoFile, Overrun, table
  <2>. QED  BY <1>3, <2>1, <2>2, <2>3 DEF Handle
<1>4. CASE Restart
  BY <1>1, <1>4 DEF Restart, TableInv, SlotPerAttribute, NewestWins, BoundsAreHull, Used
<1>5. CASE Tick \/ SelectTimeout \/ RecvFails \/ UNCHANGED vars
  BY <1>5, <1>2 DEF Tick, SelectTimeout, RecvFails, vars, table
<1>6. ASSUME NEW p, Send(p) PROVE TableInv'
  BY <1>6, <1>2 DEF Send, table
<1>. QED  BY <1>3, <1>4, <1>5, <1>6 DEF Next

(* The table is right, whatever numbers the nodes have. *)
LEMMA TableCorrect == Spec => []TableInv
<1>1. Init => TableInv
  <2> SUFFICES ASSUME Init PROVE TableInv
    OBVIOUS
  <2>1. TypeOK
    BY ServerConstants DEF Init, Cleared, TypeOK, Blank, Absent, ServerConstants
  <2>. QED  BY <2>1 DEF Init, Cleared, TableInv, SlotPerAttribute, NewestWins, BoundsAreHull, Used
<1>2. TableInv /\ [Next]_vars => TableInv'
  BY TableStep
<1>. QED  BY <1>1, <1>2, PTL DEF Spec

(* Loss, duplication and reordering do not show in any table.              *)
THEOREM NewestWinsAlways == Spec => []NewestWins
<1>1. Spec => []TableInv
  BY TableCorrect
<1>2. TableInv => NewestWins
  BY DEF TableInv
<1>. QED  BY <1>1, <1>2, PTL

(* The bounds are the hull of all values handled, but for those of a slot  *)
(* behind one that heard of node number MAXNODE.                           *)
THEOREM BoundsAlwaysHull == Spec => []BoundsAreHull
<1>1. Spec => []TableInv
  BY TableCorrect
<1>2. TableInv => BoundsAreHull
  BY DEF TableInv
<1>. QED  BY <1>1, <1>2, PTL

(* The search and the insertion agree on one slot per attribute.           *)
THEOREM OneSlotAlways == Spec => []SlotPerAttribute
<1>1. Spec => []TableInv
  BY TableCorrect
<1>2. TableInv => SlotPerAttribute
  BY DEF TableInv
<1>. QED  BY <1>1, <1>2, PTL

----------------------------------------------------------------------------
(* What a step does to the times of the table.  Nothing is assumed of the  *)
(* numbers of nodes here: the entry of MAXNODE lies in the bounds of the   *)
(* next slot and is no status.                                             *)

TimesGrow == \A i \in Used, n \in Nodes : status[i][n].when <= status'[i][n].when

(* Steps that leave the statuses alone leave their times alone. *)
LEMMA TimesKept == ASSUME TypeOK, status' = status PROVE TimesGrow
<1> SUFFICES ASSUME NEW i \in Used, NEW n \in Nodes
             PROVE  status[i][n].when <= status'[i][n].when
  BY DEF TimesGrow
<1>1. i \in Slots
  BY PictureType
<1>2. status[i][n] \in Stat
  BY <1>1 DEF TypeOK, Stat
<1>3. status[i][n].when \in Nat
  BY <1>2 DEF Stat
<1>. QED  BY <1>3

(* A packet of a known attribute replaces no status that is younger. *)
LEMMA UpdateTimes == ASSUME TypeOK, NEW m \in net, NEW j \in Used, Update(m, j) PROVE TimesGrow
<1> DEFINE wide == [bound EXCEPT ![j] = Widen(@, m.value)]
<1>1. CASE IsFresh(wide, j, m) /\ m.node < MaxNode
  <2> SUFFICES ASSUME NEW i \in Used, NEW n \in Nodes
               PROVE  status[i][n].when <= status'[i][n].when
    BY DEF TimesGrow
  <2>1. i \in Slots /\ j \in Slots
    BY PictureType
  <2>2. status \in [Slots -> [Nodes -> Stat]] /\ status[i][n] \in Stat
    BY <2>1 DEF TypeOK, Stat
  <2>3. status' = [status EXCEPT ![j][m.node] = StatusOf(m)]
    BY <1>1 DEF Update
  <2>4. CASE i = j /\ n = m.node
    <3>1. status'[i][n] = StatusOf(m)
      BY <2>1, <2>2, <2>3, <2>4
    <3>2. status[i][n].when <= m.when
      BY <1>1, <2>4 DEF IsFresh, StatusAt
    <3>. QED  BY <3>1, <3>2 DEF StatusOf
  <2>5. CASE ~(i = j /\ n = m.node)
    <3>1. status'[i][n] = status[i][n]
      BY <2>1, <2>2, <2>3, <2>5
    <3>2. status[i][n].when \in Nat
      BY <2>2 DEF Stat
    <3>. QED  BY <3>1, <3>2
  <2>. QED  BY <2>4, <2>5
<1>2. CASE ~(IsFresh(wide, j, m) /\ m.node < MaxNode)
  <2>1. status' = status
    BY <1>2 DEF Update
  <2>. QED  BY <2>1, TimesKept
<1>. QED  BY <1>1, <1>2

(* The first packet of an attribute touches no slot in use. *)
LEMMA NewSlotTimes == ASSUME TypeOK, NEW m \in net, NewSlot(m) PROVE TimesGrow
<1> SUFFICES ASSUME NEW i \in Used, NEW n \in Nodes
             PROVE  status[i][n].when <= status'[i][n].when
  BY DEF TimesGrow
<1>1. i \in Slots /\ i # Len(names) + 1
  <2>1. i \in Slots
    BY PictureType
  <2>2. names \in Seq(Attr)
    BY DEF TypeOK
  <2>3. i \in 1 .. Len(names) /\ Len(names) \in Nat
    BY <2>2 DEF Used
  <2>. QED  BY <2>1, <2>3
<1>2. status'[i] = status[i]
  <2>1. DOMAIN status = Slots
    BY DEF TypeOK
  <2>2. \E row : status' = [status EXCEPT ![Len(names) + 1] = row]
    BY Zenon DEF NewSlot
  <2>. QED  BY <1>1, <2>1, <2>2
<1>3. status[i][n].when \in Nat
  BY <1>1 DEF TypeOK
<1>. QED  BY <1>2, <1>3

(* While the server runs, no step moves the time of a status back. *)
LEMMA TimesStep == TypeOK /\ [Next]_vars => [up = "up" => TimesGrow]_vars
<1> SUFFICES ASSUME TypeOK, Next, up = "up" PROVE TimesGrow
  OBVIOUS
<1>1. CASE status' = status
  BY <1>1, TimesKept
<1>2. ASSUME NEW m \in net, Handle(m) PROVE TimesGrow
  <2>1. ASSUME NEW i \in Used, Update(m, i) PROVE TimesGrow
    BY <2>1, UpdateTimes
  <2>2. CASE NewSlot(m)
    BY <2>2, NewSlotTimes
  <2>3. CASE DropNode(m) \/ NoFile(m) \/ Overrun(m)
    BY <2>3, <1>1 DEF DropNode, NoFile, Overrun, table
  <2>. QED  BY <1>2, <2>1, <2>2, <2>3 DEF Handle
<1>3. ~Restart
  BY DEF Restart
<1>4. CASE Tick \/ SelectTimeout \/ RecvFails
  BY <1>4, <1>1 DEF Tick, SelectTimeout, RecvFails, table
<1>5. ASSUME NEW p, Send(p) PROVE TimesGrow
  BY <1>5, <1>1 DEF Send, table
<1>. QED  BY <1>2, <1>3, <1>4, <1>5 DEF Next

(* A display that runs never goes back to an older report, whatever the    *)
(* order in which packets arrive (uptint paints what this table holds).    *)
THEOREM NoStatusGoesBackEver == Spec => NoStatusGoesBack
<1>1. Spec => []TypeOK
  BY TypeCorrect
<1>2. TypeOK /\ [Next]_vars => [up = "up" => \A i \in Used, n \in Nodes :
                                   status[i][n].when <= status'[i][n].when]_vars
  BY TimesStep DEF TimesGrow
<1>. QED  BY <1>1, <1>2, PTL DEF Spec, NoStatusGoesBack

----------------------------------------------------------------------------
(* What a step does to the pictures: it leaves a slot and its picture      *)
(* alone, or paints the picture now, or is still within the gap of the     *)
(* last repaint, or has the slot spoilt.                                   *)
SameSlot(i) == /\ names'[i] = names[i] /\ status'[i] = status[i] /\ bound'[i] = bound[i]
               /\ disp'[names[i]] = disp[names[i]]

Keeps(i) == SameSlot(i) \/ now < lastup'[i] + RefreshGap \/ Spoilt(i)'

LEMMA SameSlotLag == ASSUME NEW i, SameSlot(i) PROVE Lagging(i)' <=> Lagging(i)
  BY DEF SameSlot, Lagging

(* A repaint that is due is stamped with the time; one that is not due     *)
(* changes nothing.                                                        *)
LEMMA UptintStamps ==
    ASSUME NEW p, NEW b, NEW row, now \in Nat
    PROVE  \/ Uptint(p, b, row) = p /\ now < p.lastup + RefreshGap
           \/ Uptint(p, b, row).lastup = now /\ now < now + RefreshGap
  BY ServerConstants DEF Uptint, ServerConstants

LEMMA TimeoutLag == ASSUME TypeOK, SlotPerAttribute, SelectTimeout, NEW i \in Used PROVE Keeps(i)
<1>1. i \in Slots /\ names[i] \in Attr /\ now \in Nat
  BY PictureType DEF TypeOK
<1>2. PICK q : q = Uptint(Picture(i), bound[i], status[i])
  OBVIOUS
<1>3. (CHOOSE j \in Used : names[j] = names[i]) = i
  BY DEF SlotPerAttribute
<1>4. /\ lastup'[i] = q.lastup /\ disp'[names[i]] = q.cells
      /\ names' = names /\ status' = status /\ bound' = bound
  BY <1>1, <1>2, <1>3 DEF SelectTimeout
<1>5. q = Picture(i) \/ (q.lastup = now /\ now < now + RefreshGap)
  BY <1>1, <1>2, UptintStamps
<1>. QED  BY <1>4, <1>5 DEF Keeps, SameSlot, Picture

LEMMA UpdateLag == ASSUME TypeOK, SlotPerAttribute, NEW m \in net, NEW j \in Used, Update(m, j), NEW i \in Used
                   PROVE  Keeps(i)
<1>1. /\ i \in Slots /\ j \in Slots /\ names[i] \in Attr /\ m.name \in Attr /\ now \in Nat
      /\ names[j] = m.name /\ names' = names /\ heard' = heard \cup {m}
      /\ i \in 1 .. MaxProp + 1 /\ j \in 1 .. MaxProp + 1 /\ i + 1 # i
  <2>1. i \in Slots /\ j \in Slots /\ names[i] \in Attr /\ m.name \in Attr
    BY PictureType, PacketValid
  <2>. QED  BY <2>1, ServerConstants DEF Update, TypeOK, Slots, ServerConstants
<1> DEFINE wide == [bound EXCEPT ![j] = Widen(@, m.value)]
           pic1 == IF wide = bound THEN Picture(j) ELSE Uptint(Picture(j), wide[j], status[j])
           pic2 == IF IsFresh(wide, j, m) THEN Uptint(pic1, wide[j], status'[j]) ELSE pic1
<1>2. /\ lastup' = [lastup EXCEPT ![j] = pic2.lastup] /\ disp' = [disp EXCEPT ![m.name] = pic2.cells]
      /\ status' = IF IsFresh(wide, j, m) /\ m.node < MaxNode
                   THEN [status EXCEPT ![j][m.node] = StatusOf(m)] ELSE status
      /\ bound' = IF IsFresh(wide, j, m) /\ m.node = MaxNode
                  THEN [wide EXCEPT ![j + 1] = [min |-> m.value, max |-> m.when]] ELSE wide
  BY DEF Update, StatusOf
<1>3. CASE i # j
  <2>1. names[i] # m.name
    BY <1>1, <1>3 DEF SlotPerAttribute
  <2>2. disp'[names[i]] = disp[names[i]] /\ status'[i] = status[i] /\ wide[i] = bound[i]
    BY <1>1, <1>2, <1>3, <2>1 DEF TypeOK
  <2>3. CASE i = j + 1 /\ m.node = MaxNode
    <3>1. j = i - 1 /\ i > 1
      BY <1>1, <2>3 DEF Slots
    <3>2. m \in {h \in heard' : h.name = names'[i - 1] /\ h.node = MaxNode}
      BY <1>1, <2>3, <3>1
    <3>. QED  BY <3>1, <3>2 DEF Keeps, Spoilt, About
  <2>4. CASE ~(i = j + 1 /\ m.node = MaxNode)
    <3>1. bound'[i] = wide[i]
      BY <1>1, <1>2, <2>4 DEF TypeOK
    <3>. QED  BY <1>1, <2>2, <3>1 DEF Keeps, SameSlot
  <2>. QED  BY <2>3, <2>4
<1>4. CASE i = j
  <2>1. /\ lastup'[i] = pic2.lastup /\ disp'[names[i]] = pic2.cells
    BY <1>1, <1>2, <1>4 DEF TypeOK
  <2>2. IsFresh(wide, j, m) => now < pic2.lastup + RefreshGap
    BY <1>1, UptintStamps
  <2>3. wide # bound => now < pic1.lastup + RefreshGap
    BY <1>1, UptintStamps
  <2>4. CASE wide = bound /\ ~IsFresh(wide, j, m)
    <3>1. bound' = bound /\ status' = status /\ pic2 = Picture(i)
      BY <1>2, <1>4, <2>4
    <3>. QED  BY <1>1, <2>1, <3>1 DEF Keeps, SameSlot, Picture
  <2>5. CASE wide # bound \/ IsFresh(wide, j, m)
    BY <2>1, <2>2, <2>3, <2>5 DEF Keeps
  <2>. QED  BY <2>4, <2>5
<1>. QED  BY <1>3, <1>4

LEMMA NewSlotLag == ASSUME TypeOK, NEW m \in net, NewSlot(m), NEW i \in Used PROVE Keeps(i)
<1>1. i \in Slots /\ i # Len(names) + 1 /\ names[i] \in Attr /\ m.name \in Attr
  <2>1. i \in Slots /\ names[i] \in Attr
    BY PictureType
  <2>2. m.name \in Attr
    BY PacketValid
  <2>3. names \in Seq(Attr) /\ i \in 1 .. Len(names)
    BY DEF Used, TypeOK
  <2>4. i # Len(names) + 1
    BY <2>3
  <2>. QED  BY <2>1, <2>2, <2>4
<1>2. names[i] # m.name /\ names'[i] = names[i]
  <2>1. names \in Seq(Attr) /\ i \in 1 .. Len(names)
    BY DEF Used, TypeOK
  <2>2. names[i] # m.name
    BY DEF NewSlot, Unknown
  <2>3. names' = Append(names, m.name)
    BY DEF NewSlot
  <2>. QED  BY <1>1, <2>1, <2>2, <2>3
<1>3. status'[i] = status[i] /\ disp'[names[i]] = disp[names[i]]
  BY <1>1, <1>2 DEF NewSlot, TypeOK
<1>4. i < Len(names) + 1 /\ i \in 1 .. MaxProp + 1
  BY <1>1, ServerConstants DEF Used, TypeOK, Slots, ServerConstants
<1>5. bound'[i] = bound[i]
  BY <1>1, <1>4 DEF NewSlot, TypeOK
<1>. QED  BY <1>2, <1>3, <1>5 DEF Keeps, SameSlot

LEMMA LagStep == TypeOK /\ SlotPerAttribute /\ [Next]_vars => [up = "up" => \A i \in Used : Keeps(i)]_vars
<1> SUFFICES ASSUME TypeOK, SlotPerAttribute, Next, up = "up", NEW i \in Used PROVE Keeps(i)
  OBVIOUS
<1>1. ASSUME UNCHANGED <<names, status, bound, disp>> PROVE Keeps(i)
  BY <1>1 DEF Keeps, SameSlot
<1>2. ASSUME NEW m \in net, Handle(m) PROVE Keeps(i)
  <2>1. ASSUME NEW j \in Used, Update(m, j) PROVE Keeps(i)
    BY <2>1, UpdateLag
  <2>2. CASE NewSlot(m)
    BY <2>2, NewSlotLag
  <2>3. CASE NoFile(m)
    <3>1. names[i] # m.name /\ names[i] \in Attr /\ names' = names /\ status' = status /\ bound' = bound
      BY <2>3, PictureType DEF NoFile, Unknown
    <3>2. disp'[names[i]] = disp[names[i]]
      BY <2>3, <3>1 DEF NoFile, TypeOK
    <3>. QED  BY <3>1, <3>2 DEF Keeps, SameSlot
  <2>4. CASE DropNode(m) \/ Overrun(m)
    BY <2>4, <1>1 DEF DropNode, Overrun, table
  <2>. QED  BY <1>2, <2>1, <2>2, <2>3, <2>4 DEF Handle
<1>3. ~Restart
  BY DEF Restart
<1>4. CASE SelectTimeout
  BY <1>4, TimeoutLag
<1>5. CASE Tick \/ RecvFails
  BY <1>5, <1>1 DEF Tick, RecvFails, table
<1>6. ASSUME NEW p, Send(p) PROVE Keeps(i)
  BY <1>6, <1>1 DEF Send, table
<1>. QED  BY <1>2, <1>3, <1>4, <1>5, <1>6 DEF Next

(* nodescape.c:535: the first of the two repaints of a packet is of the    *)
(* old status, and yet a picture falls behind its table only within the    *)
(* gap of a repaint, whatever the order and the number of packets.         *)
THEOREM LagOnlyInsideGapEver == Spec => LagOnlyInsideGap
<1>1. TypeOK /\ SlotPerAttribute /\ [Next]_vars
      => [up = "up" => \A i \in Used : ~Lagging(i) /\ Lagging(i)' /\ ~Spoilt(i)' => now < lastup'[i] + RefreshGap]_vars
  BY LagStep, SameSlotLag DEF Keeps
<1>. QED  BY <1>1, TypeCorrect, OneSlotAlways, PTL DEF Spec, LagOnlyInsideGap

----------------------------------------------------------------------------
(* The display server implements the declarative table of LatestStatus.    *)
(* An entry of that table is the status in the slot of its attribute; a    *)
(* pass of the loop that handles a packet of a node with an entry is       *)
(* Process, a restart is Forget, and everything else is a stutter.         *)

(* No report has the time 0 that marks an entry without a status: clocks   *)
(* start later.                                                            *)
TimesPositive == now > 0 /\ \A m \in net : m.when > 0

Shown(st) == IF st.when = 0 THEN Blank ELSE st

(* The table of the promise, slot by slot. *)
EntryOfSlots ==
    /\ \A i \in Used, n \in Nodes : Entry[names[i]][n] = Shown(status[i][n])
    /\ \A a \in Attr, n \in Nodes : Unknown(a) => Entry[a][n] = Blank

(* The table of the promise, report by report. *)
EntryOfHeard ==
    \A i \in Used, n \in Nodes :
        LET S == About(names[i], n)
        IN  S # {} => \E k \in S : /\ Entry[names[i]][n] = StatusOf(k)
                                   /\ \A h \in S : h.when <= k.when

----------------------------------------------------------------------------
(* Clocks only run forward from a positive time. *)
LEMMA PositiveStep == TypeOK /\ TimesPositive /\ [Next]_vars => TimesPositive'
<1> SUFFICES ASSUME TypeOK, TimesPositive, [Next]_vars PROVE TimesPositive'
  OBVIOUS
<1>1. now \in Nat
  BY DEF TypeOK
<1>2. CASE UNCHANGED <<now, net>>
  BY <1>2 DEF TimesPositive
<1>3. CASE Tick
  BY <1>1, <1>3 DEF Tick, TimesPositive
<1>4. ASSUME NEW a \in Attr, NEW n \in SentNode, NEW v \in Value, NEW d \in 0 .. MaxAhead,
             Send([name |-> a, node |-> n, value |-> v, when |-> now + d])
      PROVE  TimesPositive'
  <2>1. now + d > 0
    BY <1>1, ServerConstants DEF TimesPositive, ServerConstants
  <2>. QED  BY <1>4, <2>1 DEF Send, TimesPositive
<1>5. ASSUME NEW m \in net, Handle(m) PROVE UNCHANGED <<now, net>>
  BY <1>5 DEF Handle, DropNode, Update, NewSlot, NoFile, Overrun
<1>6. CASE SelectTimeout \/ RecvFails \/ Restart \/ UNCHANGED vars
  BY <1>2, <1>6 DEF SelectTimeout, RecvFails, Restart, vars
<1>. QED  BY <1>2, <1>3, <1>4, <1>5, <1>6 DEF Next

(* The slot of an attribute is the only one of its name, so CHOOSE finds it. *)
LEMMA EntryBySlot == TypeOK /\ SlotPerAttribute => EntryOfSlots
<1> SUFFICES ASSUME TypeOK, SlotPerAttribute PROVE EntryOfSlots
  OBVIOUS
<1>1. ASSUME NEW i \in Used, NEW n \in Nodes PROVE Entry[names[i]][n] = Shown(status[i][n])
  <2>1. names[i] \in Attr
    BY PictureType
  <2>2. ~Unknown(names[i])
    BY DEF Unknown
  <2>3. (CHOOSE j \in Used : names[j] = names[i]) = i
    BY DEF SlotPerAttribute
  <2>. QED  BY <2>1, <2>2, <2>3 DEF Entry, Shown
<1>2. ASSUME NEW a \in Attr, NEW n \in Nodes, Unknown(a) PROVE Entry[a][n] = Blank
  BY <1>2 DEF Entry
<1>. QED  BY <1>1, <1>2 DEF EntryOfSlots

(* The status on display was heard and is the newest. *)
LEMMA EntryByReport == TableInv /\ TimesPositive => EntryOfHeard
<1> SUFFICES ASSUME TableInv, TimesPositive, NEW i \in Used, NEW n \in Nodes,
                    About(names[i], n) # {}
             PROVE  \E k \in About(names[i], n) :
                       /\ Entry[names[i]][n] = StatusOf(k)
                       /\ \A h \in About(names[i], n) : h.when <= k.when
  BY DEF EntryOfHeard
<1>1. PICK k \in About(names[i], n) : /\ status[i][n] = StatusOf(k)
                                      /\ \A h \in About(names[i], n) : h.when <= k.when
  BY DEF TableInv, NewestWins
<1>2. k.when # 0
  <2>1. k \in net
    BY DEF About, TableInv, TypeOK
  <2>. QED  BY <2>1 DEF TimesPositive
<1>3. Entry[names[i]][n] = Shown(status[i][n])
  BY EntryBySlot DEF TableInv, EntryOfSlots
<1>4. Shown(status[i][n]) = StatusOf(k)
  BY <1>1, <1>2 DEF Shown, StatusOf
<1>. QED  BY <1>1, <1>3, <1>4

RefineInv == TableInv /\ TimesPositive

(* A packet of a node with an entry is a report of the promise. *)
LEMMA PacketReports ==
    ASSUME TypeOK, NEW m \in net, m.node < MaxNode
    PROVE  m \in Latest!Report
<1>1. m.name \in Attr /\ m.node \in Nodes /\ m.when \in Nat
  BY PacketValid
<1>2. m \in Packet
  BY DEF TypeOK
<1>. QED  BY <1>1, <1>2 DEF Packet, Latest!Report

(* A step that handles m and disturbs no other entry is a step of the      *)
(* promise: the entry of m is right because the invariant holds after it.  *)
LEMMA ProcessStep ==
    ASSUME NEW m \in heard', m \in Latest!Report, EntryOfHeard', heard' = heard \cup {m},
           ~Unknown(m.name)',
           \A a \in Attr, n \in Nodes : ~(a = m.name /\ n = m.node) => Entry'[a][n] = Entry[a][n]
    PROVE  Latest!Process(m)
<1> DEFINE S == {h \in heard' : h.name = m.name /\ h.node = m.node}
<1>7. S = Latest!About(Reported', m.name, m.node) /\ Reported' = Reported \cup {m}
  BY DEF Latest!About, Latest!Report, Reported, Nodes
<1>1. m.name \in Attr /\ m.node \in Nodes
  BY DEF Latest!Report
<1>2. PICK i \in Used' : names'[i] = m.name
  BY DEF Unknown
<1>3. S = About(names[i], m.node)' /\ S # {}
  BY <1>2 DEF About
<1>4. PICK k \in S : Entry'[m.name][m.node] = StatusOf(k) /\ \A h \in S : h.when <= k.when
  BY <1>1, <1>2, <1>3 DEF EntryOfHeard, Nodes
<1>5. k \in Latest!Newest(Latest!About(Reported', m.name, m.node))
  BY <1>4, <1>7 DEF Latest!Newest
<1>6. Entry' = [Entry EXCEPT ![m.name][m.node] = Latest!StatusOf(k)]
  <2>1. Entry' = [a \in Attr |-> [n \in Nodes |-> Entry'[a][n]]]
    BY DEF Entry, Nodes
  <2>2. Entry = [a \in Attr |-> [n \in Nodes |-> Entry[a][n]]]
    BY DEF Entry
  <2>3. Latest!StatusOf(k) = StatusOf(k)
    BY DEF Latest!StatusOf, StatusOf
  <2>. QED  BY <1>1, <1>4, <2>1, <2>2, <2>3
<1>. QED  BY <1>5, <1>6, <1>7 DEF Latest!Process

(* A packet about a known attribute is a step of the promise, where its    *)
(* node has an entry.                                                      *)
LEMMA UpdateRefines ==
    ASSUME RefineInv, RefineInv', NEW m \in net, NEW i \in Used, m.node < MaxNode,
           Update(m, i), EntryOfSlots, EntryOfSlots', EntryOfHeard'
    PROVE  Latest!Process(m) /\ m \in Latest!Report
<1>1. TypeOK
  BY DEF RefineInv, TableInv
<1>2. m \in Latest!Report
  BY <1>1, PacketReports
<1>3. names' = names /\ names[i] = m.name /\ heard' = heard \cup {m} /\ Used' = Used
  BY DEF Update, Used
<1>4. \A j \in Used, n \in Nodes : ~(j = i /\ n = m.node) => status'[j][n] = status[j][n]
  <2>1. status' = status \/ status' = [status EXCEPT ![i][m.node] = StatusOf(m)]
    BY DEF Update
  <2>2. status \in [Slots -> [Nodes -> Stat]]
    BY <1>1 DEF TypeOK, Stat
  <2>. QED  BY <1>1, <2>1, <2>2, PictureType
<1>5. ASSUME NEW a \in Attr, NEW n \in Nodes, ~(a = m.name /\ n = m.node)
      PROVE  Entry'[a][n] = Entry[a][n]
  <2>1. CASE Unknown(a)
    <3>1. Unknown(a)'
      BY <1>3, <2>1 DEF Unknown
    <3>. QED  BY <2>1, <3>1 DEF EntryOfSlots, Nodes
  <2>2. CASE ~Unknown(a)
    <3>1. PICK j \in Used : names[j] = a
      BY <2>2 DEF Unknown
    <3>2. Entry[a][n] = Shown(status[j][n]) /\ Entry'[a][n] = Shown(status'[j][n])
      BY <1>3, <3>1 DEF EntryOfSlots, Shown, Nodes, Blank
    <3>3. status'[j][n] = status[j][n]
      BY <1>3, <1>4, <1>5, <3>1
    <3>. QED  BY <3>2, <3>3
  <2>. QED  BY <2>1, <2>2
<1>6. ~Unknown(m.name)'
  BY <1>3 DEF Unknown
<1>. QED  BY <1>2, <1>3, <1>5, <1>6, ProcessStep

(* The first packet of an attribute moves no other entry: those of the     *)
(* other nodes were blank and have no time in the new slot.                *)
LEMMA NewSlotEntries ==
    ASSUME TypeOK, NEW m \in net, NewSlot(m), EntryOfSlots, EntryOfSlots'
    PROVE  /\ ~Unknown(m.name)'
           /\ \A a \in Attr, n \in Nodes : ~(a = m.name /\ n = m.node) => Entry'[a][n] = Entry[a][n]
<1> DEFINE i == Len(names) + 1
<1>2. m.name \in Attr
  BY PacketValid
<1>3. names \in Seq(Attr) /\ Len(names) \in Nat /\ i \in Slots
  BY ServerConstants DEF NewSlot, TypeOK, Slots, ServerConstants
<1>4. names' = Append(names, m.name) /\ Unknown(m.name)
  BY DEF NewSlot
<1>5. /\ Used' = Used \cup {i} /\ names'[i] = m.name
      /\ \A j \in Used : names'[j] = names[j] /\ status'[j] = status[j]
  <2>1. Used' = Used \cup {i} /\ names'[i] = m.name /\ \A j \in Used : names'[j] = names[j]
    BY <1>2, <1>3, <1>4 DEF Used
  <2>2. \A j \in Used : j \in Slots /\ j # i
    BY <1>3, PictureType DEF Used
  <2>3. \A j \in Slots : j # i => status'[j] = status[j]
    BY <1>3 DEF NewSlot, TypeOK
  <2>. QED  BY <2>1, <2>2, <2>3
<1>6. \A n \in Nodes : n # m.node => status'[i][n].when = 0
  BY <1>3 DEF NewSlot, TypeOK
<1>7. ASSUME NEW a \in Attr, NEW n \in Nodes, ~(a = m.name /\ n = m.node)
      PROVE  Entry'[a][n] = Entry[a][n]
  <2>1. CASE a = m.name
    <3>1. Entry'[a][n] = Shown(status'[i][n])
      BY <1>5, <2>1 DEF EntryOfSlots, Shown, Nodes, Blank
    <3>2. Shown(status'[i][n]) = Blank
      BY <1>6, <1>7, <2>1 DEF Shown
    <3>3. Entry[a][n] = Blank
      BY <1>4, <2>1 DEF EntryOfSlots
    <3>. QED  BY <3>1, <3>2, <3>3
  <2>2. CASE a # m.name /\ Unknown(a)
    <3>1. Unknown(a)'
      BY <1>5, <2>2 DEF Unknown
    <3>. QED  BY <2>2, <3>1 DEF EntryOfSlots, Nodes, Blank
  <2>3. CASE a # m.name /\ ~Unknown(a)
    <3>1. PICK j \in Used : names[j] = a
      BY <2>3 DEF Unknown
    <3>2. Entry[a][n] = Shown(status[j][n]) /\ Entry'[a][n] = Shown(status'[j][n])
      BY <1>5, <3>1 DEF EntryOfSlots, Shown, Nodes, Blank
    <3>. QED  BY <1>5, <3>1, <3>2
  <2>. QED  BY <2>1, <2>2, <2>3
<1>8. ~Unknown(m.name)'
  BY <1>5 DEF Unknown
<1>. QED  BY <1>7, <1>8

(* So it is a step of the promise too. *)
LEMMA NewSlotRefines ==
    ASSUME RefineInv, NEW m \in net, m.node < MaxNode, NewSlot(m),
           EntryOfSlots, EntryOfSlots', EntryOfHeard'
    PROVE  Latest!Process(m) /\ m \in Latest!Report
<1>1. TypeOK /\ m \in Latest!Report
  BY PacketReports DEF RefineInv, TableInv
<1>2. heard' = heard \cup {m}
  BY DEF NewSlot
<1>. QED  BY <1>1, <1>2, NewSlotEntries, ProcessStep


(* What leaves names, statuses and reports alone is a stutter. *)
LEMMA EntryKept == ASSUME UNCHANGED <<names, status, Reported>> PROVE UNCHANGED Latest!vars
  BY DEF Latest!vars, Entry, Unknown, Used, Nodes, Blank

(* So is a packet with the node number MAXNODE: it has no entry.           *)
LEMMA NoEntryStutters ==
    ASSUME TypeOK, NEW m \in net, m.node = MaxNode, EntryOfSlots, EntryOfSlots',
           NewSlot(m) \/ \E i \in Used : Update(m, i)
    PROVE  UNCHANGED Latest!vars
<1>1. heard' = heard \cup {m}
  BY DEF NewSlot, Update
<1>2. Reported' = Reported
  BY <1>1, ServerConstants DEF Reported, Nodes, ServerConstants
<1>3. CASE NewSlot(m)
  <2>1. \A a \in Attr, n \in Nodes : Entry'[a][n] = Entry[a][n]
    BY <1>3, NewSlotEntries, ServerConstants DEF Nodes, ServerConstants
  <2>2. /\ Entry' = [a \in Attr |-> [n \in Nodes |-> Entry'[a][n]]]
        /\ Entry = [a \in Attr |-> [n \in Nodes |-> Entry[a][n]]]
    BY DEF Entry, Nodes
  <2>3. Entry' = Entry
    BY <2>1, <2>2
  <2>. QED  BY <1>2, <2>3 DEF Latest!vars
<1>4. ASSUME NEW i \in Used, Update(m, i) PROVE UNCHANGED Latest!vars
  <2>1. ~(m.node < MaxNode)
    BY ServerConstants DEF ServerConstants
  <2>2. names' = names /\ status' = status
    BY <1>4, <2>1 DEF Update
  <2>3. UNCHANGED <<names, status, Reported>>
    BY <1>2, <2>2
  <2>. QED  BY <2>3, EntryKept
<1>. QED  BY <1>3, <1>4

(* Every step maps to a step of the promise or to a stutter. *)
LEMMA StepRefines ==
    /\ RefineInv /\ RefineInv' /\ EntryOfSlots /\ EntryOfSlots' /\ EntryOfHeard'
    /\ [Next]_vars
    => [Latest!Next]_(Latest!vars)
<1> SUFFICES ASSUME RefineInv, RefineInv', EntryOfSlots, EntryOfSlots', EntryOfHeard', [Next]_vars
             PROVE  [Latest!Next]_(Latest!vars)
  OBVIOUS
<1>1. CASE UNCHANGED <<names, status, heard>>
  BY <1>1, EntryKept DEF Reported, Nodes
<1>2. ASSUME NEW m \in net, Handle(m) PROVE [Latest!Next]_(Latest!vars)
  <2>0. TypeOK /\ m.node \in Nat /\ MaxNode \in Nat
    BY PacketValid, ServerConstants DEF RefineInv, TableInv, ServerConstants
  <2>1. CASE m.node = MaxNode /\ (NewSlot(m) \/ \E i \in Used : Update(m, i))
    BY <2>0, <2>1, NoEntryStutters
  <2>2. CASE m.node < MaxNode /\ (NewSlot(m) \/ \E i \in Used : Update(m, i))
    <3>1. m \in Reported'
      <4>1. m \in heard'
        BY <2>2 DEF NewSlot, Update
      <4>2. m.node \in Nodes
        BY <2>0, <2>2, PacketValid
      <4>. QED  BY <4>1, <4>2 DEF Reported, Nodes
    <3>2. Latest!Process(m) /\ m \in Latest!Report
      BY <2>2, UpdateRefines, NewSlotRefines
    <3>. QED  BY <3>1, <3>2 DEF Latest!Next
  <2>4. (NewSlot(m) \/ \E i \in Used : Update(m, i)) => m.node <= MaxNode
    BY DEF NewSlot, Update
  <2>3. CASE DropNode(m) \/ NoFile(m) \/ Overrun(m)
    BY <2>3, <1>1 DEF DropNode, NoFile, Overrun, table
  <2>. QED  BY <1>2, <2>0, <2>1, <2>2, <2>3, <2>4 DEF Handle
<1>3. CASE Restart
  <2>1. Entry' = [a \in Attr |-> [n \in Nodes |-> Latest!Blank]] /\ Reported' = {}
    BY <1>3 DEF Restart, Reported, Entry, Unknown, Used, Nodes, Blank, Latest!Blank
  <2>. QED  BY <2>1 DEF Latest!Next, Latest!Forget
<1>4. CASE Tick \/ SelectTimeout \/ RecvFails \/ UNCHANGED vars
  BY <1>4, <1>1 DEF Tick, SelectTimeout, RecvFails, vars, table
<1>5. ASSUME NEW p, Send(p) PROVE [Latest!Next]_(Latest!vars)
  BY <1>5, <1>1 DEF Send, table
<1>. QED  BY <1>2, <1>3, <1>4, <1>5 DEF Next

(* The table implements the promise of the header: loss, repetition,       *)
(* reordering, exits, restarts and packets of no node included, whatever   *)
(* the sizes.                                                              *)
THEOREM LatestStatusKept == Spec => KeepsLatestStatus
<1>1. Init => Latest!Init
  BY DEF Init, Cleared, Latest!Init, Reported, Entry, Unknown, Used, Nodes, Blank, Latest!Blank
<1>2. Init => TimesPositive
  BY ServerConstants DEF Init, TimesPositive, ServerConstants
<1>3. TableInv => TypeOK
  BY DEF TableInv
<1>4. TableInv => TypeOK /\ SlotPerAttribute
  BY DEF TableInv
<1>. QED  BY <1>1, <1>2, <1>3, <1>4, TableCorrect, PositiveStep, EntryBySlot, EntryByReport,
             StepRefines, PTL DEF Spec, KeepsLatestStatus, Latest!Spec, RefineInv
=============================================================================
