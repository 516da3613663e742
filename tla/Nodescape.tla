----------------------------- MODULE Nodescape -----------------------------
(***************************************************************************)
(* The display server of nodescape1: sensors throw status packets over UDP *)
(* at one server, which keeps a table with a slot per attribute and a      *)
(* status per node, and paints the table into one mapped image file per    *)
(* attribute.  The server is one process and one thread: a pass of its     *)
(* loop waits in select(), repaints when the wait times out, and otherwise *)
(* handles one packet to the end.                                          *)
(*                                                                         *)
(* The network keeps every packet ever sent and a receive takes any of     *)
(* them and leaves it there: a packet that is never taken is lost, one     *)
(* that is taken twice is duplicated, and the order is free.               *)
(***************************************************************************)
EXTENDS Integers, Sequences, FiniteSets

CONSTANTS Attr,       \* attribute names sensors report
          SentNode,   \* node numbers sensors put into packets
          Value,      \* values they report
          MaxNode,    \* MAXNODE: entries of a status array (255)
          MaxProp,    \* MAXPROP: slots of the table (16)
          SelTimeout, \* SELTIMEOUT: longest wait of one select (1 s)
          RefreshGap, \* FADETIME/(512*MAXFADE): least time between repaints (2.2 s)
          BeginFade,  \* BEGINFADE: age at which a colour begins to fade (60 s)
          FadeTime,   \* FADETIME: time from there to the last step of the fade (900 s)
          MaxAhead,   \* how far the clock of a node may run ahead of the server's
          MaxSent,    \* bound on the number of different packets
          Horizon     \* bound on time

ASSUME ServerConstants ==
    /\ SentNode \subseteq Nat
    /\ Value \subseteq Int
    /\ MaxNode \in Nat \ {0} /\ MaxProp \in Nat \ {0}
    /\ SelTimeout \in Nat \ {0} /\ RefreshGap \in Nat \ {0}
    /\ BeginFade \in Nat /\ FadeTime \in Nat /\ MaxAhead \in Nat
    /\ MaxSent \in Nat /\ Horizon \in Nat

VARIABLES now,     \* the server's clock
          net,     \* every packet sent so far
          up,      \* "up", "down", or "corrupt" once it wrote past its table
          selAt,   \* when the current select began to wait
          names,   \* names of the slots in use, in order of creation
          bound,   \* bound[i]: least and greatest value of slot i
          status,  \* status[i][n]: the last accepted status of node n in slot i
          lastup,  \* lastup[i]: when slot i was last painted
          disp,    \* disp[a]: the image file of attribute a, a cell per node
          heard    \* history: valid packets handled since the server started

table == <<names, bound, status, lastup, disp, heard>>
vars  == <<now, net, up, selAt, table>>

Nodes == 0 .. MaxNode - 1
Slots == 1 .. MaxProp
Used  == 1 .. Len(names)

Packet == [name: Attr, node: SentNode, value: Value, when: Nat]

Blank == [value |-> 0, when |-> 0]

StatusOf(m) == [value |-> m.value, when |-> m.when]

About(a, n) == {m \in heard : m.name = a /\ m.node = n}

----------------------------------------------------------------------------
(* Painting.  A colour is the relative place of a value in its range, a    *)
(* fraction; a cell is absent (no file), untouched (the base image),       *)
(* magenta (no value), or a colour of which a share has faded.             *)

(* t2rgb: a value outside the range is clamped, an empty range is its middle. *)
Tint(lo, v, hi) ==
    IF hi <= lo THEN <<1, 2>>
    ELSE <<IF v < lo THEN 0 ELSE IF v > hi THEN hi - lo ELSE v - lo, hi - lo>>

Absent  == [kind |-> "absent",  tint |-> <<0, 1>>, fade |-> 0]
Base    == [kind |-> "base",    tint |-> <<0, 1>>, fade |-> 0]
Magenta == [kind |-> "magenta", tint |-> <<0, 1>>, fade |-> 0]

\* Mutant: the age is not clamped below.
FadeUnclamped(age) == age - BeginFade

Fade(age) == IF age <= BeginFade THEN 0
             ELSE IF age >= BeginFade + FadeTime THEN FadeTime
             ELSE age - BeginFade

Painted(b, s) ==
    IF s.when = 0 THEN Magenta
    ELSE [kind |-> "tint", tint |-> Tint(b.min, s.value, b.max), fade |-> Fade(now - s.when)]

\* Mutant: the gap must be exceeded, not just reached.
UptintLate(p, b, row) ==
    IF now <= p.lastup + RefreshGap THEN p
    ELSE [lastup |-> now, cells |-> [n \in Nodes |-> Painted(b, row[n])]]

(* uptint: the picture p and the time of its last repaint become those of  *)
(* the table, unless the last repaint is too recent.                       *)
Uptint(p, b, row) ==
    IF now < p.lastup + RefreshGap THEN p
    ELSE [lastup |-> now, cells |-> [n \in Nodes |-> Painted(b, row[n])]]

\* Mutant: the search stops one slot early.
UnknownButLast(a) == \A i \in 1 .. Len(names) - 1 : names[i] # a

(* The linear search for a name finds no slot. *)
Unknown(a) == \A i \in Used : names[i] # a

Picture(i) == [lastup |-> lastup[i], cells |-> disp[names[i]]]

----------------------------------------------------------------------------
Cleared ==  \* the static table of a process that starts
    /\ names  = <<>>
    /\ bound  = [i \in 1 .. MaxProp + 1 |-> [min |-> 0, max |-> 0]]
    /\ status = [i \in Slots |-> [n \in Nodes |-> Blank]]
    /\ lastup = [i \in Slots |-> 0]
    /\ heard  = {}

Init == /\ now = RefreshGap
        /\ net = {}
        /\ up = "up"
        /\ selAt = now
        /\ Cleared
        /\ disp = [a \in Attr |-> [n \in Nodes |-> Absent]]

Tick == /\ now < Horizon
        /\ now' = now + 1
        /\ UNCHANGED <<net, up, selAt, table>>

(* A sensor samples a value, stamps it with the clock of its node and      *)
(* sends it; nothing is ever answered.                                     *)
Send(m) == /\ Cardinality(net) < MaxSent
           /\ m.when \in now .. now + MaxAhead
           /\ net' = net \cup {m}
           /\ UNCHANGED <<now, up, selAt, table>>

(* select() waited SELTIMEOUT and saw no packet: every slot gets a repaint. *)
SelectTimeout ==
    /\ up = "up" /\ now >= selAt + SelTimeout
    /\ selAt' = now
    /\ LET pic == [i \in Used |-> Uptint(Picture(i), bound[i], status[i])]
       IN  /\ lastup' = [i \in Slots |-> IF i \in Used THEN pic[i].lastup ELSE lastup[i]]
           /\ disp' = [a \in Attr |->
                         IF \E i \in Used : names[i] = a
                         THEN pic[CHOOSE i \in Used : names[i] = a].cells
                         ELSE disp[a]]
    /\ UNCHANGED <<now, net, up, names, bound, status, heard>>

(* A packet whose node number is above MAXNODE is dropped. *)
DropNode(m) == /\ up = "up" /\ m.node > MaxNode
               /\ selAt' = now
               /\ UNCHANGED <<now, net, up, table>>

\* Mutant: only the minimum is kept up.
WidenMin(b, v) == IF b.min > v THEN [b EXCEPT !.min = v] ELSE b

Widen(b, v) == IF b.min > v THEN [b EXCEPT !.min = v]
               ELSE IF b.max < v THEN [b EXCEPT !.max = v]
               ELSE b

(* status[MAXNODE] of a slot is the memory of the bounds of the next slot:  *)
(* its value and time are where the next min and max are.                  *)
StatusAt(b, i, n) == IF n < MaxNode THEN status[i][n]
                     ELSE [value |-> b[i + 1].min, when |-> b[i + 1].max]

\* Mutants: the time is not compared, or compared the wrong way.
IsFreshAlways(b, i, m) == TRUE
IsFreshReversed(b, i, m) == StatusAt(b, i, m.node).when >= m.when

IsFresh(b, i, m) == StatusAt(b, i, m.node).when <= m.when

(* A packet about an attribute that has a slot.  The bounds are widened    *)
(* whether the packet is old or not, and the repaint that this calls for   *)
(* comes before the status is stored; the repaint after it is the second.  *)
Update(m, i) ==
    /\ up = "up" /\ m.node <= MaxNode /\ names[i] = m.name
    /\ selAt' = now
    /\ LET s     == StatusOf(m)
           wide  == [bound EXCEPT ![i] = Widen(@, m.value)]
           pic1  == IF wide = bound THEN Picture(i) ELSE Uptint(Picture(i), wide[i], status[i])
           fresh == IsFresh(wide, i, m)
       IN  /\ bound' = IF fresh /\ m.node = MaxNode
                       THEN [wide EXCEPT ![i + 1] = [min |-> s.value, max |-> s.when]]
                       ELSE wide
           /\ status' = IF fresh /\ m.node < MaxNode
                        THEN [status EXCEPT ![i][m.node] = s] ELSE status
           /\ LET pic2 == IF fresh THEN Uptint(pic1, wide[i], status'[i]) ELSE pic1
              IN  /\ lastup' = [lastup EXCEPT ![i] = pic2.lastup]
                  /\ disp' = [disp EXCEPT ![m.name] = pic2.cells]
    /\ heard' = heard \cup {m}
    /\ UNCHANGED <<now, net, up, names>>

(* The first packet of an attribute takes the next slot, clears it, writes *)
(* a copy of the base image and colours the pixels of that one node.       *)
NewSlot(m) ==
    /\ up = "up" /\ m.node <= MaxNode
    /\ Unknown(m.name)
    /\ Len(names) < MaxProp
    /\ selAt' = now
    /\ LET i == Len(names) + 1
       IN  /\ names' = Append(names, m.name)
           /\ status' = [status EXCEPT ![i] =
                 [n \in Nodes |-> IF n = m.node THEN StatusOf(m) ELSE [@[n] EXCEPT !.when = 0]]]
           /\ bound' = [j \in DOMAIN bound |->
                 IF j = i THEN [min |-> m.value, max |-> m.value]
                 ELSE IF j = i + 1 /\ m.node = MaxNode THEN [min |-> m.value, max |-> m.when]
                 ELSE bound[j]]
           /\ lastup' = [lastup EXCEPT ![i] = 0]
    /\ disp' = [disp EXCEPT ![m.name] =
          [n \in Nodes |-> IF n = m.node
                           THEN [kind |-> "tint", tint |-> Tint(m.value, m.value, m.value), fade |-> 0]
                           ELSE Base]]
    /\ heard' = heard \cup {m}
    /\ UNCHANGED <<now, net, up>>

(* The image file cannot be written or mapped: some of it may be the base  *)
(* image already, and the server exits.                                    *)
NoFile(m) ==
    /\ up = "up" /\ m.node <= MaxNode
    /\ Unknown(m.name)
    /\ up' = "down"
    /\ \E S \in SUBSET Nodes :
          disp' = [disp EXCEPT ![m.name] = [n \in Nodes |-> IF n \in S THEN Base ELSE @[n]]]
    /\ UNCHANGED <<now, net, selAt, names, bound, status, lastup, heard>>

(* No slot is left: the new one is laid over the memory after the table.   *)
Overrun(m) ==
    /\ up = "up" /\ m.node <= MaxNode
    /\ Unknown(m.name)
    /\ Len(names) = MaxProp
    /\ up' = "corrupt"
    /\ UNCHANGED <<now, net, selAt, table>>

(* recvfrom returns nothing: the server exits. *)
RecvFails == /\ up = "up"
             /\ up' = "down"
             /\ UNCHANGED <<now, net, selAt, table>>

(* Someone starts the server again; the image files are still there. *)
Restart == /\ up = "down"
           /\ up' = "up"
           /\ selAt' = now
           /\ names' = <<>>
           /\ bound' = [i \in 1 .. MaxProp + 1 |-> [min |-> 0, max |-> 0]]
           /\ status' = [i \in Slots |-> [n \in Nodes |-> Blank]]
           /\ lastup' = [i \in Slots |-> 0]
           /\ heard' = {}
           /\ UNCHANGED <<now, net, disp>>

Handle(m) == \/ DropNode(m)
             \/ \E i \in Used : Update(m, i)
             \/ NewSlot(m)
             \/ NoFile(m)
             \/ Overrun(m)

Next == \/ Tick
        \/ \E a \in Attr, n \in SentNode, v \in Value, d \in 0 .. MaxAhead :
              Send([name |-> a, node |-> n, value |-> v, when |-> now + d])
        \/ SelectTimeout
        \/ \E m \in net : Handle(m)
        \/ RecvFails
        \/ Restart

Spec == Init /\ [][Next]_vars

----------------------------------------------------------------------------
(* The types of the state. *)
TypeOK ==
    /\ now \in Nat /\ selAt \in Nat
    /\ net \subseteq Packet /\ heard \subseteq net
    /\ up \in {"up", "down", "corrupt"}
    /\ names \in Seq(Attr) /\ Len(names) <= MaxProp
    /\ bound \in [1 .. MaxProp + 1 -> [min: Int, max: Int]]
    /\ status \in [Slots -> [Nodes -> [value: Int, when: Nat]]]
    /\ lastup \in [Slots -> Nat]
    /\ disp \in [Attr -> [Nodes -> [kind: {"absent", "base", "magenta", "tint"},
                                    tint: Int \X Int, fade: Nat]]]

(* An attribute has one slot, and exactly the attributes of which a packet *)
(* was handled have one: the linear search and the insertion agree.        *)
SlotPerAttribute ==
    /\ \A i, j \in Used : names[i] = names[j] => i = j
    /\ {names[i] : i \in Used} = {m.name : m \in heard}

(* Loss, duplication and reordering do not show in the table: the status   *)
(* of a node is one of the newest packets handled for that attribute and   *)
(* node, and has no time when there was none.                              *)
NewestWins ==
    \A i \in Used, n \in Nodes :
        LET S == About(names[i], n)
        IN  IF S = {} THEN status[i][n].when = 0
            ELSE \E m \in S : /\ status[i][n] = StatusOf(m)
                              /\ \A k \in S : k.when <= m.when

(* A packet with the node number MAXNODE was handled for the slot before:  *)
(* nothing is promised of the bounds of slot i.                            *)
Spoilt(i) == i > 1 /\ About(names[i - 1], MaxNode) # {}

(* The bounds the colours are relative to are the least and the greatest   *)
(* of all values handled for the attribute, the values of old packets too; *)
(* node number MAXNODE harms no bounds but those of the slot behind its    *)
(* own (nodescape.c:524), and no status (NewestWins).                      *)
BoundsAreHull ==
    \A i \in {j \in Used : ~Spoilt(j)} :
        LET V == {m.value : m \in {k \in heard : k.name = names[i]}}
        IN  /\ bound[i].min \in V /\ bound[i].max \in V
            /\ \A v \in V : bound[i].min <= v /\ v <= bound[i].max

(* A slot whose picture does not show the tint of a status it holds. *)
Lagging(i) ==
    \E n \in Nodes : /\ status[i][n].when # 0
                     /\ disp[names[i]][n].tint # Tint(bound[i].min, status[i][n].value, bound[i].max)

(* A picture falls behind its table only within RefreshGap of a repaint:   *)
(* a packet that comes later than that leaves the picture up to date.      *)
LagOnlyInsideGap ==
    [][up = "up" => \A i \in Used :
          ~Lagging(i) /\ Lagging(i)' /\ ~Spoilt(i)' => now < lastup'[i] + RefreshGap]_vars

(* While the server runs, the status time of a node never moves back. *)
NoStatusGoesBack ==
    [][up = "up" => \A i \in Used, n \in Nodes : status[i][n].when <= status'[i][n].when]_vars

----------------------------------------------------------------------------
(* The table implements the promise of the header for the nodes that have  *)
(* an entry.                                                               *)
Entry == [a \in Attr |->
            [n \in Nodes |->
               IF Unknown(a) THEN Blank
               ELSE LET i == CHOOSE j \in Used : names[j] = a
                    IN  IF status[i][n].when = 0 THEN Blank ELSE status[i][n]]]

Reported == {m \in heard : m.node \in Nodes}

Latest == INSTANCE LatestStatus WITH Node <- Nodes, heard <- Reported, entry <- Entry

(* Every behaviour of the server, its losses, repetitions, reorderings,    *)
(* restarts and packets of no node included, is one the declarative table  *)
(* allows.                                                                 *)
KeepsLatestStatus == Latest!Spec
============================================================================
