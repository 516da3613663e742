---------------------------- MODULE LatestStatus ----------------------------
(***************************************************************************)
(* What nodescape.h promises of a table that is fed by fire-and-forget     *)
(* packets: whatever is lost, repeated or reordered on the way, the entry  *)
(* of an attribute and a node is the newest report processed for them, and *)
(* it only ever moves forward.  The module is declarative: it constrains   *)
(* the entry by the set of the reports processed so far and says nothing   *)
(* of how a server finds out which of them is the newest.                  *)
(***************************************************************************)
EXTENDS Integers

CONSTANTS Attr,   \* attribute names
          Node,   \* nodes that own an entry in the table
          Value   \* the values a sensor reports

VARIABLES heard,  \* reports processed since the server started
          entry   \* entry[a][n]: the report on display for attribute a, node n

vars == <<heard, entry>>

(* A report, its time in the clock of the node that sent it. *)
Report == [name: Attr, node: Node, value: Value, when: Int]

Blank == [value |-> 0, when |-> 0]

About(S, a, n) == {m \in S : m.name = a /\ m.node = n}

(* The reports of S none of the others is younger than. *)
Newest(S) == {m \in S : \A k \in S : k.when <= m.when}

StatusOf(m) == [value |-> m.value, when |-> m.when]

Init == /\ heard = {}
        /\ entry = [a \in Attr |-> [n \in Node |-> Blank]]

(* Process one report: the entry it is about holds one of the newest       *)
(* reports afterwards, every other entry stays.                            *)
Process(m) ==
    /\ heard' = heard \cup {m}
    /\ \E k \in Newest(About(heard', m.name, m.node)) :
          entry' = [entry EXCEPT ![m.name][m.node] = StatusOf(k)]

(* The server starts again, with an empty table. *)
Forget == /\ heard' = {}
          /\ entry' = [a \in Attr |-> [n \in Node |-> Blank]]

Next == Forget \/ \E m \in heard' : m \in Report /\ Process(m)

Spec == Init /\ [][Next]_vars
=============================================================================
