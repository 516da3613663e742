------------------------------ MODULE RowStore ------------------------------
(***************************************************************************)
(* nodescape2: an agent (epacsedon.c) runs the commands of its file, one   *)
(* after the other, and sends what each says as a datagram; the server     *)
(* (nodescape.c) makes a row of every datagram; agedb.c deletes old rows.  *)
(* An agent is started again and again and may be killed.  The network     *)
(* loses, repeats and reorders datagrams, and the connection to the        *)
(* database is never made again once it is lost.  Every host has a clock   *)
(* of its own, which nothing keeps in step with that of the database.      *)
(***************************************************************************)
EXTENDS Integers, Sequences, FiniteSets, SequencesExt

CONSTANTS Host,     \* hosts that run an agent
          Labels,   \* the labels of its commands, in the order of the file
          Output,   \* Output[l]: what the command of label l may say, after the leading space
          Table,    \* the table that is configured
          AgeInt,   \* ageint, in units of the clock
          MaxRows,  \* bound on rows
          MaxNet,   \* bound on datagrams under way
          Readings, \* what the clock of a host may show
          Horizon   \* bound on the clock of the database

ASSUME StoreConstants == Labels \in Seq(STRING) /\ AgeInt \in Nat /\ Horizon \in Nat

VARIABLES now,      \* the clock of the database, which is not set back
          clock,    \* clock[h]: that of a host
          agent,    \* agent[h]: where it is in its commands, and its one stat
          taken,    \* history: what was sampled, and when the command was begun
          net,      \* datagrams under way
          conn,     \* the server's connection to the database
          rows,     \* the configured table, with when a row was inserted (ctime)
          others,   \* whether ukanstats is another table
          aged      \* when agedb last ran without an error

vars == <<now, clock, agent, taken, net, conn, rows, others, aged>>

Outputs == UNION {Output[l] : l \in ToSet(Labels)}

Nothing == "eof"  \* what is stored of a command that says nothing

NoStat == [label |-> "", when |-> 0, data |-> Nothing]

Off == [pc |-> "off", i |-> 1, stat |-> NoStat, began |-> 0]

Init == /\ now = 0
        /\ clock \in [Host -> Readings]
        /\ agent = [h \in Host |-> Off]
        /\ taken = {} /\ net = <<>>
        /\ conn = "up" /\ rows = {}
        /\ others = (Table # "ukanstats")
        /\ aged = -1

Tick == /\ now < Horizon /\ now' = now + 1
        /\ UNCHANGED <<clock, agent, taken, net, conn, rows, others, aged>>

(* The clock of a host runs on, or is set, forward or back. *)
TickHost(h) == /\ \E t \in Readings : clock' = [clock EXCEPT ![h] = t]
               /\ UNCHANGED <<now, agent, taken, net, conn, rows, others, aged>>

Run(h) == /\ agent[h].pc = "off"
          /\ agent' = [agent EXCEPT ![h].pc = "next", ![h].i = 1]
          /\ UNCHANGED <<now, clock, taken, net, conn, rows, others, aged>>

(* The time is that of the host, before its command is begun. *)
Stamp(h) == clock[h]

Begin(h) ==
    /\ agent[h].pc = "next" /\ agent[h].i <= Len(Labels)
    /\ agent' = [agent EXCEPT ![h].pc = "reading", ![h].began = clock[h],
                    ![h].stat = [@ EXCEPT !.label = Labels[agent[h].i], !.when = Stamp(h)]]
    /\ UNCHANGED <<now, clock, taken, net, conn, rows, others, aged>>

(* What is kept of the output: without an output the end of the file is a  *)
(* character of its own.                                                   *)
Kept(out) == IF out = "" THEN Nothing ELSE out

\* Mutant: a command that says nothing leaves the data as they are.
FillIfAny(st, out) == IF out = "" THEN st ELSE [st EXCEPT !.data = out]

(* The data of the last command are overwritten from the first character. *)
Fill(st, out) == [st EXCEPT !.data = Kept(out)]

Message(h, st) == [host |-> h, label |-> st.label, data |-> st.data, when |-> st.when]

(* The command has ended: its output is sent, or that fails; either way    *)
(* the next command is run.                                                *)
Send(h, out) ==
    /\ agent[h].pc = "reading" /\ out \in Output[Labels[agent[h].i]]
    /\ taken' = taken \cup {[host |-> h, label |-> Labels[agent[h].i], data |-> Kept(out),
                             when |-> agent[h].began]}
    /\ \/ /\ Len(net) < MaxNet
          /\ net' = Append(net, Message(h, Fill(agent[h].stat, out)))
       \/ UNCHANGED net
    /\ agent' = [agent EXCEPT ![h].pc = "next", ![h].i = @ + 1, ![h].stat = Fill(@, out)]
    /\ UNCHANGED <<now, clock, conn, rows, others, aged>>

(* The agent has run its last command, or is killed. *)
Stop(h) == /\ agent[h].pc # "off"
           /\ agent' = [agent EXCEPT ![h] = Off]
           /\ UNCHANGED <<now, clock, taken, net, conn, rows, others, aged>>

Lose(i) == /\ net' = RemoveAt(net, i)
           /\ UNCHANGED <<now, clock, agent, taken, conn, rows, others, aged>>

(* The row the server inserts: mtime is m.when, and ctime the database's. *)
RowOf(m) == [msg |-> m, ctime |-> now]

(* The next datagram; the network may keep a copy to deliver again.  Where *)
(* the insert fails the row is lost, and the server goes on.               *)
Receive(i) ==
    /\ IF conn = "up"
       THEN /\ Cardinality(rows) < MaxRows
            /\ rows' = rows \cup {RowOf(net[i])}
       ELSE UNCHANGED rows
    /\ net' \in {RemoveAt(net, i), net}
    /\ UNCHANGED <<now, clock, agent, taken, conn, others, aged>>

(* The database goes away; no attempt is made to reach it again. *)
LoseConn == /\ conn = "up" /\ conn' = "lost"
            /\ UNCHANGED <<now, clock, agent, taken, net, rows, others, aged>>

(* The server is started again. *)
Restart == /\ conn = "lost" /\ conn' = "up"
           /\ UNCHANGED <<now, clock, agent, taken, net, rows, others, aged>>

\* Mutant: one unit too late.
TooOldLate(r)  == r.ctime < now - AgeInt - 1

(* The condition of the delete statement. *)
TooOld(r) == r.ctime < now - AgeInt

(* agedb has the name of its table in the statement.  Where that fails it  *)
(* says so and ends as if it had not: nothing is deleted.                  *)
AgeDb == \/ /\ rows' = IF others THEN rows ELSE {r \in rows : ~TooOld(r)}
            /\ aged' = now
            /\ UNCHANGED <<now, clock, agent, taken, net, conn, others>>
         \/ UNCHANGED vars

Next == \/ Tick \/ LoseConn \/ Restart \/ AgeDb
        \/ \E h \in Host : \/ TickHost(h) \/ Run(h) \/ Begin(h) \/ Stop(h)
                           \/ \E out \in Outputs : Send(h, out)
        \/ \E i \in DOMAIN net : Lose(i) \/ Receive(i)

Spec == Init /\ [][Next]_vars

----------------------------------------------------------------------------
Sample == [host : Host, label : ToSet(Labels), data : (Outputs \ {""}) \cup {Nothing}, when : Readings]

(* The types of the state, and an agent that has a stat for its command.   *)
TypeOK ==
    /\ now \in 0 .. Horizon /\ aged \in -1 .. now /\ clock \in [Host -> Readings]
    /\ taken \subseteq Sample /\ net \in Seq(Sample) /\ conn \in {"up", "lost"}
    /\ \A r \in rows : r.msg \in Sample /\ r.ctime \in 0 .. now
    /\ \A h \in Host : agent[h].pc = "reading" => agent[h].stat.label = Labels[agent[h].i]

(* Every row is what a command of its host said, with that command's label *)
(* and the time its host had when that very command was begun              *)
(* (epacsedon.c:59-74), whatever the one stat held of the command before,  *)
(* however clocks are set and however often a datagram is repeated.        *)
RowsAreSamples == \A r \in rows : r.msg \in taken

(* Once agedb has run without an error, the table that is configured       *)
(* ("table cikstats", nodescape.conf:5) has no row that was older than     *)
(* ageint.                                                                 *)
OldRowsAreGone == \A r \in rows : r.ctime >= aged - AgeInt
=============================================================================
