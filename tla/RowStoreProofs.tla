--------------------------- MODULE RowStoreProofs ---------------------------
(***************************************************************************)
(* Proofs about RowStore for any hosts, commands, outputs and times: what  *)
(* the table holds was sampled, and what agedb leaves is young.            *)
(***************************************************************************)
EXTENDS RowStore, SequenceTheorems, TLAPS

Data  == (Outputs \ {""}) \cup {Nothing}
Time  == Readings \cup {0}
Stat  == [label: ToSet(Labels) \cup {""}, when: Time, data: Data]
Agent == [pc: {"off", "next", "reading"}, i: Nat \ {0}, stat: Stat, began: Time]

(* A stat that is read for has the label and the time of its own command.  *)
StatOwn(a) ==
    a.pc = "reading" => /\ a.i \in DOMAIN Labels /\ a.stat.label = Labels[a.i]
                        /\ a.stat.when = a.began /\ a.began \in Readings

(* What is under way was sampled. *)
NetSampled == \A k \in DOMAIN net : net[k] \in taken

(* A row can only be a sample if what it comes from is one, and an agent   *)
(* only sends what it samples if nothing of the last command is left.      *)
StoreInv ==
    /\ TypeOK
    /\ agent \in [Host -> Agent]
    /\ \A h \in Host : StatOwn(agent[h])
    /\ NetSampled /\ RowsAreSamples

----------------------------------------------------------------------------
(* A sequence without one of its elements. *)
LEMMA Removed ==
    ASSUME NEW S, NEW s \in Seq(S), NEW i \in DOMAIN s
    PROVE  /\ RemoveAt(s, i) \in Seq(S)
           /\ \A k \in DOMAIN RemoveAt(s, i) : \E j \in DOMAIN s : RemoveAt(s, i)[k] = s[j]
<1> DEFINE T == {s[j] : j \in DOMAIN s}
           a == SubSeq(s, 1, i - 1)
           b == SubSeq(s, i + 1, Len(s))
<1>1. i \in 1 .. Len(s) /\ Len(s) \in Nat /\ DOMAIN s = 1 .. Len(s) /\ T \subseteq S
  OBVIOUS
<1>2. a \in Seq(T)
  <2>1. \A j \in 1 .. i - 1 : s[j] \in T
    BY <1>1
  <2>. QED  BY <1>1, <2>1, SubSeqProperties
<1>3. b \in Seq(T)
  <2>1. \A j \in i + 1 .. Len(s) : s[j] \in T
    BY <1>1
  <2>. QED  BY <1>1, <2>1, SubSeqProperties
<1>4. RemoveAt(s, i) \in Seq(T)
  BY <1>2, <1>3, ConcatProperties DEF RemoveAt
<1> HIDE DEF a, b
<1>5. \A k \in DOMAIN RemoveAt(s, i) : RemoveAt(s, i)[k] \in T
  BY <1>4
<1>6. RemoveAt(s, i) \in Seq(S)
  <2> HIDE DEF T
  <2>. QED  BY <1>1, <1>4
<1>. QED  BY <1>5, <1>6

(* What is assumed of the constants. *)
LEMMA Numbers == Horizon \in Nat /\ AgeInt \in Nat
  BY StoreConstants, Zenon

LEMMA LabelPlaces == Len(Labels) \in Nat /\ DOMAIN Labels = 1 .. Len(Labels)
<1>1. Labels \in Seq(STRING)
  BY StoreConstants, Zenon
<1>. QED  BY <1>1, LenProperties, Zenon

(* The times of the state. *)
LEMMA Times ==
    ASSUME TypeOK
    PROVE  /\ now \in Nat /\ Horizon \in Nat /\ now <= Horizon
           /\ aged \in Int /\ -1 <= aged /\ aged <= now
           /\ \A r \in rows : r.msg \in Sample /\ r.ctime \in Nat /\ r.ctime <= now
<1>1. Horizon \in Nat
  BY Numbers
<1>2. now \in Nat /\ now <= Horizon
  BY <1>1 DEF TypeOK
<1>3. aged \in Int /\ -1 <= aged /\ aged <= now
  BY <1>2 DEF TypeOK
<1>5. \A r \in rows : r.msg \in Sample /\ r.ctime \in Nat /\ r.ctime <= now
  BY <1>2 DEF TypeOK
<1>. QED  BY <1>1, <1>2, <1>3, <1>5

(* A stat whose data are filled keeps its label and its time. *)
LEMMA Filled ==
    ASSUME NEW st \in Stat, NEW out \in Outputs
    PROVE  /\ Fill(st, out) \in Stat /\ Fill(st, out).data = Kept(out) /\ Kept(out) \in Data
           /\ Fill(st, out).label = st.label /\ Fill(st, out).when = st.when
<1>1. Kept(out) \in Data
  BY DEF Kept, Data
<1>. QED  BY <1>1 DEF Fill, Stat

(* What is sent is what the command said whose label and time it has. *)
LEMMA MessageSampled ==
    ASSUME StoreInv, NEW h \in Host, NEW out \in Outputs, Send(h, out)
    PROVE  /\ Message(h, Fill(agent[h].stat, out)) \in Sample
           /\ taken' = taken \cup {Message(h, Fill(agent[h].stat, out))}
<1> DEFINE a == agent[h]
           st == Fill(a.stat, out)
           m == [host |-> h, label |-> Labels[a.i], data |-> Kept(out), when |-> a.began]
<1>1. a \in Agent /\ StatOwn(a) /\ a.pc = "reading" /\ a.stat \in Stat
  BY DEF StoreInv, Send, Agent
<1>2. /\ Labels[a.i] \in ToSet(Labels) /\ a.stat.label = Labels[a.i]
      /\ a.stat.when = a.began /\ a.began \in Readings
  BY <1>1 DEF StatOwn, ToSet
<1>3. st.label = Labels[a.i] /\ st.when = a.began /\ st.data = Kept(out) /\ Kept(out) \in Data
  BY <1>1, <1>2, Filled
<1>4. Message(h, st) = m
  <2> HIDE DEF st
  <2>. QED  BY <1>3 DEF Message
<1>5. m \in Sample
  BY <1>2, <1>3 DEF Sample, Data
<1>6. taken' = taken \cup {m}
  BY DEF Send
<1>. QED  BY <1>4, <1>5, <1>6

(* An agent that goes to its first or its next command. *)
LEMMA AgentUpdated ==
    ASSUME NEW a \in Agent
    PROVE  /\ [a EXCEPT !.pc = "next", !.i = 1] \in Agent
           /\ [a EXCEPT !.pc = "next", !.i = 1].pc = "next"
           /\ \A st \in Stat :
                 /\ [a EXCEPT !.pc = "next", !.i = a.i + 1, !.stat = st] \in Agent
                 /\ [a EXCEPT !.pc = "next", !.i = a.i + 1, !.stat = st].pc = "next"
<1> DEFINE I == Nat \ {0}
           A == [pc: {"off", "next", "reading"}, i: I, stat: Stat, began: Time]
<1>1. a \in A /\ a.i \in I
  BY DEF Agent
<1>2. 1 \in I /\ a.i + 1 \in I
  BY <1>1
<1> HIDE DEF I
<1>3. \A j \in I : /\ [a EXCEPT !.pc = "next", !.i = j] \in A
                    /\ [a EXCEPT !.pc = "next", !.i = j].pc = "next"
  BY <1>1
<1>4. \A j \in I, st \in Stat : /\ [a EXCEPT !.pc = "next", !.i = j, !.stat = st] \in A
                                 /\ [a EXCEPT !.pc = "next", !.i = j, !.stat = st].pc = "next"
  BY <1>1
<1>. QED  BY <1>2, <1>3, <1>4 DEF Agent, I

(* An agent that does not run. *)
LEMMA OffIsAgent == Off \in Agent /\ Off.pc = "off"
<1>1. NoStat \in Stat
  BY DEF NoStat, Stat, Data, Time
<1>. QED  BY <1>1 DEF Off, Agent, Time

----------------------------------------------------------------------------
(* One lemma per actor. *)

(* Time passes for the database, and for a host in its own way. *)
LEMMA TimeKeeps == ASSUME StoreInv, Tick \/ \E h \in Host : TickHost(h) PROVE StoreInv'
<1>1. UNCHANGED <<agent, taken, net, conn, rows, others, aged>>
  BY DEF Tick, TickHost
<1>2. now \in Nat /\ now' \in 0 .. Horizon /\ now' >= now
  BY Times, Numbers DEF Tick, TickHost, StoreInv
<1>3. clock' \in [Host -> Readings]
  BY DEF Tick, TickHost, StoreInv, TypeOK
<1>4. TypeOK'
  <2>1. aged' \in -1 .. now'
    BY <1>1, <1>2, Times DEF StoreInv
  <2>2. \A r \in rows' : r.msg \in Sample /\ r.ctime \in 0 .. now'
    BY <1>1, <1>2, Times DEF StoreInv
  <2>. QED  BY <1>1, <1>2, <1>3, <2>1, <2>2 DEF TypeOK, StoreInv, Sample
<1>. QED  BY <1>1, <1>4 DEF StoreInv, Agent, Stat, StatOwn, NetSampled, RowsAreSamples

(* An agent starts, begins a command, or stops. *)
LEMMA AgentKeeps == ASSUME StoreInv, NEW h \in Host, Run(h) \/ Begin(h) \/ Stop(h) PROVE StoreInv'
<1>1. UNCHANGED <<now, clock, taken, net, conn, rows, others, aged>>
  BY DEF Run, Begin, Stop
<1>2. agent \in [Host -> Agent] /\ clock \in [Host -> Readings]
  BY DEF StoreInv, TypeOK
<1>3. \E a \in Agent : agent' = [agent EXCEPT ![h] = a] /\ StatOwn(a)
  <2>1. CASE Run(h)
    <3> DEFINE a == [agent[h] EXCEPT !.pc = "next", !.i = 1]
    <3>1. a \in Agent /\ a.pc = "next"
      BY <1>2, AgentUpdated
    <3>2. agent' = [agent EXCEPT ![h] = a]
      BY <2>1, <1>2 DEF Run, Agent
    <3>. QED  BY <3>1, <3>2 DEF StatOwn
  <2>2. CASE Begin(h)
    <3> DEFINE st == [agent[h].stat EXCEPT !.label = Labels[agent[h].i], !.when = clock[h]]
               a  == [agent[h] EXCEPT !.pc = "reading", !.began = clock[h], !.stat = st]
    <3>1. agent[h] \in Agent /\ agent[h].i \in DOMAIN Labels
      <4>1. agent[h] \in Agent /\ agent[h].i \in Nat \ {0} /\ agent[h].i <= Len(Labels)
        BY <2>2, <1>2 DEF Begin, Agent
      <4>2. DOMAIN Labels = 1 .. Len(Labels) /\ Len(Labels) \in Nat
        BY LabelPlaces
      <4>. QED  BY <4>1, <4>2
    <3>2. st \in Stat /\ st.label = Labels[agent[h].i] /\ st.when = clock[h] /\ clock[h] \in Readings
      <4>1. agent[h].stat \in Stat /\ clock[h] \in Readings /\ Labels[agent[h].i] \in ToSet(Labels)
        BY <3>1, <1>2 DEF Agent, ToSet
      <4>. QED  BY <4>1 DEF Stat, Time
    <3> HIDE DEF st
    <3>3. a \in Agent /\ a.i = agent[h].i /\ a.stat = st /\ a.began = clock[h]
      BY <3>1, <3>2 DEF Agent, Time
    <3>4. agent' = [agent EXCEPT ![h] = a]
      BY <2>2, <1>2 DEF Begin, Agent, Stamp, st
    <3>5. StatOwn(a)
      BY <3>1, <3>2, <3>3 DEF StatOwn
    <3>. QED  BY <3>3, <3>4, <3>5
  <2>3. CASE Stop(h)
    <3>1. Off \in Agent /\ Off.pc = "off"
      BY OffIsAgent
    <3>. QED  BY <2>3, <3>1 DEF Stop, StatOwn
  <2>. QED  BY <2>1, <2>2, <2>3
<1>4. agent' \in [Host -> Agent] /\ \A g \in Host : StatOwn(agent[g])'
  BY <1>1, <1>2, <1>3 DEF StatOwn, StoreInv
<1>5. TypeOK'
  BY <1>1, <1>4 DEF StoreInv, TypeOK, StatOwn, Sample
<1>. QED  BY <1>1, <1>4, <1>5 DEF StoreInv, NetSampled, RowsAreSamples, Agent, Stat

(* A command has ended. *)
LEMMA SendKeeps == ASSUME StoreInv, NEW h \in Host, NEW out \in Outputs, Send(h, out) PROVE StoreInv'
<1> DEFINE st == Fill(agent[h].stat, out)
           m == Message(h, st)
<1>1. m \in taken' /\ taken \subseteq taken' /\ taken' = taken \cup {m} /\ m \in Sample
  BY MessageSampled
<1>2. UNCHANGED <<now, clock, conn, rows, others, aged>>
  BY DEF Send
<1>3. agent \in [Host -> Agent] /\ net \in Seq(Sample)
  BY DEF StoreInv, TypeOK
<1>4. agent' \in [Host -> Agent] /\ \A g \in Host : StatOwn(agent[g])'
  <2> DEFINE a == [agent[h] EXCEPT !.pc = "next", !.i = agent[h].i + 1, !.stat = st]
  <2>1. agent[h] \in Agent /\ st \in Stat
    BY <1>3, Filled DEF Agent
  <2>2. a \in Agent /\ a.pc = "next"
    BY <2>1, AgentUpdated
  <2>3. agent' = [agent EXCEPT ![h] = a]
    BY <1>3 DEF Send, Agent
  <2>. QED  BY <1>2, <1>3, <2>2, <2>3 DEF StatOwn, StoreInv
<1>5. net' \in Seq(Sample) /\ NetSampled'
  <2>1. CASE net' = net
    BY <1>1, <1>3, <2>1 DEF NetSampled, StoreInv
  <2>2. CASE net' = Append(net, m)
    BY <1>1, <1>3, <2>2 DEF NetSampled, StoreInv
  <2>. QED  BY <2>1, <2>2 DEF Send
<1>6. RowsAreSamples'
  BY <1>1, <1>2 DEF RowsAreSamples, StoreInv
<1>7. TypeOK'
  BY <1>1, <1>2, <1>4, <1>5 DEF StoreInv, TypeOK, StatOwn, Sample
<1>. QED  BY <1>4, <1>5, <1>6, <1>7 DEF StoreInv, Agent, Stat

(* A datagram is lost, or becomes a row. *)
LEMMA NetKeeps == ASSUME StoreInv, NEW i \in DOMAIN net, Lose(i) \/ Receive(i) PROVE StoreInv'
<1>1. UNCHANGED <<now, clock, agent, taken, conn, others, aged>>
  BY DEF Lose, Receive
<1>2. net \in Seq(Sample) /\ now \in Nat
  BY DEF StoreInv, TypeOK
<1>3. net' \in Seq(Sample) /\ NetSampled'
  <2>1. net' = net \/ net' = RemoveAt(net, i)
    BY DEF Lose, Receive
  <2>2. /\ RemoveAt(net, i) \in Seq(Sample)
        /\ \A k \in DOMAIN RemoveAt(net, i) : \E j \in DOMAIN net : RemoveAt(net, i)[k] = net[j]
    BY <1>2, Removed
  <2>. QED  BY <1>1, <1>2, <2>1, <2>2 DEF NetSampled, StoreInv
<1>4. rows' \subseteq rows \cup {RowOf(net[i])}
  BY DEF Lose, Receive
<1>5. /\ net[i] \in Sample /\ net[i] \in taken
      /\ RowOf(net[i]).msg = net[i] /\ RowOf(net[i]).ctime = now
  BY <1>2 DEF StoreInv, NetSampled, RowOf
<1>6. \A r \in rows' : r.msg \in Sample /\ r.ctime \in 0 .. now /\ r.msg \in taken
  <2> TAKE r \in rows'
  <2>1. CASE r \in rows
    BY <2>1 DEF StoreInv, TypeOK, RowsAreSamples
  <2>2. CASE r = RowOf(net[i])
    BY <1>2, <1>5, <2>2
  <2>. QED  BY <1>4, <2>1, <2>2
<1>. QED  BY <1>1, <1>3, <1>6 DEF StoreInv, TypeOK, RowsAreSamples, StatOwn, Agent, Stat, Sample

(* The connection, and agedb. *)
LEMMA OthersKeep == StoreInv /\ (LoseConn \/ Restart \/ AgeDb) => StoreInv'
<1> SUFFICES ASSUME StoreInv, LoseConn \/ Restart \/ AgeDb PROVE StoreInv'
  OBVIOUS
<1>1. UNCHANGED <<now, clock, agent, taken, net, others>> /\ rows' \subseteq rows /\ conn' \in {"up", "lost"}
      /\ aged' \in -1 .. now
  BY DEF LoseConn, Restart, AgeDb, vars, StoreInv, TypeOK
<1>. QED  BY <1>1 DEF StoreInv, TypeOK, NetSampled, RowsAreSamples, StatOwn, Agent, Stat, Sample

(* Every step keeps the invariant. *)
LEMMA StoreStep == StoreInv /\ [Next]_vars => StoreInv'
<1> SUFFICES ASSUME StoreInv, [Next]_vars PROVE StoreInv'
  OBVIOUS
<1>1. CASE UNCHANGED vars
  BY <1>1 DEF vars, StoreInv, TypeOK, NetSampled, RowsAreSamples, StatOwn, Agent, Stat, Sample
<1>2. CASE Next
  BY <1>2, TimeKeeps, AgentKeeps, SendKeeps, NetKeeps, OthersKeep DEF Next
<1>. QED  BY <1>1, <1>2

LEMMA StoreStart == Init => StoreInv
<1> SUFFICES ASSUME Init PROVE StoreInv
  OBVIOUS
<1>1. now \in 0 .. Horizon /\ aged \in -1 .. now
  BY Numbers DEF Init
<1>2. net \in Seq(Sample) /\ NetSampled
  BY DEF Init, NetSampled
<1>3. agent \in [Host -> Agent] /\ \A h \in Host : agent[h].pc = "off"
  BY OffIsAgent DEF Init
<1>4. taken = {} /\ rows = {} /\ conn = "up" /\ clock \in [Host -> Readings]
  BY DEF Init
<1>5. TypeOK
  BY <1>1, <1>2, <1>3, <1>4 DEF TypeOK
<1>. QED  BY <1>2, <1>3, <1>4, <1>5 DEF StoreInv, RowsAreSamples, StatOwn

(* The state keeps its types. *)
THEOREM StoreTypes == Spec => []TypeOK
<1>1. StoreInv => TypeOK
  BY DEF StoreInv
<1>. QED  BY <1>1, StoreStart, StoreStep, PTL DEF Spec

(* Agents that are killed, clocks that are set, datagrams that are lost,   *)
(* repeated and reordered, restarts and a lost connection: no row but what *)
(* its own command said, with the time at which that was begun.            *)
THEOREM RowsAlwaysSamples == Spec => []RowsAreSamples
<1>1. StoreInv => RowsAreSamples
  BY DEF StoreInv
<1>. QED  BY <1>1, StoreStart, StoreStep, PTL DEF Spec

----------------------------------------------------------------------------
(* agedb, where the configured table is the one in its statement. *)
YoungInv == ~others /\ OldRowsAreGone

LEMMA YoungStep == TypeOK /\ YoungInv /\ [Next]_vars => YoungInv'
<1> SUFFICES ASSUME TypeOK, YoungInv, [Next]_vars PROVE YoungInv'
  OBVIOUS
<1>1. /\ now \in Int /\ aged \in Int /\ aged <= now /\ AgeInt \in Nat
      /\ \A r \in rows : r.ctime \in Int
  BY Times, Numbers
<1>2. CASE UNCHANGED <<rows, others, aged>>
  BY <1>2 DEF YoungInv, OldRowsAreGone
<1>3. ASSUME NEW i \in DOMAIN net, Receive(i) PROVE YoungInv'
  <2>1. rows' \subseteq rows \cup {RowOf(net[i])} /\ UNCHANGED <<others, aged>>
    BY <1>3 DEF Receive
  <2>2. RowOf(net[i]).ctime = now
    BY DEF RowOf
  <2>. QED  BY <1>1, <2>1, <2>2 DEF YoungInv, OldRowsAreGone
<1>4. CASE AgeDb /\ ~UNCHANGED vars
  <2>1. rows' = {r \in rows : ~TooOld(r)} /\ aged' = now /\ others' = others
    BY <1>4 DEF AgeDb, YoungInv
  <2>. QED  BY <1>1, <2>1 DEF YoungInv, OldRowsAreGone, TooOld
<1>5. CASE Tick \/ LoseConn \/ Restart \/ UNCHANGED vars
  BY <1>2, <1>5 DEF Tick, LoseConn, Restart, vars
<1>6. ASSUME NEW h \in Host, TickHost(h) \/ Run(h) \/ Begin(h) \/ Stop(h) \/ \E out \in Outputs : Send(h, out)
      PROVE  YoungInv'
  BY <1>2, <1>6 DEF TickHost, Run, Begin, Stop, Send
<1>7. ASSUME NEW i \in DOMAIN net, Lose(i) PROVE YoungInv'
  BY <1>2, <1>7 DEF Lose
<1>. QED  BY <1>3, <1>4, <1>5, <1>6, <1>7 DEF Next

(* What agedb (agedb.c:40) leaves behind is no older than ageint, whenever *)
(* rows were inserted, if the configuration names its table.               *)
THEOREM OldRowsAlwaysGone == ASSUME Table = "ukanstats" PROVE Spec => []OldRowsAreGone
<1>1. Init => YoungInv
  BY DEF Init, YoungInv, OldRowsAreGone
<1>2. YoungInv => OldRowsAreGone
  BY DEF YoungInv
<1>. QED  BY <1>1, <1>2, StoreTypes, YoungStep, PTL DEF Spec
=============================================================================
