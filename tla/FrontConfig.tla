---------------------------- MODULE FrontConfig ----------------------------
(***************************************************************************)
(* The configuration of the web front ends (stdev/nsconfig.py): sections   *)
(* of options, groups, hosts and properties, read one by one; then, as     *)
(* plots2.py does it, the list of the hosts of every property is built     *)
(* from them (hosts_per_prop).  The page scripts read the options alone    *)
(* (read_config_simple).                                                   *)
(*                                                                         *)
(* A section is what the separators make of it: its name, the colons it    *)
(* has, and its entries.  An option is its words; an entry of another      *)
(* section is a name and what is listed behind it.                         *)
(***************************************************************************)
EXTENDS Integers, Sequences, SequencesExt, Selections, TLC

CONSTANTS Files,    \* files to read: sequences of sections
          NumberOf, \* the words that are whole numbers, and which
          Fraction, \* the other words that float() takes, as <<numerator, denominator>>
          Groups    \* the names that begin with a dot

IntConfigs   == {"port", "indexhist", "rrd_age"}
FloatConfigs == {"bound"}

Seconds == [second |-> 1, minute |-> 60, hour |-> 3600, day |-> 86400, week |-> 604800,
            month |-> 18144000, year |-> 31449600]

Int1(n)  == [type |-> "int", val |-> n]
Text1(t) == [type |-> "str", val |-> t]

(* set_defaults, of the options that the scripts use as numbers.           *)
Defaults == [graphint |-> Int1(604800), fetchint |-> Int1(900), max_age |-> Int1(300),
             port |-> Int1(13000), rrd_age |-> Int1(3), bound |-> Int1(5),
             table |-> Text1("nsstats")]

VARIABLES file, pc, at, config, groupcfg, hostcfg, propcfg

vars == <<file, pc, at, config, groupcfg, hostcfg, propcfg>>

Init == /\ file \in Files /\ pc = "read" /\ at = 0
        /\ config = Defaults
        /\ groupcfg = <<>> /\ hostcfg = <<>> /\ propcfg = <<>>

Section == file[at + 1]

(* An option: a name and a value, or a whole number and a unit.  It fails  *)
(* where there is no value, no such number or no such unit; an empty line  *)
(* has not even a name.                                                    *)
Fails(words) ==
    \/ Len(words) < 2
    \/ Len(words) = 3 /\ (words[2] \notin DOMAIN NumberOf \/ words[3] \notin DOMAIN Seconds)
    \/ Len(words) # 3 /\ words[1] \in IntConfigs /\ words[2] \notin DOMAIN NumberOf
    \/ Len(words) # 3 /\ words[1] \in FloatConfigs /\ words[2] \notin DOMAIN NumberOf \cup DOMAIN Fraction

ValueOf(words) ==
    IF Len(words) = 3 THEN Int1(NumberOf[words[2]] * Seconds[words[3]])
    ELSE IF words[1] \in IntConfigs THEN Int1(NumberOf[words[2]])
    ELSE IF words[1] \in FloatConfigs
         THEN [type |-> "float",
               val |-> IF words[2] \in DOMAIN NumberOf THEN <<NumberOf[words[2]], 1>> ELSE Fraction[words[2]]]
    ELSE Text1(words[2])

\* Mutant: read_config_simple makes an integer of the options of type float.
ValueOfInt(words) ==
    IF Len(words) = 2 /\ words[1] \in FloatConfigs /\ words[2] \in DOMAIN NumberOf
    THEN Int1(NumberOf[words[2]]) ELSE ValueOf(words)

SimpleValue(words) == ValueOf(words)

Failed == [failed |-> TRUE]

SetOption(cfg, words, val) == IF cfg = Failed \/ Fails(words) THEN Failed ELSE (words[1] :> val) @@ cfg

(* What is listed behind a name goes to the end of its list; a name with   *)
(* nothing behind it leaves no trace.                                      *)
Listing(cfg, entry) ==
    IF entry.list = <<>> THEN cfg
    ELSE (entry.name :> (IF entry.name \in DOMAIN cfg THEN cfg[entry.name] ELSE <<>>) \o entry.list) @@ cfg

AllListed(cfg) == FoldLeft(Listing, cfg, Section.entries)

More == pc = "read" /\ at < Len(file)

(* A section without a colon, or with two, ends the program. *)
Malformed == /\ More /\ Section.colons # 1
             /\ pc' = "failed"
             /\ UNCHANGED <<file, at, config, groupcfg, hostcfg, propcfg>>

Named(name) == More /\ Section.colons = 1 /\ Section.name = name

ReadOptions ==
    /\ Named("config")
    /\ LET cfg == FoldLeft(LAMBDA c, words : SetOption(c, words, ValueOf(words)), config, Section.entries)
       IN  IF cfg = Failed THEN pc' = "failed" /\ UNCHANGED <<at, config>>
           ELSE config' = cfg /\ at' = at + 1 /\ UNCHANGED pc
    /\ UNCHANGED <<file, groupcfg, hostcfg, propcfg>>

ReadGroups == /\ Named("groups")
              /\ groupcfg' = AllListed(groupcfg) /\ at' = at + 1
              /\ UNCHANGED <<file, pc, config, hostcfg, propcfg>>

ReadHosts == /\ Named("hosts")
             /\ hostcfg' = AllListed(hostcfg) /\ at' = at + 1
             /\ UNCHANGED <<file, pc, config, groupcfg, propcfg>>

ReadProperties == /\ Named("properties")
                  /\ propcfg' = AllListed(propcfg) /\ at' = at + 1
                  /\ UNCHANGED <<file, pc, config, groupcfg, hostcfg>>

ReadOther == /\ More /\ Section.colons = 1
             /\ Section.name \notin {"config", "groups", "hosts", "properties"}
             /\ at' = at + 1
             /\ UNCHANGED <<file, pc, config, groupcfg, hostcfg, propcfg>>

ReadEnds == /\ pc = "read" /\ at = Len(file)
            /\ pc' = "groups"
            /\ UNCHANGED <<file, at, config, groupcfg, hostcfg, propcfg>>

(* The entry of a group in a list of hosts says that it is one.            *)
EntryOf(name) == IF name \in Groups THEN "nsgroup " \o name ELSE name

\* Mutant: a host is not listed where the property is listed.
InsertNew(props, prop, host) == IF prop \in DOMAIN props THEN props ELSE (prop :> <<host>>) @@ props

(* One host of one property.  Where the host is listed already, the list   *)
(* begins anew.                                                            *)
Insert(props, prop, host) ==
    (prop :> (IF prop \in DOMAIN props /\ host \notin ToSet(props[prop])
              THEN Append(props[prop], host) ELSE <<host>>)) @@ props

HostsPerProp(perHost, names, props) ==
    FoldLeft(LAMBDA p, name : FoldLeft(LAMBDA q, prop : Insert(q, prop, EntryOf(name)), p, perHost[name]),
             props, names)

(* plots2.py turns the groups, then the hosts.  The order of the names is  *)
(* that of a dictionary.                                                   *)
Turn(from, to, cfg) ==
    /\ pc = from
    /\ \E names \in SetToSeqs(DOMAIN cfg) : propcfg' = HostsPerProp(cfg, names, propcfg)
    /\ pc' = to
    /\ UNCHANGED <<file, at, config, groupcfg, hostcfg>>

TurnGroups == Turn("groups", "hosts", groupcfg)
TurnHosts  == Turn("hosts", "done", hostcfg)

Next == Malformed \/ ReadOptions \/ ReadGroups \/ ReadHosts \/ ReadProperties \/ ReadOther \/ ReadEnds
            \/ TurnGroups \/ TurnHosts

Spec == Init /\ [][Next]_vars

(* read_config_simple: sections without a colon are passed over.           *)
Simple ==
    FoldLeft(LAMBDA c, s :
                IF c = Failed \/ s.colons = 0 THEN c
                ELSE IF s.colons > 1 THEN Failed
                ELSE IF s.name # "config" THEN c
                ELSE FoldLeft(LAMBDA d, words : SetOption(d, words, SimpleValue(words)), c, s.entries),
             Defaults, file)

----------------------------------------------------------------------------
(* The types of the state: options that are used as numbers are numbers.   *)
TypeOK ==
    /\ pc \in {"read", "groups", "hosts", "done", "failed"}
    /\ at \in 0 .. Len(file)
    /\ \A k \in IntConfigs \cap DOMAIN config : config[k].type = "int"
    /\ \A k \in FloatConfigs \cap DOMAIN config : config[k].type \in {"int", "float"}

(* The scripts that read the whole file and those that read the options    *)
(* see the same options (nsconfig.py:38 and :113).                         *)
SimpleAgrees == pc \notin {"read", "failed"} => Simple = config

Sections(name) == ElementsAt(file, {n \in 1 .. at : file[n].name = name})
Entries(name)  == FlattenSeq([i \in DOMAIN Sections(name) |-> Sections(name)[i].entries])

(* All that the file lists behind a group is kept, wherever it is listed.  *)
NothingIsLost ==
    \A e \in ToSet(Entries("groups")) : \A x \in ToSet(e.list) :
        e.name \in DOMAIN groupcfg /\ x \in ToSet(groupcfg[e.name])

(* The file says it once: no property is listed twice behind a host, nor a *)
(* host behind a property that lists it back.                              *)
SaidOnce ==
    /\ \A cfg \in {groupcfg, hostcfg} : \A h \in DOMAIN cfg : IsInjective(cfg[h])
    /\ \A e \in ToSet(Entries("properties")) : \A x \in ToSet(e.list) :
          \A cfg \in {groupcfg, hostcfg} : \A h \in DOMAIN cfg :
              EntryOf(h) = x => e.name \notin ToSet(cfg[h])

Listed == /\ \A e \in ToSet(Entries("properties")) : ToSet(e.list) \subseteq ToSet(propcfg[e.name])
          /\ \A cfg \in {groupcfg, hostcfg} : \A h \in DOMAIN cfg : \A p \in ToSet(cfg[h]) :
                p \in DOMAIN propcfg /\ EntryOf(h) \in ToSet(propcfg[p])

(* "Convert a list of lists of properties, indexed by host, into a list of *)
(* lists of hosts, indexed by property" (nsutil.py:125), where the file    *)
(* says it once.                                                           *)
HostsAreListed == pc = "done" /\ SaidOnce => Listed
=============================================================================
