----------------------------- MODULE MCReaders -----------------------------
(* The readers on small files of every kind. *)
EXTENDS Readers

UpTo(S, n) == UNION {[1 .. k -> S] : k \in 0 .. n}

----------------------------------------------------------------------------
(* nodescape2: files of up to four lines over a few kinds of lines, read   *)
(* by the agent and by the server; an array that begins with one slot, and *)
(* texts that reach their limits.                                          *)
T(c, n)   == [chars |-> c, len |-> n]
Set(k, v) == [kind |-> "set", key |-> k, val |-> v]
Com(l, c) == [kind |-> "command", label |-> l, comm |-> c, complete |-> TRUE]
Half(l)   == [kind |-> "command", label |-> l, comm |-> T("", 0), complete |-> FALSE]

OfAgent  == {[kind |-> "blank"], Set("host", T("s", 9)), Set("port", 5), Com(T("mem", 3), T("gettemp", 7)),
             Com(T("", 0), T("gettemps", 8)), Com(T("a long label", 12), T("getalltemps", 11)), Half(T("temp", 4))}
OfServer == {[kind |-> "other"], Com(T("mem", 3), T("usedm", 5))}
            \cup {Set(k, T("x", 1)) : k \in {"user", "dbhost", "dbname", "table"}} \cup {Set("user", T("y", 1))}

ReadBy(program, S) == {[program |-> program, lines |-> s, ended |-> e] : s \in S, e \in BOOLEAN}

MCCommandFiles == ReadBy("epacsedon", UpTo(OfAgent, 4)) \cup ReadBy("nodescape", UpTo(OfServer, 4))
                      \cup ReadBy("agedb", UpTo(OfServer, 1))

----------------------------------------------------------------------------
(* nodescape3: documents of up to two sections with up to two keys each,   *)
(* and short files of any bytes, by themselves and below a header.         *)
E == <<"e">>
S == <<"s">>
P == <<"p">>
V == <<"1", "e">>
W == <<"s", "1">>
LF   == <<"\n">>
CRLF == <<"\r", "\n">>
MCMainName == <<E>>

Section(ws, e)    == [kind |-> "section", words |-> ws, eol |-> e]
KeyLine(ws, s, e) == [kind |-> "key", words |-> ws, sep |-> s, eol |-> e]
BlankLine(e)      == [kind |-> "blank", eol |-> e]

Sections == {Section(<<E>>, LF), Section(<<P, E>>, CRLF), Section(<<<<"b", "s">>>>, LF)}
Keys     == {KeyLine(<<S, V>>, <<" ">>, LF), KeyLine(<<S, W, V>>, <<",">>, CRLF),
             KeyLine(<<P, V, W>>, <<" ">>, LF), KeyLine(<<S>>, <<" ">>, LF)}
Bodies   == {<<k>> : k \in Keys} \cup {<<k, l>> : k \in Keys, l \in Keys}
               \cup {<<BlankLine(CRLF), k, BlankLine(LF)>> : k \in Keys}
Parts    == {<<s>> \o b : s \in Sections, b \in Bodies}
Docs     == Parts \cup {<<Section(<<E>>, LF), k>> \o p : k \in Keys, p \in Parts}
Bytes    == {"[", "]", ",", " ", "\n", "\r", "s", "1"}
Raw      == UpTo(Bytes, 4) \cup {<<"[", "s", "]">> \o f : f \in [1 .. 4 -> Bytes]}

----------------------------------------------------------------------------
(* The web front ends: up to two sections of options, good and bad, or     *)
(* properties, groups and hosts, the groups in two sections.               *)
Options == { <<"port", "2">>, <<"bound", "1.5">>, <<"bound", "2">>, <<"table", "stats">>, <<"fetchint", "2", "day">>,
             <<"rrd_age", "2", "hour">>, <<>>, <<"table">>, <<"fetchint", "2", "days">>, <<"port", "1.5">>, <<"bound", "x">> }

Part(name, entries) == [name |-> name, colons |-> 1, entries |-> entries]
Listed(name, list)  == [name |-> name, list |-> list]

OptionParts == {Part("config", es) : es \in UpTo(Options, 2) \ {<<>>}}
Tails       == {[name |-> "", colons |-> c, entries |-> <<>>] : c \in {0, 2}} \cup {Part("other", <<>>)}
OptionFiles == {<<s>> \o t : s \in OptionParts, t \in UpTo(OptionParts \cup Tails, 1)}

GroupLists    == {Listed(n, l) : n \in {".cs", ".kaos"}, l \in {<<>>, <<"load">>, <<"load", "temp">>}}
HostLists     == {Listed("taula", l) : l \in {<<"load">>, <<"temp", "load">>, <<"load", "load">>}}
PropertyLists == {Listed(n, l) : n \in {"load", "temp"},
                                 l \in {<<"nsgroup .kaos", "nsgroup .cs">>, <<"solo">>, <<"taula">>}}
AtMostOne(S1) == {<<>>} \cup {<<e>> : e \in S1}
ListFiles ==
    {<<Part("properties", p), Part("groups", g), Part("hosts", h), Part("groups", g2)>> :
        p \in AtMostOne(PropertyLists) \cup {<<e, Listed("load", <<"nsgroup .kaos">>)>> : e \in PropertyLists},
        g \in AtMostOne(GroupLists), h \in AtMostOne(HostLists), g2 \in AtMostOne(GroupLists)}
MCFrontFiles   == OptionFiles \cup ListFiles
MCFrontNumbers == "2" :> 2
MCFrontFractions == "1.5" :> <<3, 2>>

----------------------------------------------------------------------------
(* The SAX tools: arrangements of words, blanks, hashes and ends of lines, *)
(* no two words in a row, and files of up to three options with good, bad  *)
(* and missing values.                                                     *)
Apart(f, S1)  == \A k \in 1 .. Len(f) - 1 : {f[k], f[k + 1]} \cap S1 # {}
Arrangements  == {Append(f, "newline") : f \in
                    {g \in UpTo({" ", "#", "newline", "Symbol_size", "3"}, 5) : Apart(g, {" ", "#", "newline"})}}
Ends          == {<<"3">>, <<"3", " ">>, <<"3", "#">>}
OneOption     == {<<o>> \o v \o <<"newline">> :
                     o \in {"Symbol_size", "Subword_lengths", "Profile", "DB_hist", "Alphabet", "Verbose", "Dist", "Sql_host", "Other"},
                     v \in {<<>>, <<" ", "3">>, <<" ", "on">>, <<" ", "3", " ", "day">>, <<" ", "abcdef", " ", "3">>}}
OptionLines   == {a \o b \o c : a \in OneOption, b \in OneOption,
                     c \in {<<>>, <<"Symbol_size", "newline">>, <<"Profile", " ", "on", "#", "3", "newline">>}}
Words         == {"Sql_host", "Symbol_size", "Subword_lengths", "Profile", "Verbose", "Dist",
                  "Alphabet", "DB_hist", "Other", "on", "day", "3", "abcdef"}
MCSaxFiles    == Arrangements \cup Ends \cup OptionLines
MCSaxNumbers  == "3" :> 3
MCWordLengths == [w \in Words |-> IF w = "abcdef" THEN 6 ELSE IF w = "3" THEN 1 ELSE 3]

(* All files of up to six words and blanks, no two words in a row.         *)
MCSampleFiles == {f \in UpTo({" ", "1", "2", "x"}, 6) : Apart(f, {" "})}

----------------------------------------------------------------------------
(* A sequential program runs until it ends. *)
FairSpec == ReadersSpec /\ WF_readerVars(ReadersNext)

(* config_scan.go:94-105: a file whose last line is ended is read in       *)
(* finitely many steps, whatever is in it.                                 *)
TerminatedFilesEnd ==
    Reads("nodescape3") /\ (file = <<>> \/ Last(file) = "\n") => <>(reader = "nodescape3" /\ Config!Over)
============================================================================
