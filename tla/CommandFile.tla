---------------------------- MODULE CommandFile ----------------------------
(***************************************************************************)
(* read_config of nodescape2 (config.c), which its three programs share:   *)
(* the settings, and for the agent the array of the commands it runs.  The *)
(* array begins small and doubles; a slot is filled in place and counts    *)
(* only when its line is complete, so it may be filled again.              *)
(*                                                                         *)
(* A line is what it is read as: blank or a comment, a setting (its key is *)
(* looked for at the begin of the line, its value is the text behind the   *)
(* key up to a space), a command, or none of these.                        *)
(***************************************************************************)
EXTENDS Integers, Sequences, SequencesExt, Selections, TLC

CONSTANTS Files,     \* files to read: [program, lines, ended], the program that reads
                     \* it, and whether its last line ends
          Room,      \* COMS_START
          Width,     \* values of an unsigned short
          LabelSize, \* STATLAB
          TextSize   \* STRMAX

Texts   == {"host", "group", "user", "dbhost", "passwd", "dbname", "table"}
Numbers == {"port", "ageint"}

(* A text is its first characters, if there are any, and how long it is.   *)
IsText(t) == t = [chars |-> t.chars, len |-> t.len] /\ t.len \in Nat /\ (t.chars = "" => t.len = 0)

OfAKind(line) ==
    \/ line.kind \in {"blank", "other"}
    \/ line.kind = "set" /\ line.key \in Texts /\ IsText(line.val)
    \/ line.kind = "set" /\ line.key \in Numbers /\ line.val \in Int
    \/ line.kind = "command" /\ IsText(line.label) /\ IsText(line.comm) /\ line.complete \in BOOLEAN

(* The array begins with a slot, a text has room for the zero at its end,  *)
(* and a line is one of those read_config tells apart.                     *)
CommandConstants ==
    /\ Room \in Nat \ {0} /\ Width \in Nat \ {0} /\ LabelSize \in Nat \ {0} /\ TextSize \in Nat \ {0}
    /\ \A f \in Files : Len(f.lines) \in Nat /\ \A n \in 1 .. Len(f.lines) : OfAKind(f.lines[n])

Short(text, size) == [text EXCEPT !.len = IF @ < size THEN @ ELSE size - 1]
Empty == [chars |-> "", len |-> 0]

VARIABLES file, pc,
          at,       \* lines read
          set,      \* settings
          coms,     \* the array: label_str and comm_str of its slots
          used,     \* coms_used
          leaked    \* lines that were not freed

vars == <<file, pc, at, set, coms, used, leaked>>

Slot == [label |-> Empty, comm |-> Empty]

Default(k) == IF k = "port" THEN 45231 % Width ELSE IF k = "ageint" THEN 14 % Width ELSE Empty

Init == /\ file \in Files /\ pc = "read" /\ at = 0
        /\ set = [k \in Texts \cup Numbers |-> Default(k)]
        /\ coms = IF file.program = "epacsedon" THEN [i \in 1 .. Room |-> Slot] ELSE <<>>
        /\ used = 0 /\ leaked = 0

(* A last line that is not ended is not read. *)
HasLine == pc = "read" /\ at < Len(file.lines) - (IF file.ended THEN 0 ELSE 1)

Line == file.lines[at + 1]

WantsCommands == file.program = "epacsedon"

Skip == /\ HasLine
        /\ Line.kind \in {"blank", "other"} \/ (Line.kind = "command" /\ ~WantsCommands)
        /\ at' = at + 1
        /\ UNCHANGED <<file, pc, set, coms, used, leaked>>

\* Mutant: a setting is only made once.
PutFirst(key, val) == IF key \in Texts /\ set[key] # Empty THEN set ELSE [set EXCEPT ![key] = val]

Put(key, val) == [set EXCEPT ![key] = val]

SetText == /\ HasLine /\ Line.kind = "set" /\ Line.key \in Texts
           /\ set' = Put(Line.key, Short(Line.val, TextSize))
           /\ at' = at + 1
           /\ UNCHANGED <<file, pc, coms, used, leaked>>

(* atoi, stored in an unsigned short. *)
SetNumber == /\ HasLine /\ Line.kind = "set" /\ Line.key \in Numbers
             /\ set' = Put(Line.key, Line.val % Width)
             /\ at' = at + 1
             /\ UNCHANGED <<file, pc, coms, used, leaked>>

Grown == IF used < Len(coms) THEN coms ELSE coms \o [i \in 1 .. Len(coms) |-> Slot]

\* Mutant: an incomplete line keeps its slot.
CountedAll(line) == used + 1

(* A line counts when it has a second separator. *)
Counted(line) == IF line.complete THEN used + 1 ELSE used

(* The label is cut to its size; the command is copied up to its size, the *)
(* terminating zero only if there is room for it.  (The end of an empty    *)
(* label is looked for in the bytes before it, those of the slot's own     *)
(* command, which is written over them.)  A line that is not complete is   *)
(* not freed.                                                              *)
Command ==
    /\ HasLine /\ Line.kind = "command" /\ WantsCommands
    /\ IF used + 1 > Len(Grown) THEN pc' = "overrun" /\ UNCHANGED <<coms, used, leaked>>
       ELSE /\ coms' = [Grown EXCEPT ![used + 1] =
                          [label |-> Short(Line.label, LabelSize),
                           comm |-> IF Line.complete THEN Short(Line.comm, TextSize + 1) ELSE @.comm]]
            /\ used' = Counted(Line)
            /\ leaked' = leaked + (IF Line.complete THEN 0 ELSE 1)
            /\ UNCHANGED pc
    /\ at' = at + 1
    /\ UNCHANGED <<file, set>>

(* What the agent hands to popen: a command without its end runs on into   *)
(* the label behind it.                                                    *)
Executed(slot) == IF slot.comm.len < TextSize THEN <<slot.comm>> ELSE <<slot.comm, slot.label>>

(* What a program ends without. *)
Needs == CASE file.program = "epacsedon" -> {"host"}
           [] file.program = "nodescape" -> {"user", "dbhost", "dbname", "table"}
           [] OTHER                 -> {}

Start == /\ pc = "read" /\ ~HasLine
         /\ pc' = IF \E k \in Needs : set[k] = Empty THEN "exit" ELSE "run"
         /\ UNCHANGED <<file, at, set, coms, used, leaked>>

Next == Skip \/ SetText \/ SetNumber \/ Command \/ Start

Spec == Init /\ [][Next]_vars

----------------------------------------------------------------------------
Complete == ElementsAt(file.lines, {n \in 1 .. at : file.lines[n].kind = "command" /\ file.lines[n].complete})

(* The types of the state, and that numbers and texts fit where they are.  *)
TypeOK == /\ pc \in {"read", "run", "exit", "overrun"}
          /\ at \in 0 .. Len(file.lines) /\ leaked \in 0 .. at
          /\ \A k \in Numbers : set[k] \in 0 .. Width - 1
          /\ \A k \in Texts : set[k].len < TextSize

(* The array grows before it is full (:191): a slot is never beyond it.    *)
NoOverrun == pc # "overrun" /\ used <= Len(coms)

(* What is run for a line: its command; one that is as long as its field,  *)
(* or longer, is cut there and followed by the line's own label.           *)
Asked(line) == IF line.comm.len < TextSize THEN <<line.comm>>
               ELSE <<Short(line.comm, TextSize + 1), Short(line.label, LabelSize)>>

(* The slots that count are the complete command lines, in their order,    *)
(* whatever incomplete ones came between and left in a slot (:198-217):    *)
(* each has its own label, and what is run for it is its own command,      *)
(* whole up to one character less than the field, and nothing of another   *)
(* slot even where it has lost its end (:216, epacsedon.c:63).             *)
CommandsInOrder ==
    WantsCommands /\ pc # "overrun" =>
        /\ used = Len(Complete)
        /\ \A i \in 1 .. used : /\ coms[i].label = Short(Complete[i].label, LabelSize)
                                /\ Executed(coms[i]) = Asked(Complete[i])

(* Of two lines for a setting the last one counts (:72-187), as much of it *)
(* as the setting has room for.                                            *)
LastSettingCounts ==
    \A k \in Texts :
        LET lines == ElementsAt(file.lines, {n \in 1 .. at : file.lines[n].kind = "set" /\ file.lines[n].key = k})
        IN  set[k] = (IF lines = <<>> THEN Empty ELSE Short(Last(lines).val, TextSize))

(* "Configuration file did not specify a table to use" and its like        *)
(* (nodescape.c:23-50, epacsedon.c:25-31).                                 *)
RunsConfigured ==
    pc = "run" => CASE file.program = "nodescape" -> "" \notin {set[k].chars : k \in {"user", "dbhost", "dbname", "table"}}
                    [] file.program = "epacsedon" -> set["host"].chars # ""
                    [] OTHER                 -> TRUE
=============================================================================
