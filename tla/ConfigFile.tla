----------------------------- MODULE ConfigFile -----------------------------
(***************************************************************************)
(* The configuration reader of nodescape3: a scanner with one byte of      *)
(* lookahead that cuts a file into tokens, a recursive descent parser that *)
(* asks it for one token at a time, and the pass over the parsed sections  *)
(* that fills in the settings.  Every recursion of the parser is a tail    *)
(* call, so its state is the place in the grammar.                         *)
(*                                                                         *)
(* A byte is a one-character string.  Tab is left out (it is a blank), and *)
(* identifiers are spelled with few letters: the module's constants say    *)
(* which of them are the keys the settings know.                           *)
(***************************************************************************)
EXTENDS Integers, Sequences, SequencesExt

CONSTANTS Letter, Digit, Other, \* bytes that are letters (or _), digits, anything else
          Docs,                 \* documents, sequences of lines
          Raw,                  \* files that need not be documents
          Main,                 \* the name "epacsedon" of the main section
          BuiltinLetter,        \* stands for the prefix "builtin_"
          Server, Poll          \* the keys "server" and "poll"

VARIABLES doc,   \* the lines the file was made from; never changes
          file,  \* the bytes of the file; never changes
          pos,   \* bytes read so far
          next,  \* the two bytes of lookahead
          nst,   \* state of the scanner: the class of next[1]
          ended, \* scan_err: the last read found the end of the file
          part,  \* sofar: the bytes of the word that is being read
          tok,   \* the parser's next token, or Scanning while scan() runs
          pc,    \* place of the parser in the grammar, or how it ended
          sects, \* the sections parsed so far
          conf   \* servers and properties of the settings

input   == <<doc, file>>
scanner == <<pos, next, nst, ended, part>>
vars    == <<input, scanner, tok, pc, sects, conf>>

----------------------------------------------------------------------------
(* Documents, and the files that spell them. *)

Line(l) ==
    CASE l.kind = "section" ->
             <<"[">> \o FlattenSeq([i \in DOMAIN l.words |->
                           IF i = 1 THEN l.words[1] ELSE <<" ">> \o l.words[i]]) \o <<"]">> \o l.eol
      [] l.kind = "key" ->
             FlattenSeq([i \in DOMAIN l.words |->
                           IF i = 1 THEN l.words[1]
                           ELSE (IF i = 2 THEN <<" ">> ELSE l.sep) \o l.words[i]]) \o l.eol
      [] l.kind = "blank" -> l.eol

Text(d) == FlattenSeq([i \in DOMAIN d |-> Line(d[i])])

----------------------------------------------------------------------------
(* The scanner. *)

Nul == "NUL"  \* a byte no read filled

StartsId(c)  == c \in Letter
InId(c)      == c \in Letter \cup Digit

\* Mutant: a word runs over the end of its line.
DelimiterInLine(c) == c \in {",", "[", "]", " "}

Delimiter(c) == c \in {",", "\n", "\r", "[", "]", " "}

(* next_state: what the byte that comes next begins. *)
StateFor(c) == CASE c = "["           -> "lb"
                 [] c = "]"           -> "rb"
                 [] c = ","           -> "cm"
                 [] StartsId(c)       -> "id"
                 [] c = " "           -> "start"
                 [] c \in {"\n", "\r"} -> "nl"
                 [] OTHER             -> "arg"

Token(t, s) == [type |-> t, text |-> s]
Scanning    == Token("scanning", <<>>)

ByteAt(k) == IF k <= Len(file) THEN file[k] ELSE Nul

(* get_next: the byte read last slides to the front; a read at the end of  *)
(* the file leaves its byte where it was, and is remembered.               *)
GetNext == /\ next' = <<next[2], IF pos < Len(file) THEN ByteAt(pos + 1) ELSE next[2]>>
           /\ pos' = IF pos < Len(file) THEN pos + 1 ELSE pos
           /\ ended' = (pos >= Len(file))

Scans == tok = Scanning /\ UNCHANGED <<input, pc, sects, conf>>

Emit(t, s) == tok' = Token(t, s) /\ nst' = StateFor(next'[1])

(* A scan that finds the end already met returns eof, bytes of lookahead   *)
(* notwithstanding.                                                        *)
ScanEof == /\ Scans /\ part = <<>> /\ ended
           /\ tok' = Token("eof", <<>>)
           /\ UNCHANGED scanner

ScanBlank == /\ Scans /\ part = <<>> /\ ~ended /\ nst = "start"
             /\ GetNext
             /\ nst' = StateFor(next'[1])
             /\ UNCHANGED <<part, tok>>

ScanMark == /\ Scans /\ part = <<>> /\ ~ended /\ nst \in {"lb", "rb", "cm"}
            /\ GetNext
            /\ Emit(nst, <<next[1]>>)
            /\ UNCHANGED part

\* Mutant: the second byte of a line end is not skipped.
ScanNewlineSplit ==
    /\ Scans /\ part = <<>> /\ ~ended /\ nst = "nl"
    /\ GetNext
    /\ Emit(IF next[1] = "\r" THEN "arg" ELSE "nl", <<next[1]>>)
    /\ UNCHANGED part

(* \r\n is one token: both bytes of lookahead are read anew, and where one *)
(* byte is left the second stays what it was.                              *)
ScanNewline ==
    /\ Scans /\ part = <<>> /\ ~ended /\ nst = "nl"
    /\ IF next = <<"\r", "\n">>
       THEN LET n == IF Len(file) - pos < 2 THEN Len(file) - pos ELSE 2
            IN  /\ next' = <<IF n > 0 THEN ByteAt(pos + 1) ELSE next[1],
                             IF n > 1 THEN ByteAt(pos + 2) ELSE next[2]>>
                /\ pos' = pos + n
                /\ ended' = (n = 0)
       ELSE GetNext
    /\ Emit("nl", <<next[1]>>)
    /\ UNCHANGED part

InWord(c) == IF nst = "id" THEN InId(c) ELSE ~Delimiter(c)

(* The first byte of a word, and every other.  The loop does not look at   *)
(* the end of the file: there the buffer grows for ever, which the model   *)
(* stops counting when the word is longer than the file.                   *)
ScanWord ==
    /\ Scans /\ nst \in {"id", "arg"}
    /\ IF part = <<>> THEN ~ended ELSE InWord(next[1])
    /\ GetNext
    /\ part' = IF Len(part) <= Len(file) THEN Append(part, next[1]) ELSE part
    /\ UNCHANGED <<nst, tok>>

ScanWordEnds ==
    /\ Scans /\ part # <<>> /\ ~InWord(next[1])
    /\ UNCHANGED <<pos, next, ended>>
    /\ Emit(nst, part)
    /\ part' = <<>>

Scan == ScanEof \/ ScanBlank \/ ScanMark \/ ScanNewline \/ ScanWord \/ ScanWordEnds

----------------------------------------------------------------------------
(* The parser. *)

Parses == tok # Scanning /\ UNCHANGED <<input, scanner, conf>>

Peek(t) == tok.type = t

Take == tok' = Scanning

(* match: the token it asks for, or the process exits. *)
Expect(t, then) == IF Peek(t) THEN pc' = then /\ Take ELSE pc' = "exit" /\ UNCHANGED tok

InSect(s) == sects' = [sects EXCEPT ![Len(sects)] = s]
Sect      == sects[Len(sects)]

SectionOpens == /\ Parses /\ pc = "lb"
                /\ Expect("lb", "name")
                /\ sects' = IF Peek("lb") THEN Append(sects, [name |-> <<>>, opts |-> <<>>]) ELSE sects

NameWord == /\ Parses /\ pc = "name" /\ Peek("id")
            /\ Take
            /\ InSect([Sect EXCEPT !.name = Append(@, tok.text)])
            /\ UNCHANGED pc

(* The blank after the last word of the name is cut off: where there was   *)
(* no word, the truncation panics.                                         *)
NameEnds == /\ Parses /\ pc = "name" /\ ~Peek("id")
            /\ IF Sect.name = <<>> THEN pc' = "panic" /\ UNCHANGED tok ELSE Expect("rb", "nl")
            /\ UNCHANGED sects

HeaderEnds == /\ Parses /\ pc = "nl"
              /\ Expect("nl", "key")
              /\ UNCHANGED sects

HeaderBlank == /\ Parses /\ pc = "key" /\ Peek("nl")
               /\ Take
               /\ UNCHANGED <<pc, sects>>

Key == /\ Parses /\ pc = "key" /\ ~Peek("nl")
       /\ Expect("id", "vals")
       /\ IF Peek("id") THEN InSect([Sect EXCEPT !.opts = Append(@, [key |-> tok.text, vals |-> <<>>])])
          ELSE UNCHANGED sects

(* Any token that is neither a comma nor the end of a line is a value.     *)
Arg == /\ Parses /\ pc = "vals" /\ tok.type \notin {"cm", "nl", "eof"}
       /\ Take
       /\ InSect([Sect EXCEPT !.opts[Len(Sect.opts)].vals = Append(@, tok.text)])
       /\ UNCHANGED pc

ArgComma == /\ Parses /\ pc = "vals" /\ Peek("cm")
            /\ Take
            /\ UNCHANGED <<pc, sects>>

ArgsEnd == /\ Parses /\ pc = "vals" /\ tok.type \in {"nl", "eof"}
           /\ pc' = "more"
           /\ UNCHANGED <<tok, sects>>

MoreBlank == /\ Parses /\ pc = "more" /\ Peek("nl")
             /\ Take
             /\ UNCHANGED <<pc, sects>>

(* The next key, the next section, or any other token: then the parse is   *)
(* over, whether the file is or not.                                       *)
More == /\ Parses /\ pc = "more" /\ ~Peek("nl")
        /\ pc' = CASE Peek("id") -> "key" [] Peek("lb") -> "lb" [] OTHER -> "done"
        /\ UNCHANGED <<tok, sects>>

Parse == \/ SectionOpens \/ NameWord \/ NameEnds \/ HeaderEnds \/ HeaderBlank
         \/ Key \/ Arg \/ ArgComma \/ ArgsEnd \/ MoreBlank \/ More

----------------------------------------------------------------------------
(* The settings. *)

IsMain(s) == s.name = Main

Given(s, k) == SelectSeq(s.opts, LAMBDA o : o.key = k /\ o.vals # <<>>)

(* main_config: every server line adds its first value. *)
Servers(s) == [i \in DOMAIN Given(s, Server) |-> Given(s, Server)[i].vals[1]]

(* set_name: the prefix is not part of the name of a built-in property.    *)
NameOf(s) == IF Head(Head(s.name)) = BuiltinLetter THEN <<Tail(Head(s.name))>> \o Tail(s.name)
             ELSE s.name

(* builtin_config and external_config: a property has the poll interval    *)
(* that was given last.                                                    *)
Property(s) == [name |-> NameOf(s),
                poll |-> IF Given(s, Poll) = <<>> THEN <<>> ELSE Last(Given(s, Poll)).vals[1]]

(* ReadConfig prints the first server, and panics where there is none.     *)
Configure ==
    LET mains == SelectSeq(sects, IsMain)
        props == SelectSeq(sects, LAMBDA s : ~IsMain(s))
    IN  /\ pc = "done"
        /\ conf' = [servers |-> FlattenSeq([i \in DOMAIN mains |-> Servers(mains[i])]),
                    properties |-> [i \in DOMAIN props |-> Property(props[i])]]
        /\ pc' = IF conf'.servers = <<>> THEN "panic" ELSE "configured"
        /\ UNCHANGED <<input, scanner, tok, sects>>

Init == /\ \/ \E d \in Docs : doc = d /\ file = Text(d)
           \/ \E f \in Raw : doc = <<>> /\ file = f
        /\ pos = IF Len(file) < 2 THEN Len(file) ELSE 2
        /\ next = <<ByteAt(1), ByteAt(2)>>
        /\ nst = StateFor(next[1])
        /\ ended = FALSE
        /\ part = <<>>
        /\ tok = IF file = <<>> THEN Token("start", <<>>) ELSE Scanning
        /\ pc = "lb"
        /\ sects = <<>>
        /\ conf = [servers |-> <<>>, properties |-> <<>>]

Next == Scan \/ Parse \/ Configure

Spec == Init /\ [][Next]_vars

(* A sequential program runs until it ends. *)
FairSpec == Spec /\ WF_vars(Next)

----------------------------------------------------------------------------
Word == Seq(Letter \cup Digit \cup Other \cup {"[", "]", Nul})

(* The types of the state; a section that was read to its end has a name.  *)
TypeOK ==
    /\ pos \in 0 .. Len(file)
    /\ ended \in BOOLEAN
    /\ nst \in {"start", "lb", "rb", "nl", "id", "arg", "cm"}
    /\ tok.type \in {"scanning", "start", "lb", "rb", "nl", "id", "arg", "cm", "eof"}
    /\ part \in Word
    /\ pc \in {"lb", "name", "nl", "key", "vals", "more", "done", "configured", "exit", "panic"}
    /\ \A i \in DOMAIN sects :
         /\ sects[i].name \in Seq(Word) /\ (pc # "panic" /\ pc # "name" => sects[i].name # <<>>)
         /\ \A j \in DOMAIN sects[i].opts : /\ sects[i].opts[j].key \in Word
                                            /\ sects[i].opts[j].vals \in Seq(Word)

Over == pc \in {"configured", "exit", "panic"}

(* The lines of a kind, and the section line above a line. *)
LinesOf(kind)  == SetToSortSeq({i \in DOMAIN doc : doc[i].kind = kind}, LAMBDA i, j : i < j)
HeaderOf(i)    == CHOOSE h \in 1 .. i : /\ doc[h].kind = "section"
                                        /\ \A k \in h + 1 .. i : doc[k].kind # "section"

(* A document reads back: the parser accepts it and finds its section      *)
(* lines and, below each, its keys with their values, in order - blank     *)
(* lines, either line end, blanks or commas between values notwithstanding. *)
DocumentsReadBack ==
    doc # <<>> /\ Over =>
        /\ pc # "exit"
        /\ Len(sects) = Len(LinesOf("section"))
        /\ \A n \in DOMAIN sects :
             LET h    == LinesOf("section")[n]
                 keys == SelectSeq(LinesOf("key"), LAMBDA i : HeaderOf(i) = h)
             IN  /\ sects[n].name = doc[h].words
                 /\ sects[n].opts = [k \in DOMAIN keys |->
                        [key |-> Head(doc[keys[k]].words), vals |-> Tail(doc[keys[k]].words)]]

(* The servers are the first values of the server lines of main sections,  *)
(* in the order of the file, and without one of them the program panics.   *)
ServersInOrder ==
    doc # <<>> /\ Over =>
        LET mine == SelectSeq(LinesOf("key"),
                        LAMBDA i : /\ doc[i].words[1] = Server /\ Len(doc[i].words) > 1
                                   /\ doc[HeaderOf(i)].words = Main)
        IN  /\ conf.servers = [k \in DOMAIN mine |-> doc[mine[k]].words[2]]
            /\ pc = "panic" <=> mine = <<>>

(* A file whose last line is ended is read in finitely many steps, however *)
(* malformed it is.                                                        *)
TerminatedFilesEnd == (file = <<>> \/ Last(file) = "\n") => <>Over
=============================================================================
