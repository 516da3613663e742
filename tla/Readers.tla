------------------------------ MODULE Readers ------------------------------
(***************************************************************************)
(* The readers of files: each behaviour is one of them at work on one      *)
(* file.  They run in programs of their own and share nothing, so they are *)
(* put side by side: "reader" says which one runs, the variables that only *)
(* others have stay None.                                                  *)
(***************************************************************************)
EXTENDS Integers, Sequences, SequencesExt, Selections, TLC

CONSTANTS CommandFiles, Room, Width, LabelSize, TextSize,     \* of CommandFile
          Letters, Digits, OtherBytes, Documents, RawFiles,   \* of ConfigFile
          MainName, BuiltinName, ServerKey, PollKey,
          FrontFiles, FrontNumbers, FrontFractions, GroupNames, \* of FrontConfig
          SaxFiles, SaxNumbers, WordLengths,                  \* of SaxConfig
          SampleFiles, SampleBlank, SampleNumbers             \* of SampleFile

VARIABLES reader, file, pc, at, config, i,
          set, coms, used, leaked,                                \* CommandFile
          doc, pos, next, nst, ended, part, tok, sects, conf,     \* ConfigFile
          groupcfg, hostcfg, propcfg,                             \* FrontConfig
          line, lines,                                            \* SaxConfig
          values, err                                             \* SampleFile

ofCommands == <<set, coms, used, leaked>>
ofConfig   == <<doc, pos, next, nst, ended, part, tok, sects, conf>>
ofFront    == <<groupcfg, hostcfg, propcfg>>
ofSax      == <<line, lines>>
ofSamples  == <<values, err>>
readerVars == <<reader, file, pc, at, config, i, ofCommands, ofConfig, ofFront, ofSax, ofSamples>>

Commands == INSTANCE CommandFile WITH Files <- CommandFiles
Config   == INSTANCE ConfigFile WITH
    Letter <- Letters, Digit <- Digits, Other <- OtherBytes, Docs <- Documents, Raw <- RawFiles,
    Main <- MainName, BuiltinLetter <- BuiltinName, Server <- ServerKey, Poll <- PollKey
FrontEnd == INSTANCE FrontConfig WITH
    Files <- FrontFiles, NumberOf <- FrontNumbers, Fraction <- FrontFractions, Groups <- GroupNames
Sax      == INSTANCE SaxConfig WITH Files <- SaxFiles, Numbers <- SaxNumbers, Length <- WordLengths
Samples  == INSTANCE SampleFile WITH Files <- SampleFiles, Blank <- SampleBlank, Numbers <- SampleNumbers

ASSUME ReaderConstants == Commands!CommandConstants /\ Sax!SaxConstants /\ Samples!SampleConstants

None == "none"

NoCommands == set = None /\ coms = None /\ used = None /\ leaked = None
NoConfig   == /\ doc = None /\ pos = None /\ next = None /\ nst = None /\ ended = None
              /\ part = None /\ tok = None /\ sects = None /\ conf = None
NoFront    == groupcfg = None /\ hostcfg = None /\ propcfg = None
NoSax      == line = None /\ lines = None
NoSamples  == values = None /\ err = None

ReadersInit ==
    \/ /\ reader = "nodescape2" /\ Commands!Init
       /\ config = None /\ i = None /\ NoConfig /\ NoFront /\ NoSax /\ NoSamples
    \/ /\ reader = "nodescape3" /\ Config!Init
       /\ at = None /\ config = None /\ i = None /\ NoCommands /\ NoFront /\ NoSax /\ NoSamples
    \/ /\ reader = "front" /\ FrontEnd!Init
       /\ i = None /\ NoCommands /\ NoConfig /\ NoSax /\ NoSamples
    \/ /\ reader = "sax" /\ Sax!Init
       /\ at = None /\ NoCommands /\ NoConfig /\ NoFront /\ NoSamples
    \/ /\ reader \in {"samples", "profile", "data"} /\ Samples!Init
       /\ pc = None /\ at = None /\ config = None /\ NoCommands /\ NoConfig /\ NoFront /\ NoSax

ReadersNext ==
    \/ /\ reader = "nodescape2" /\ Commands!Next
       /\ UNCHANGED <<reader, config, i, ofConfig, ofFront, ofSax, ofSamples>>
    \/ /\ reader = "nodescape3" /\ Config!Next
       /\ UNCHANGED <<reader, at, config, i, ofCommands, ofFront, ofSax, ofSamples>>
    \/ /\ reader = "front" /\ FrontEnd!Next
       /\ UNCHANGED <<reader, i, ofCommands, ofConfig, ofSax, ofSamples>>
    \/ /\ reader = "sax" /\ Sax!Next
       /\ UNCHANGED <<reader, at, ofCommands, ofConfig, ofFront, ofSamples>>
    \/ /\ reader = "samples" /\ Samples!ArraysFromFile
       /\ UNCHANGED <<reader, pc, at, config, ofCommands, ofConfig, ofFront, ofSax>>
    \/ /\ reader = "profile" /\ Samples!ReadProfile
       /\ UNCHANGED <<reader, pc, at, config, ofCommands, ofConfig, ofFront, ofSax>>
    \/ /\ reader = "data" /\ Samples!ReadData
       /\ UNCHANGED <<reader, pc, at, config, ofCommands, ofConfig, ofFront, ofSax>>

ReadersSpec == ReadersInit /\ [][ReadersNext]_readerVars

----------------------------------------------------------------------------
Reads(r) == reader = r

(* config.c:72-220 and nodescape.c:23-50: the array of commands grows      *)
(* before it is full, the slots that count are the complete command lines, *)
(* in their order, each run with its own command, or, where that is as     *)
(* long as its field, with what fits of it and its own label behind, and   *)
(* one that is not complete leaves nothing behind; of two lines for a      *)
(* setting the last one counts, and no program runs without a setting it   *)
(* asks for; numbers and the texts of settings fit their fields.           *)
CommandsKept == Reads("nodescape2") =>
                    /\ Commands!TypeOK /\ Commands!NoOverrun /\ Commands!CommandsInOrder
                    /\ Commands!LastSettingCounts /\ Commands!RunsConfigured

(* config_parse.go and config.go:127-165: a document is parsed into its    *)
(* own sections, keys and values, and into the servers they give.          *)
DocumentsReadBack == Reads("nodescape3") => Config!TypeOK /\ Config!DocumentsReadBack /\ Config!ServersInOrder

(* nsconfig.py:38-113 and nsutil.py:125-149: the two readers of the        *)
(* options agree; nothing that is listed behind a group is lost, and where *)
(* the file says it once every host is in the list of each of its          *)
(* properties.                                                             *)
ListsAreWhole == Reads("front") => FrontEnd!TypeOK /\ FrontEnd!SimpleAgrees /\ FrontEnd!NothingIsLost /\ FrontEnd!HostsAreListed

(* nsutil.go:55-109, :156 and :220: the lines of tokens are those of the   *)
(* file, lists add up over their lines and numbers do not.                 *)
OptionsAreOfTheirLines == Reads("sax") => Sax!TypeOK /\ Sax!LinesAreSplit /\ Sax!OptionsAreOfTheirLines

(* saxutil.go:76-152: the pairs that are read are those of the file, all   *)
(* of them where there is no error, and an error comes no earlier than the *)
(* pair that is bad; scomp_local.go:189-233, which has no errors: a pair   *)
(* that is bad is kept, and moves none of the others.                      *)
SamplesReadBack ==
    /\ reader \in {"samples", "profile"} =>
        Samples!PairsInOrder /\ Samples!NothingLeftOver /\ Samples!ErrorsKeepWhatWasRead
    /\ Reads("data") => Samples!BadPairsKeepTheirPlace
=============================================================================
