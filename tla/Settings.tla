------------------------------ MODULE Settings ------------------------------
(***************************************************************************)
(* The configuration of a pass: read_cfg and the section store of cfg.c,   *)
(* and readcfg of mrbig.c.  A pass of the main loop reads mrbig.cfg and    *)
(* what it includes into the store, turns the lines of section [mrbig]     *)
(* into settings, then each check reads its own file from cfgdir into the  *)
(* same store (one check, disk, stands for all), and clear_cfg empties it. *)
(*                                                                         *)
(* Files may include files, themselves too: read_cfg calls itself, and the *)
(* stack of its open files is stack.  A .config line reads cfg.cache the   *)
(* same way once ConfigCache has fetched it.  The administrator may write  *)
(* any file at any time; an open file is read from its buffer.             *)
(***************************************************************************)
EXTENDS FileTable, SequencesExt

CONSTANTS
  Files,       \* names of the files
  mrbig_cfg,   \* the file the agent begins with
  installdir,  \* the default of cfgdir: the check's file in that directory
  Sections,    \* names of sections, "mrbig" and "disk" among them
  Contents,    \* what the files may hold: functions from Files to sequences
               \* of lines, or Nil for a file that does not exist
  Debugs,      \* debug levels of the command line
  CfgMax       \* lines a section of the store can hold (32000 bytes)

(* The lines of all files.  A line is [key, val].                          *)
Lines == UNION {IF c[f] = Nil THEN {} ELSE ToSet(c[f]) : c \in Contents, f \in Files}

ASSUME SettingsAssumption ==
  /\ mrbig_cfg \in Files /\ installdir \in Files
  /\ {"mrbig", "disk"} \subseteq Sections
  /\ Debugs \subseteq Nat
  /\ CfgMax \in Nat
  /\ \A c \in Contents, f \in Files : c[f] # Nil => c[f] \in Seq(Lines)
  /\ \A line \in Lines :
       /\ line.key = "section" => line.val \in Sections
       /\ line.key \in {"include", "cfgdir"} => line.val \in Files
       /\ line.key = "debug" => line.val \in Int

INT_MAX == 2147483647

(* What readcfg resets before it looks at the lines ...                    *)
Defaults ==
  [machine |-> "localhost", port |-> 1984, sleep |-> 300, loop |-> INT_MAX,
   bootyellow |-> 60, bootred |-> 30, dfyellow |-> 90, dfred |-> 95,
   cpuyellow |-> 80, cpured |-> 90, memyellow |-> 100, memred |-> 100,
   msgage |-> 3600, memsize |-> 4, pickupdir |-> Nil]

(* ... and what it does not, with the values at the start of the program.  *)
AtStart(debug) ==
  [debug |-> debug, report_size |-> 16384, cfgdir |-> installdir, bind_addr |-> "0.0.0.0"]

VARIABLES
  content,    \* the files on disk
  pc,         \* "begin", "main" or "disk" (reading), "readcfg", "check"
  stack,      \* the calls of read_cfg under way: what is left of the file,
              \* the section reached, the open FILE
  conf,       \* the section store
  todo,       \* the lines readcfg has yet to look at
  set,        \* the settings with a default
  kept,       \* the settings without
  displays, gracetime, options,   \* the lists, newest line first
  logfp,      \* the log file, or Nil
  io,         \* the open files and the list of them
  before,     \* history: kept and the number of open files when the pass began
  stable,     \* history: no file was written since the pass began
  twice,      \* history: a pass had two logfile lines
  late        \* history: a pass had a debug line after a logfile line

settings == <<set, kept, displays, gracetime, options, logfp>>
hist == <<before, stable, twice, late>>
vars == <<content, pc, stack, conf, todo, set, kept, displays, gracetime, options, logfp, io,
          before, stable, twice, late>>

EmptyStore == [s \in Sections |-> <<>>]

Init ==
  /\ content \in Contents
  /\ pc = "begin" /\ stack = <<>> /\ conf = EmptyStore /\ todo = <<>>
  /\ set = Defaults /\ kept \in {AtStart(d) : d \in Debugs}
  /\ displays = <<>> /\ gracetime = <<>> /\ options = <<>>
  /\ logfp = Nil /\ io = NoFiles
  /\ before = [kept |-> kept, open |-> 0]
  /\ stable = TRUE /\ twice = FALSE /\ late = FALSE

-----------------------------------------------------------------------------
(* read_cfg.                                                               *)

(* read_cfg(cat, file), called with the calls of below under way.          *)
read_cfg(cat, file, below) ==
  IF content[file] = Nil \/ fopen(io) = Nil
  THEN stack' = below /\ UNCHANGED io
  ELSE /\ stack' = Append(below, [lines |-> content[file], category |-> cat, fp |-> fopen(io)])
       /\ io' = big_fopen(io, fopen(io), kept.debug)

Begin ==
  /\ pc = "begin"
  /\ pc' = "main"
  /\ read_cfg("mrbig", mrbig_cfg, <<>>)
  /\ stable' = TRUE
  /\ UNCHANGED <<content, conf, todo, settings, before, twice, late>>

Top == Last(stack)

(* The innermost call has a line of the given kind.                        *)
Line(keys) == stack # <<>> /\ Top.lines # <<>> /\ Head(Top.lines).key \in keys

(* The stack with that line taken.                                         *)
Taken == [stack EXCEPT ![Len(stack)].lines = Tail(@)]

ReadSection ==
  /\ Line({"section"})
  /\ stack' = [Taken EXCEPT ![Len(stack)].category = Head(Top.lines).val]
  /\ UNCHANGED <<content, pc, conf, todo, settings, io, hist>>

(* Mutant: a file that cannot be opened is tried again.                    *)
ReadIncludeAgain ==
  /\ Line({"include"})
  /\ LET file == Head(Top.lines).val IN
       read_cfg(Top.category, file,
                IF content[file] = Nil \/ fopen(io) = Nil THEN stack ELSE Taken)
  /\ UNCHANGED <<content, pc, conf, todo, settings, hist>>

(* .include, and .config after the download.                               *)
ReadInclude ==
  /\ Line({"include"})
  /\ read_cfg(Top.category, Head(Top.lines).val, Taken)
  /\ UNCHANGED <<content, pc, conf, todo, settings, hist>>

ReadBind ==
  /\ Line({"bind"})
  /\ stack' = Taken
  /\ kept' = [kept EXCEPT !.bind_addr = Head(Top.lines).val]
  /\ UNCHANGED <<content, pc, conf, todo, set, displays, gracetime, options, logfp, io, hist>>

(* Mutant: no limit.                                                       *)
ReadLineUnlimited ==
  /\ stack # <<>> /\ Top.lines # <<>>
  /\ ~Line({"section", "include", "bind"})
  /\ stack' = Taken
  /\ conf' = [conf EXCEPT ![Top.category] = Append(@, Head(Top.lines))]
  /\ UNCHANGED <<content, pc, todo, settings, io, hist>>

(* add_cfg: the section is created when it is new; a line that does not    *)
(* fit is cut off, and not seen by get_cfg as it has no end.               *)
ReadLine ==
  /\ stack # <<>> /\ Top.lines # <<>>
  /\ ~Line({"section", "include", "bind"})
  /\ stack' = Taken
  /\ conf' = IF Len(conf[Top.category]) < CfgMax
             THEN [conf EXCEPT ![Top.category] = Append(@, Head(Top.lines))]
             ELSE conf
  /\ UNCHANGED <<content, pc, todo, settings, io, hist>>

(* Mutant: the section reached in an included file goes on after it.       *)
EndOfFileLeaking ==
  /\ stack # <<>> /\ Top.lines = <<>>
  /\ stack' = IF Len(stack) = 1 THEN <<>>
              ELSE [Front(stack) EXCEPT ![Len(stack) - 1].category = Top.category]
  /\ io' = big_fclose(io, Top.fp, kept.debug)
  /\ UNCHANGED <<content, pc, conf, todo, settings, hist>>

EndOfFile ==
  /\ stack # <<>> /\ Top.lines = <<>>
  /\ stack' = Front(stack)
  /\ io' = big_fclose(io, Top.fp, kept.debug)
  /\ UNCHANGED <<content, pc, conf, todo, settings, hist>>

-----------------------------------------------------------------------------
(* readcfg.                                                                *)

(* Mutant: the log file is forgotten, not closed.                          *)
SetDefaultsLogOpen ==
  /\ pc = "main" /\ stack = <<>>
  /\ pc' = "readcfg"
  /\ todo' = conf["mrbig"]
  /\ set' = Defaults
  /\ displays' = <<>> /\ gracetime' = <<>> /\ options' = <<>>
  /\ logfp' = Nil
  /\ UNCHANGED <<content, stack, conf, kept, io, hist>>

(* The lists are emptied and the log file closed before the first line.    *)
SetDefaults ==
  /\ pc = "main" /\ stack = <<>>
  /\ pc' = "readcfg"
  /\ todo' = conf["mrbig"]
  /\ set' = Defaults
  /\ displays' = <<>> /\ gracetime' = <<>> /\ options' = <<>>
  /\ io' = IF logfp = Nil THEN io ELSE big_fclose(io, logfp, kept.debug)
  /\ logfp' = Nil
  /\ UNCHANGED <<content, stack, conf, kept, hist>>

(* The next line has one of these keys; it is taken.                       *)
Directive(keys) ==
  /\ pc = "readcfg" /\ todo # <<>> /\ Head(todo).key \in keys
  /\ todo' = Tail(todo)
  /\ UNCHANGED <<content, pc, stack, conf, before, stable>>

value == Head(todo).val

SetLine ==
  /\ Directive(DOMAIN Defaults)
  /\ set' = [set EXCEPT ![Head(todo).key] = value]
  /\ UNCHANGED <<kept, displays, gracetime, options, logfp, io, twice, late>>

(* debug, report_size, cfgdir: not among the defaults.                     *)
KeptLine ==
  /\ Directive({"debug", "report_size", "cfgdir"})
  /\ kept' = [kept EXCEPT ![Head(todo).key] = value]
  /\ late' = (late \/ (Head(todo).key = "debug" /\ logfp # Nil))
  /\ UNCHANGED <<set, displays, gracetime, options, logfp, io, twice>>

(* Mutant: a display without a port gets the default port.                 *)
DisplayLineDefault ==
  /\ Directive({"display"})
  /\ LET port == IF value.port = Nil THEN Defaults.port ELSE value.port
     IN  displays' = <<[addr |-> value.addr, port |-> port]>> \o displays
  /\ UNCHANGED <<set, kept, gracetime, options, logfp, io, twice, late>>

DisplayLine ==
  /\ Directive({"display"})
  /\ LET port == IF value.port = Nil THEN set.port ELSE value.port
     IN  displays' = <<[addr |-> value.addr, port |-> port]>> \o displays
  /\ UNCHANGED <<set, kept, gracetime, options, logfp, io, twice, late>>

GraceLine ==
  /\ Directive({"gracetime"})
  /\ gracetime' = <<value>> \o gracetime
  /\ UNCHANGED <<set, kept, displays, options, logfp, io, twice, late>>

OptionLine ==
  /\ Directive({"option"})
  /\ options' = <<value>> \o options
  /\ UNCHANGED <<set, kept, displays, gracetime, logfp, io, twice, late>>

(* The file of an earlier logfile line stays open.                         *)
LogLine ==
  /\ Directive({"logfile"})
  /\ logfp' = fopen(io)
  /\ io' = big_fopen(io, fopen(io), kept.debug)
  /\ twice' = (twice \/ logfp # Nil)
  /\ UNCHANGED <<set, kept, displays, gracetime, options, late>>

Keys ==
  DOMAIN Defaults \cup {"debug", "report_size", "cfgdir", "display", "gracetime", "option", "logfile"}

IgnoredLine ==
  /\ pc = "readcfg" /\ todo # <<>> /\ Head(todo).key \notin Keys
  /\ todo' = Tail(todo)
  /\ UNCHANGED <<content, pc, stack, conf, settings, io, hist>>

(* The loop is limited by the keep-alive interval.  The machine's name is  *)
(* written with commas; the value here stands for the name so written.     *)
readcfg_returns ==
  /\ pc = "readcfg" /\ todo = <<>>
  /\ pc' = "check"
  /\ set' = [set EXCEPT !.loop = Least({@, set.sleep})]
  /\ UNCHANGED <<content, stack, conf, todo, kept, displays, gracetime, options, logfp, io, hist>>

(* lookup_grace: the first entry of the list.                              *)
lookup_grace(test) ==
  LET entries == {n \in 1 .. Len(gracetime) : gracetime[n].test = test}
  IN  IF entries = {} THEN 0 ELSE gracetime[Least(entries)].grace

(* A check reads its own file, unless an option says it is not to run.     *)
get_option(name) == name \in ToSet(options)

Check ==
  /\ pc = "check"
  /\ pc' = "disk"
  /\ IF get_option("no_disk") THEN UNCHANGED <<stack, io>>
     ELSE read_cfg("disk", kept.cfgdir, <<>>)
  /\ UNCHANGED <<content, conf, todo, settings, hist>>

(* Mutant: the store is not emptied at the end of the pass.                *)
clear_cfg_never ==
  /\ pc = "disk" /\ stack = <<>>
  /\ pc' = "begin"
  /\ before' = [kept |-> kept, open |-> Cardinality(io.open)]
  /\ UNCHANGED <<content, stack, conf, todo, settings, io, stable, twice, late>>

clear_cfg ==
  /\ pc = "disk" /\ stack = <<>>
  /\ pc' = "begin"
  /\ conf' = EmptyStore
  /\ before' = [kept |-> kept, open |-> Cardinality(io.open)]
  /\ UNCHANGED <<content, stack, todo, settings, io, stable, twice, late>>

Pass ==
  /\ ~io.exited
  /\ \/ Begin \/ ReadSection \/ ReadInclude \/ ReadBind \/ ReadLine \/ EndOfFile
     \/ SetDefaults \/ SetLine \/ KeptLine \/ DisplayLine \/ GraceLine \/ OptionLine
     \/ LogLine \/ IgnoredLine \/ readcfg_returns
     \/ Check \/ clear_cfg

(* The administrator writes the files.  It makes no difference unless a    *)
(* file is about to be opened, so that is when it happens here.            *)
Edit ==
  /\ pc \in {"begin", "check"} \/ Line({"include"})
  /\ content' \in Contents
  /\ stable' = FALSE
  /\ UNCHANGED <<pc, stack, conf, todo, settings, io, before, twice, late>>

(* The agent is started again, after an exit or for another reason.        *)
Restart ==
  /\ pc' = "begin" /\ stack' = <<>> /\ conf' = EmptyStore /\ todo' = <<>>
  /\ set' = Defaults /\ kept' \in {AtStart(d) : d \in Debugs}
  /\ displays' = <<>> /\ gracetime' = <<>> /\ options' = <<>>
  /\ logfp' = Nil /\ io' = NoFiles
  /\ before' = [kept |-> kept', open |-> 0]
  /\ stable' = TRUE /\ twice' = FALSE /\ late' = FALSE
  /\ UNCHANGED content

Next == Pass \/ Edit \/ Restart

Spec == Init /\ [][Next]_vars

(* The worker thread runs.                                                 *)
FairSpec == Spec /\ WF_vars(Pass)

-----------------------------------------------------------------------------
LinesOf(lines, key) == {n \in 1 .. Len(lines) : lines[n].key = key}

(* The open files, the list and the store are well formed, and the calls   *)
(* of read_cfg have a FILE each, none of them the log file's.              *)
TypeOK ==
  /\ content \in Contents
  /\ pc \in {"begin", "main", "readcfg", "check", "disk"}
  /\ io \in FileStates
  /\ DOMAIN conf = Sections /\ \A s \in Sections : Len(conf[s]) <= CfgMax
  /\ DOMAIN set = DOMAIN Defaults
  /\ \A n \in 1 .. Len(stack) :
       /\ stack[n].category \in Sections
       /\ stack[n].fp \in io.open \ {logfp}
       /\ \A m \in 1 .. n - 1 : stack[m].fp # stack[n].fp

(* The value of the last line with that key above line n, or d.            *)
LastOf(lines, key, n, d) ==
  LET at == {m \in LinesOf(lines, key) : m < n}
  IN  IF at = {} THEN d ELSE lines[CHOOSE m \in at : \A k \in at : k <= m].val

(* The section a line of c is in, when c is included in section cat: the   *)
(* last header above it in the same file, if there is one.                 *)
SectionAt(c, n, cat) == LastOf(c, "section", n, cat)

(* Two parts of the configuration, one read behind the other.              *)
Joined(a, b) == [s \in Sections |-> a[s] \o b[s]]

(* What line m of a file stands for, and the lines up to line n, when the  *)
(* file is included in section cat and included[f][s] is what a file f     *)
(* stands for that is included in section s.                               *)
Part(lines, m, cat, included) ==
  CASE lines[m].key = "include" -> included[lines[m].val][SectionAt(lines, m, cat)]
    [] lines[m].key \in {"section", "bind"} -> EmptyStore
    [] OTHER -> [EmptyStore EXCEPT ![SectionAt(lines, m, cat)] = <<lines[m]>>]

Upto(lines, n, cat, included) ==
  LET upto[m \in 0 .. Len(lines)] ==
        IF m = 0 THEN EmptyStore ELSE Joined(upto[m - 1], Part(lines, m, cat, included))
  IN  upto[n]

(* The lines a file stands for, by section, when n more files can be open: *)
(* every line is in the section of its own file or of the line that        *)
(* includes the file, and what a file includes comes in its place.         *)
Expansion(files, n) ==
  LET deep[k \in 0 .. MaxOpen] ==
        [f \in Files |-> [cat \in Sections |->
           IF k = 0 \/ files[f] = Nil THEN EmptyStore
           ELSE Upto(files[f], Len(files[f]), cat, deep[k - 1])]]
  IN  deep[n]

Capped(lines) == [n \in 1 .. (IF Len(lines) < CfgMax THEN Len(lines) ELSE CfgMax) |-> lines[n]]

InStore(part) == [s \in Sections |-> Capped(part[s])]

(* What a pass reads first, and whether it says that the check is not run. *)
MainPart == Expansion(content, MaxOpen - before.open)[mrbig_cfg]["mrbig"]

CheckIsOff ==
  \E n \in LinesOf(Capped(MainPart["mrbig"]), "option") : MainPart["mrbig"][n].val = "no_disk"

(* What a check finds in the store is what the files say, in order and in  *)
(* the right sections, however they include each other: nothing of the     *)
(* pass before, nothing of a section an included file ended with, and      *)
(* nothing missing, unless a section is full or no file can be opened.     *)
StoreIsFiles ==
  pc = "disk" /\ stack = <<>> /\ stable /\ ~io.exited =>
    conf = InStore(
      IF CheckIsOff THEN MainPart
      ELSE Joined(MainPart,
                  Expansion(content, MaxOpen - Cardinality(io.open))[kept.cfgdir]["disk"]))

(* What readcfg makes of its lines: a setting has the value of its last    *)
(* line, or its default, or, for the ones without a default, the value it  *)
(* had before; the options are those of the lines; a display has its own   *)
(* port, or the one of the last port line above it; the last gracetime     *)
(* line of a test counts.  Excepted is what mrbig.cfg.dist tells otherwise *)
(* than the code does: a configuration without a display line, which it    *)
(* says (20) leaves the display at 127.0.0.1, and one without a cfgdir     *)
(* line, which it says (41) leaves cfgdir at the install directory.        *)
SettingsFollowLines ==
  pc = "check" /\ ~io.exited =>
    LET lines == conf["mrbig"]
        Final(key, d) == LastOf(lines, key, Len(lines) + 1, d)
        shown == LinesOf(lines, "display")
    IN  /\ \A k \in DOMAIN Defaults \ {"loop"} : set[k] = Final(k, Defaults[k])
        /\ set.loop = Least({Final("loop", INT_MAX), set.sleep})
        /\ \A k \in {"debug", "report_size", "cfgdir"} :
             k # "cfgdir" \/ LinesOf(lines, k) # {} => kept[k] = Final(k, before.kept[k])
        /\ ToSet(options) = {lines[n].val : n \in LinesOf(lines, "option")}
        /\ shown # {} =>
             /\ Len(displays) = Cardinality(shown)
             /\ ToSet(displays) =
                  {[addr |-> lines[n].val.addr,
                    port |-> IF lines[n].val.port # Nil THEN lines[n].val.port
                             ELSE LastOf(lines, "port", n, 1984)] : n \in shown}
        /\ \A n \in LinesOf(lines, "gracetime") :
             (\A m \in LinesOf(lines, "gracetime") :
                m > n => lines[m].val.test # lines[n].val.test) =>
               lookup_grace(lines[n].val.test) = lines[n].val.grace

(* The agent does not lose files: between two passes only the log file is  *)
(* open, unless a configuration had two logfile lines, the first of whose  *)
(* files is never closed.                                                  *)
NoFileLost ==
  pc = "begin" /\ ~twice => io.open \subseteq {logfp}

(* The list agrees with the files, whatever the debug level becomes: as    *)
(* long as no configuration changed it below its logfile line, the list    *)
(* never names a closed file or one file twice, is complete at debug 2,    *)
(* and nothing is ever written past its end.                               *)
TableIsTrue ==
  ~late =>
    /\ ~io.stray
    /\ \A n \in 1 .. Slots : io.files[n] # Nil => io.files[n] \in io.open
    /\ \A m, n \in 1 .. Slots : io.files[m] = io.files[n] => m = n \/ io.files[m] = Nil
    /\ kept.debug >= 2 /\ ~twice /\ ~io.exited =>
         \A fp \in io.open : SlotsWith(io, fp) # {}

(* Every pass ends, even if a file includes itself.                        *)
PassEnds == []<>(pc = "begin" \/ io.exited)

=============================================================================
