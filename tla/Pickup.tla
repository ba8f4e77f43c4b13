------------------------------- MODULE Pickup -------------------------------
(***************************************************************************)
(* ext_tests of ext_test.c: the external commands run one after the other, *)
(* each for two minutes at most; then every file in the pickup directory   *)
(* is read, removed and reported under the name it carries.                *)
(*                                                                         *)
(* The files are written in pieces by the commands and by processes nobody *)
(* waits for, the children of a terminated command among them.  A writer   *)
(* may close the file between two pieces; a file that is open cannot be    *)
(* removed.  A file is a sequence of pieces: the line with the colour,     *)
(* then the text.  The directory may refuse to be listed, a file to be     *)
(* opened (its access rights) or removed (read-only), whoever writes.      *)
(***************************************************************************)
EXTENDS Integers, Sequences, FiniteSets

CONSTANTS
  PickupFiles, \* names: [machine, test]; machine is "" where there is no dot
  Command,     \* ext.cfg: the file each command writes, a sequence
  Loose,       \* the files that somebody else may write
  Long,        \* the files with a text longer than report_size
  mrmachine

ASSUME PickupAssumption ==
  /\ Loose \subseteq PickupFiles
  /\ Command \in Seq(PickupFiles)

Pieces == <<"color", "text">>
NoFile == [machine |-> "", test |-> ""]

VARIABLES
  ext_pc,   \* where ext_tests is; "idle" between two calls
  command,  \* index of the command that runs or runs next
  no_ext,   \* option no_ext
  exists,   \* the files in the pickup directory
  content,  \* per file, the pieces in it
  writer,   \* per file, who is writing it: "none", "command" or "other"
  written,  \* per file, how many pieces the writer has written
  held,     \* the files a writer has open
  found,    \* the files FindFirstFile and FindNextFile have returned
  reading,  \* the file pickup_file has open, or NoFile
  b,        \* what it read
  ext_sent, \* the reports of this call
  listed,   \* history: the files that were there when the listing began
  refused,  \* history: the files that did not open or were not listed
  stuck,    \* history: the files that were read but not removed
  finished, \* history: the files completed by a command that exited in time
  settled   \* history: complete files that no writer touches during the listing

ext_files == <<exists, content, writer, written, held>>
ext_agent == <<found, reading, b, ext_sent, listed, refused, stuck>>
ext_vars == <<ext_pc, command, no_ext, exists, content, writer, written, held,
              found, reading, b, ext_sent, listed, refused, stuck, finished, settled>>

ExtInit ==
  /\ ext_pc = "idle"
  /\ command = 1
  /\ no_ext = FALSE
  /\ exists = {}
  /\ content = [f \in PickupFiles |-> <<>>]
  /\ writer = [f \in PickupFiles |-> "none"]
  /\ written = [f \in PickupFiles |-> 0]
  /\ held = {}
  /\ found = {}
  /\ reading = NoFile
  /\ b = <<>>
  /\ ext_sent = <<>>
  /\ listed = {}
  /\ refused = {}
  /\ stuck = {}
  /\ finished = {}
  /\ settled = {}

-----------------------------------------------------------------------------
(* A writer creates its file, adds a piece, or closes it for good.  Before *)
(* and after each piece it may have the file closed; what was removed      *)
(* under a closed writer is created again by its next piece.               *)
BeginWriting(f, who) ==
  /\ writer[f] = "none"
  /\ writer' = [writer EXCEPT ![f] = who]
  /\ written' = [written EXCEPT ![f] = 0]
  /\ content' = [content EXCEPT ![f] = <<>>]
  /\ exists' = exists \union {f}
  /\ held' \in {held, held \union {f}}

AddPiece(f) ==
  /\ writer[f] # "none"
  /\ written[f] < Len(Pieces)
  /\ content' = [content EXCEPT ![f] =
                   Append(IF f \in exists THEN @ ELSE <<>>, Pieces[written[f] + 1])]
  /\ exists' = exists \union {f}
  /\ written' = [written EXCEPT ![f] = @ + 1]
  /\ held' \in {held \ {f}, held \union {f}}
  /\ UNCHANGED writer

EndWriting(f) ==
  /\ writer[f] # "none"
  /\ written[f] = Len(Pieces)
  /\ writer' = [writer EXCEPT ![f] = "none"]
  /\ held' = held \ {f}
  /\ UNCHANGED <<exists, content, written>>

(* Processes the agent does not wait for write at any time.                *)
OtherWrites ==
  /\ \E f \in PickupFiles :
       /\ \/ f \in Loose /\ BeginWriting(f, "other")
          \/ writer[f] = "other" /\ (AddPiece(f) \/ EndWriting(f))
       /\ settled' = settled \ {f}
       /\ finished' = finished \ {f}
  /\ UNCHANGED <<ext_pc, command, no_ext, ext_agent>>

-----------------------------------------------------------------------------
ExtCall ==
  /\ ext_pc = "idle"
  /\ ext_pc' = "commands"
  /\ command' = 1
  /\ no_ext' \in BOOLEAN
  /\ found' = {}
  /\ ext_sent' = <<>>
  /\ finished' = {}
  /\ settled' = {}
  /\ UNCHANGED <<ext_files, reading, b, listed, refused, stuck>>

(* CreateProcess; a command that does not start, or cannot write because a *)
(* child of an earlier one still does, is passed over.                     *)
StartCommand ==
  /\ ext_pc = "commands"
  /\ command <= Len(Command)
  /\ \/ /\ ext_pc' = "waiting"
        /\ BeginWriting(Command[command], "command")
        /\ finished' = finished \ {Command[command]}
        /\ UNCHANGED command
     \/ /\ command' = command + 1
        /\ UNCHANGED <<ext_pc, ext_files, finished>>
  /\ UNCHANGED <<no_ext, ext_agent, settled>>

CommandWrites ==
  /\ ext_pc = "waiting"
  /\ AddPiece(Command[command])
  /\ UNCHANGED <<ext_pc, command, no_ext, ext_agent, finished, settled>>

(* The command ends within two minutes.                                    *)
CommandExits ==
  /\ ext_pc = "waiting"
  /\ EndWriting(Command[command])
  /\ finished' = finished \union {Command[command]}
  /\ command' = command + 1
  /\ ext_pc' = "commands"
  /\ UNCHANGED <<no_ext, ext_agent, settled>>

(* WAIT_TIMEOUT and TerminateProcess, which spares a child that writes.    *)
CommandTimesOut ==
  /\ ext_pc = "waiting"
  /\ LET f == Command[command]
     IN \/ /\ writer' = [writer EXCEPT ![f] = "none"]
           /\ held' = held \ {f}
        \/ /\ writer' = [writer EXCEPT ![f] = "other"]
           /\ UNCHANGED held
  /\ command' = command + 1
  /\ ext_pc' = "commands"
  /\ UNCHANGED <<no_ext, exists, content, written, ext_agent, finished, settled>>

(* FindFirstFile, which may fail: then nothing is picked up.               *)
StartPickup ==
  /\ ext_pc = "commands"
  /\ command > Len(Command)
  /\ \/ ext_pc' = "pickup" /\ UNCHANGED refused
     \/ ext_pc' = "end" /\ refused' = PickupFiles
  /\ listed' = exists
  /\ settled' = finished \union
                {f \in exists : writer[f] = "none" /\ content[f] = Pieces}
  /\ UNCHANGED <<command, no_ext, ext_files, found, reading, b, ext_sent, stuck, finished>>

-----------------------------------------------------------------------------
(* fopen fails, because a writer does not share the file or for a reason   *)
(* of the system's.                                                        *)
RefuseOpen(f) ==
  /\ refused' = refused \union {f}
  /\ UNCHANGED <<ext_pc, reading, b>>

(* fread takes report_size-1 characters: of a long text the beginning.     *)
ReadFrom(f) ==
  [k \in 1 .. Len(content[f]) |->
     IF f \in Long /\ content[f][k] = "text" THEN "beginning" ELSE content[f][k]]

ReadFile(f) ==
  /\ ext_pc' = "opened"
  /\ reading' = f
  /\ b' = ReadFrom(f)
  /\ UNCHANGED refused

(* The next directory entry: a file is read, or passed over because of the *)
(* option or because it does not open.                                     *)
PickupOpen ==
  /\ ext_pc = "pickup"
  /\ \E f \in exists \ found :
       /\ found' = found \union {f}
       /\ \/ no_ext /\ UNCHANGED <<ext_pc, reading, b, refused>>
          \/ ~no_ext /\ (RefuseOpen(f) \/ ReadFile(f))
  /\ UNCHANGED <<command, no_ext, ext_files, ext_sent, listed, stuck, finished, settled>>

(* What is sent of a file, and of which (history).                         *)
Report(f, pieces) ==
  [file |-> f,
   machine |-> IF f.machine = "" THEN mrmachine ELSE f.machine,
   test |-> f.test,
   color |-> pieces[1],
   text |-> Tail(pieces)]

(* The result of remove is not looked at.                                  *)
RemoveWorks ==
  /\ reading \notin held
  /\ exists' = exists \ {reading}
  /\ UNCHANGED stuck

RemoveFails ==
  /\ stuck' = stuck \union {reading}
  /\ UNCHANGED exists

(* Removed if that can be done, and reported if it had a line.             *)
PickupSend ==
  /\ ext_pc = "opened"
  /\ RemoveWorks \/ RemoveFails
  /\ ext_sent' = IF b = <<>> THEN ext_sent ELSE Append(ext_sent, Report(reading, b))
  /\ reading' = NoFile
  /\ b' = <<>>
  /\ ext_pc' = "pickup"
  /\ UNCHANGED <<command, no_ext, content, writer, written, held, found, listed,
                 refused, finished, settled>>

(* Mutant: the last entry is not looked at.                                *)
PickupDoneEarly == Cardinality((listed \intersect exists) \ found) <= 1

(* The listing ends when every file that was there has been returned;      *)
(* files made since may or may not have been.                              *)
PickupDone == listed \intersect exists \subseteq found

PickupEnd ==
  /\ ext_pc = "pickup"
  /\ PickupDone
  /\ ext_pc' = "end"
  /\ UNCHANGED <<command, no_ext, ext_files, ext_agent, finished, settled>>

ExtReturn ==
  /\ ext_pc = "end"
  /\ ext_pc' = "idle"
  /\ ext_sent' = <<>>
  /\ refused' = {}
  /\ stuck' = {}
  /\ UNCHANGED <<command, no_ext, ext_files, found, reading, b, listed, finished, settled>>

ExtNext ==
  \/ OtherWrites \/ ExtCall \/ StartCommand \/ CommandWrites \/ CommandExits
  \/ CommandTimesOut \/ StartPickup \/ PickupOpen \/ PickupSend \/ PickupEnd
  \/ ExtReturn

ExtSpec == ExtInit /\ [][ExtNext]_ext_vars

-----------------------------------------------------------------------------
(* What of a complete file fits in the buffer.                             *)
Fits(f) == IF f \in Long THEN <<"color", "beginning">> ELSE Pieces

(* The status of a file, under the machine and test of its name.  A name   *)
(* with another machine in it is reported for that one, where EXT (14-16)  *)
(* says that the machine is always mrmachine: either will do here.         *)
IsReportOf(report, f) ==
  \/ report = Report(f, Fits(f))
  \/ f.machine # "" /\ report = [Report(f, Fits(f)) EXCEPT !.machine = mrmachine]

(* A status that was complete when the listing began, that of a command    *)
(* the agent waited for above all, is reported whole as far as report_size *)
(* goes, and once in the call; and is gone from the directory at the end.  *)
(* Excepted are a file somebody touched meanwhile, one the system refused  *)
(* to open, and, for being gone, one it refused to remove: that one is     *)
(* reported in every pass.                                                 *)
PickedUpOnce ==
  ext_pc = "end" /\ ~no_ext =>
    \A f \in settled \ refused :
      LET mine == {k \in 1 .. Len(ext_sent) : ext_sent[k].file = f}
      IN /\ Cardinality(mine) = 1
         /\ \A k \in mine : IsReportOf(ext_sent[k], f)
         /\ f \in exists => f \in stuck
=============================================================================
