----------------------------- MODULE Inventory ------------------------------
(***************************************************************************)
(* The process and service checks: procs.c and svcs.c.  Each takes its     *)
(* section of the configuration, counts what runs, judges the lines from   *)
(* the last to the first, collects them in one report per machine, and     *)
(* sends the reports; the agent's own machine always has one.              *)
(*                                                                         *)
(* A line is [name, quoted, nums, machine]: nums are the numbers it gives  *)
(* (up to two for a process, one for a service), machine is NoMachine     *)
(* where it gives none; only a line with all its numbers has one.  Quotes  *)
(* make a service name a display name and a process name no different.     *)
(***************************************************************************)
EXTENDS Integers, Sequences, FiniteSets

CONSTANTS
  OwnMachine,   \* mrmachine
  Comma,        \* per machine name on a line, the name with dots made commas
  Fold,         \* per name, the name that stands for all its spellings
  ProcLines,    \* what the procs section may be: sequences of lines
  SvcLines,     \* what the svcs section may be
  ProcessLists, \* what may run: sequences of [name, opens]
  ServiceLists, \* what may be installed: sequences of [name, display, status]
  MaxProcesses  \* room in aProcesses (1024 in the code)

SERVICE_RUNNING == 4
NoMachine == ""
Unknown == "<unknown>"

Process == [name : DOMAIN Fold, opens : BOOLEAN]

ASSUME InventoryAssumption ==
  /\ MaxProcesses \in Nat
  /\ ProcLines \union SvcLines \subseteq
       Seq([name : DOMAIN Fold, quoted : BOOLEAN, nums : Seq(Int),
            machine : {NoMachine} \union DOMAIN Comma])
  /\ \A lines \in ProcLines : \A k \in 1 .. Len(lines) : Len(lines[k].nums) <= 2
  /\ \A lines \in SvcLines : \A k \in 1 .. Len(lines) :
       /\ Len(lines[k].nums) <= 1
       /\ lines[k].machine # NoMachine => Len(lines[k].nums) = 1
  /\ ProcessLists \subseteq Seq(Process)
  /\ Unknown \in DOMAIN Fold

VARIABLES
  inv_pc,  \* "idle", "lines" or "send"
  test,    \* "procs" or "svcs"
  config,  \* the lines still to be judged, the last of the section first
  running, \* the processes that run, or the services that are installed
  got,     \* their list could be had
  reports, \* the list of reports, [machine, color]
  inv_sent,\* the reports of this call that were sent, in their order
  section  \* history: the section as it is written

inv_vars == <<inv_pc, test, config, running, got, reports, inv_sent, section>>

Own(color) == [machine |-> OwnMachine, color |-> color]

InvInit ==
  /\ inv_pc = "idle"
  /\ test = "procs"
  /\ config = <<>>
  /\ running = <<>>
  /\ got = FALSE
  /\ reports = <<>>
  /\ inv_sent = <<>>
  /\ section = <<>>

-----------------------------------------------------------------------------
Backwards(s) == [k \in 1 .. Len(s) |-> s[Len(s) + 1 - k]]

MachineOf(line) == IF line.machine = NoMachine THEN OwnMachine ELSE Comma[line.machine]

(* min is 1 unless given, max is min unless given.                         *)
ProcEntry(line) ==
  LET n == Len(line.nums)
      min == IF n < 1 THEN 1 ELSE line.nums[1]
  IN [name |-> line.name, machine |-> MachineOf(line),
      wanted |-> min .. (IF n < 2 THEN min ELSE line.nums[2])]

read_proccfg(lines) == Backwards([k \in 1 .. Len(lines) |-> ProcEntry(lines[k])])

Given(line) == Len(line.nums) + (IF line.machine = NoMachine THEN 0 ELSE 1)

(* How many items sscanf has found when line k has been read: those of the *)
(* last line it was called for.  It is not called for a quoted name with   *)
(* nothing behind it.                                                      *)
Items(lines, k) ==
  LET scanned == {j \in 1 .. k : ~lines[j].quoted \/ Given(lines[j]) > 0}
      last == CHOOSE j \in scanned : \A i \in scanned : i <= j
  IN IF scanned = {} THEN 0
     ELSE Given(lines[last]) + (IF lines[last].quoted THEN 0 ELSE 1)

SvcEntry(lines, k) ==
  LET line == lines[k]
      few == Items(lines, k) < (IF line.quoted THEN 1 ELSE 2)
      status == IF few THEN SERVICE_RUNNING
                ELSE IF line.nums = <<>> THEN 0 ELSE line.nums[1]
  IN [name |-> line.name, machine |-> MachineOf(line), wanted |-> {status}]

read_svccfg(lines) == Backwards([k \in 1 .. Len(lines) |-> SvcEntry(lines, k)])

Mixed(lines) ==
  \E j, k \in 1 .. Len(lines) : lines[j].quoted /\ ~lines[k].quoted

(* With one service name on a line, services are looked up by that.        *)
ByServiceName(lines) == \E k \in 1 .. Len(lines) : ~lines[k].quoted

(* A process that cannot be opened, or looked into, keeps its name to      *)
(* itself.                                                                 *)
Seen(process) == IF process.opens THEN process.name ELSE Unknown

(* lookup_procname and store_procname: spellings count together; there is  *)
(* room for so many processes only.                                        *)
count(list, name) ==
  Cardinality({k \in 1 .. Len(list) : k <= MaxProcesses /\ Fold[Seen(list[k])] = Fold[name]})

(* lookup_svcname: the last service of that name, and 0 when there is none.*)
status(list, lines, name) ==
  LET key(s) == IF ByServiceName(lines) THEN s.name ELSE s.display
      hits == {k \in 1 .. Len(list) : Fold[key(list[k])] = Fold[name]}
  IN IF hits = {} THEN 0
     ELSE list[CHOOSE k \in hits : \A j \in hits : j <= k].status

(* Mutant: each line sets the colour.                                      *)
TakeLineLast(sofar, machine, ok) ==
  LET mine == {k \in 1 .. Len(sofar) : sofar[k].machine = machine}
      report == [machine |-> machine, color |-> IF ok THEN "green" ELSE "red"]
  IN IF mine = {} THEN <<report>> \o sofar
     ELSE [k \in 1 .. Len(sofar) |-> IF k \in mine THEN report ELSE sofar[k]]

(* A report takes a line; the first line of a new machine makes one, in    *)
(* front of the others.  Only a line that fails changes the colour.        *)
TakeLine(sofar, machine, ok) ==
  LET mine == {k \in 1 .. Len(sofar) : sofar[k].machine = machine}
      color == IF ok THEN "green" ELSE "red"
  IN IF mine = {} THEN <<[machine |-> machine, color |-> color]>> \o sofar
     ELSE [k \in 1 .. Len(sofar) |->
             IF k \in mine /\ ~ok THEN [sofar[k] EXCEPT !.color = "red"] ELSE sofar[k]]

-----------------------------------------------------------------------------
(* option no_procs or no_svcs.                                             *)
InvDisabled ==
  /\ inv_pc = "idle"
  /\ test' \in {"procs", "svcs"}
  /\ inv_sent' = <<Own("clear")>>
  /\ section' = <<>>
  /\ got' = FALSE
  /\ UNCHANGED <<inv_pc, config, running, reports>>

(* Without a list of processes nothing is counted: every count is 0.       *)
Procs ==
  /\ inv_pc = "idle"
  /\ test' = "procs"
  /\ section' \in ProcLines
  /\ config' = read_proccfg(section')
  /\ \/ got' = TRUE /\ running' \in ProcessLists
     \/ got' = FALSE /\ running' = <<>>
  /\ reports' = <<Own("green")>>
  /\ inv_sent' = <<>>
  /\ inv_pc' = "lines"

(* Without a list of services, or with an empty one, no line is judged.    *)
Svcs ==
  /\ inv_pc = "idle"
  /\ test' = "svcs"
  /\ section' \in SvcLines
  /\ config' = read_svccfg(section')
  /\ \/ got' = TRUE /\ running' \in ServiceLists \ {<<>>}
     \/ got' = FALSE /\ running' = <<>>
  /\ reports' = <<Own(IF Mixed(section') \/ ~got' THEN "red" ELSE "green")>>
  /\ inv_sent' = <<>>
  /\ inv_pc' = IF got' THEN "lines" ELSE "send"

InvLine ==
  /\ inv_pc = "lines"
  /\ config # <<>>
  /\ LET pc == Head(config)
         m == IF test = "procs" THEN count(running, pc.name)
              ELSE status(running, section, pc.name)
     IN reports' = TakeLine(reports, pc.machine, m \in pc.wanted)
  /\ config' = Tail(config)
  /\ UNCHANGED <<inv_pc, test, running, got, inv_sent, section>>

InvLinesDone ==
  /\ inv_pc = "lines"
  /\ config = <<>>
  /\ inv_pc' = "send"
  /\ UNCHANGED <<test, config, running, got, reports, inv_sent, section>>

InvSend ==
  /\ inv_pc = "send"
  /\ reports # <<>>
  /\ inv_sent' = Append(inv_sent, Head(reports))
  /\ reports' = Tail(reports)
  /\ inv_pc' = IF Len(reports) = 1 THEN "idle" ELSE "send"
  /\ UNCHANGED <<test, config, running, got, section>>

InvNext == InvDisabled \/ Procs \/ Svcs \/ InvLine \/ InvLinesDone \/ InvSend

InvSpec == InvInit /\ [][InvNext]_inv_vars

-----------------------------------------------------------------------------
(* What line k asks for, read as mrbig.cfg.dist explains it.               *)
Asked(k) ==
  LET nums == section[k].nums
  IN IF test = "procs"
     THEN IF nums = <<>> THEN {1} ELSE nums[1] .. nums[Len(nums)]
     ELSE IF nums = <<>> THEN {SERVICE_RUNNING} ELSE {nums[1]}

Answer(k) ==
  LET name == section[k].name
  IN IF test = "procs"
     THEN Cardinality({j \in 1 .. Len(running) : Fold[running[j].name] = Fold[name]})
     ELSE status(running, section, name)

(* A quoted name alone on its line, with something on a line before it, is *)
(* expected not to be installed (svcs.c:105-107): a divergence of its own. *)
Misread(k) ==
  /\ test = "svcs"
  /\ section[k].quoted
  /\ section[k].nums = <<>>
  /\ Items(section, k) # 0

(* A process that cannot be opened is missed by the line that asks for it, *)
(* and found by one that asks for the unknown (procs.c:201).               *)
Hidden(k) ==
  /\ test = "procs"
  /\ \E j \in 1 .. Len(running) :
       ~running[j].opens /\ Fold[section[k].name] \in {Fold[running[j].name], Fold[Unknown]}

(* Once a call has ended that could get its list of services, or of no     *)
(* more processes than there is room for, and saw each process a line asks *)
(* for: every machine on a line, and the agent's own, has had one report   *)
(* and no second one; it is red exactly when one of the machine's lines is *)
(* not met, in whatever order they stand; the agent's own is red also for  *)
(* a forbidden mixture.                                                    *)
MachinesJudged ==
  inv_pc = "idle" /\ section # <<>> /\ got
    /\ (test = "procs" => Len(running) <= MaxProcesses)
    /\ (\A k \in 1 .. Len(section) : ~Misread(k) /\ ~Hidden(k))
  => /\ {inv_sent[k] : k \in 1 .. Len(inv_sent)} =
          {[machine |-> m,
            color |-> IF \/ \E k \in 1 .. Len(section) :
                              MachineOf(section[k]) = m /\ Answer(k) \notin Asked(k)
                         \/ test = "svcs" /\ Mixed(section) /\ m = OwnMachine
                      THEN "red" ELSE "green"] :
           m \in {OwnMachine} \union {MachineOf(section[k]) : k \in 1 .. Len(section)}}
     /\ \A j, k \in 1 .. Len(inv_sent) : inv_sent[j].machine = inv_sent[k].machine => j = k
=============================================================================
