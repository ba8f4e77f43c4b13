--------------------------- MODULE StatusTracker ---------------------------
(***************************************************************************)
(* The status tracker of the agent: insert_status and mrsend of mrbig.c.   *)
(* Every test of the main loop (cpu, disk, memory, msgs, procs, svcs, wmi, *)
(* the external tests) calls mrsend(machine, test, color, message); the    *)
(* tracker keeps the last reported colour of each (machine, test) pair and *)
(* decides whether a report goes to the displays at all and, if it does,   *)
(* whether it shows the real colour or is masked as green because the      *)
(* test's grace time has not run out.                                      *)
(*                                                                         *)
(* The clock is the machine's wall clock: it advances between two calls    *)
(* and an administrator may set it back.  readcfg is called at the start   *)
(* of every pass of the main loop, so the keep-alive interval mrsleep and  *)
(* the grace times may change between two calls.  The list teststatus      *)
(* lives in memory: a restart of the agent forgets it.                     *)
(***************************************************************************)
EXTENDS Integers

CONSTANTS
  Machines,   \* names of the machines reported about
  Tests,      \* names of the tests
  Colors,     \* the colours a test may report
  Sleeps,     \* values "sleep" may have in the configuration
  Graces,     \* values "gracetime" may have for a test; 0 when it has no line
  MaxTime,    \* bound: the clock is a number of seconds in 1..MaxTime
  Nil         \* no entry (teststatus), no report yet (sent)

Keys == Machines \X Tests

Time == 1 .. MaxTime

(* One node of the list teststatus: the colour believed to be shown, the   *)
(* time it was last reported, and the deadline of a held alarm (0: none).  *)
Status == [color : Colors, last : Int, grace : Int]

(* What was last handed to send_update about a test, and when.             *)
Report == [color : Colors, at : Int]

(* Colours are compared with the literal "green"; the model's clock starts *)
(* at 1, as a deadline of 0 stands for "no deadline" in the code.          *)
ASSUME TrackerAssumption ==
  /\ "green" \in Colors
  /\ MaxTime \in Nat \ {0}
  /\ Sleeps \subseteq Nat
  /\ Graces \subseteq Nat
  /\ Nil \notin Status
  /\ Nil \notin Report

VARIABLES
  now,         \* time(NULL)
  mrsleep,     \* the keep-alive interval, as last read by readcfg
  gracetime,   \* what lookup_grace returns for each test, as last read
  teststatus,  \* the list of known tests, one node per key at most
  sent         \* history: the last report about each key given to send_update

vars == <<now, mrsleep, gracetime, teststatus, sent>>

(* The type of the tracker's state: every entry carries a colour, a time   *)
(* of the clock and a deadline that is never negative.                     *)
TypeOK ==
  /\ now \in Time
  /\ mrsleep \in Sleeps
  /\ gracetime \in [Tests -> Graces]
  /\ teststatus \in [Keys -> [color : Colors, last : Time, grace : Nat] \cup {Nil}]
  /\ sent \in [Keys -> [color : Colors, at : Time] \cup {Nil}]

Init ==
  /\ now \in Time
  /\ mrsleep \in Sleeps
  /\ gracetime \in [Tests -> Graces]
  /\ teststatus = [k \in Keys |-> Nil]
  /\ sent = [k \in Keys |-> Nil]

-----------------------------------------------------------------------------
(* insert_status.  Each definition is one return of the function; r is the *)
(* value it returns: 0 nothing to report, 1 report green, 2 report the     *)
(* colour itself.  Grace times are configured per test, for all machines.  *)

lookup_grace(k) == gracetime[k[2]]

Store(k, c, g) ==
  teststatus' = [teststatus EXCEPT ![k] = [color |-> c, last |-> now, grace |-> g]]

(* Mutant: the node's grace field is left as big_malloc returned it.       *)
NewTestUnset(k, c, r) ==
  /\ teststatus[k] = Nil
  /\ Store(k, c, -1)
  /\ r = 2

NewTest(k, c, r) ==
  /\ teststatus[k] = Nil
  /\ Store(k, c, 0)
  /\ r = 2

TimeDecreased(k, c, r) ==
  /\ teststatus[k] # Nil
  /\ c = teststatus[k].color
  /\ now < teststatus[k].last
  /\ Store(k, c, 0)
  /\ r = 2

(* Mutant: the keep-alive does not cancel the deadline.                    *)
SleepExceededKeepsGrace(k, c, r) ==
  /\ teststatus[k] # Nil
  /\ c = teststatus[k].color
  /\ now - teststatus[k].last >= mrsleep
  /\ now >= teststatus[k].last
  /\ Store(k, c, teststatus[k].grace)
  /\ r = 2

SleepExceeded(k, c, r) ==
  /\ teststatus[k] # Nil
  /\ c = teststatus[k].color
  /\ now - teststatus[k].last >= mrsleep
  /\ now >= teststatus[k].last
  /\ Store(k, c, 0)
  /\ r = 2

(* Mutant: one second too long without a report.                           *)
NoNeedOffByOne(k, c, r) ==
  /\ teststatus[k] # Nil
  /\ c = teststatus[k].color
  /\ now >= teststatus[k].last
  /\ now - teststatus[k].last <= mrsleep
  /\ UNCHANGED teststatus
  /\ r = 0

NoNeed(k, c, r) ==
  /\ teststatus[k] # Nil
  /\ c = teststatus[k].color
  /\ now >= teststatus[k].last
  /\ now - teststatus[k].last < mrsleep
  /\ UNCHANGED teststatus
  /\ r = 0

(* Mutant: a recovery is recorded but not reported.                        *)
BecameGreenQuietly(k, c, r) ==
  /\ teststatus[k] # Nil
  /\ c # teststatus[k].color
  /\ c = "green"
  /\ Store(k, c, 0)
  /\ r = 0

BecameGreen(k, c, r) ==
  /\ teststatus[k] # Nil
  /\ c # teststatus[k].color
  /\ c = "green"
  /\ Store(k, c, 0)
  /\ r = 2

WasNotGreen(k, c, r) ==
  /\ teststatus[k] # Nil
  /\ c # teststatus[k].color
  /\ c # "green"
  /\ teststatus[k].color # "green"
  /\ Store(k, c, 0)
  /\ r = 2

(* Mutant: the clock starts ticking anew at every observation.             *)
DeadlineMoves(k) == now + lookup_grace(k)

(* The deadline of an alarm: the one already ticking, or a new one.        *)
Deadline(k) ==
  IF teststatus[k].grace = 0 THEN now + lookup_grace(k) ELSE teststatus[k].grace

(* Old status green, new status not: fire when the deadline has passed ... *)
GraceExpired(k, c, r) ==
  /\ teststatus[k] # Nil
  /\ c # "green"
  /\ teststatus[k].color = "green"
  /\ now >= Deadline(k)
  /\ Store(k, c, Deadline(k))
  /\ r = 2

(* Mutant: the held colour is recorded although green is reported.         *)
SitOnHandsStoresColor(k, c, r) ==
  /\ teststatus[k] # Nil
  /\ c # "green"
  /\ teststatus[k].color = "green"
  /\ now < Deadline(k)
  /\ Store(k, c, Deadline(k))
  /\ r = 1

(* ... and hold the alarm, refreshing the green report, until then.        *)
SitOnHands(k, c, r) ==
  /\ teststatus[k] # Nil
  /\ c # "green"
  /\ teststatus[k].color = "green"
  /\ now < Deadline(k)
  /\ Store(k, "green", Deadline(k))
  /\ r = 1

insert_status(k, c, r) ==
  \/ NewTest(k, c, r)
  \/ TimeDecreased(k, c, r)
  \/ SleepExceeded(k, c, r)
  \/ NoNeed(k, c, r)
  \/ BecameGreen(k, c, r)
  \/ WasNotGreen(k, c, r)
  \/ GraceExpired(k, c, r)
  \/ SitOnHands(k, c, r)

-----------------------------------------------------------------------------
(* The message handed to send_update.                                      *)
send_update(k, c) == sent' = [sent EXCEPT ![k] = [color |-> c, at |-> now]]

(* mrsend: record the status, then report nothing, "green" or the colour,  *)
(* as the verdict is of insert_status says.                                *)
mrsend(k, c, is) ==
  /\ insert_status(k, c, is)
  /\ \/ is = 0 /\ UNCHANGED sent
     \/ is = 1 /\ send_update(k, "green")
     \/ is = 2 /\ send_update(k, c)
  /\ UNCHANGED <<now, mrsleep, gracetime>>

(* readcfg: the part of it the tracker depends on.                         *)
readcfg ==
  /\ mrsleep' \in Sleeps
  /\ gracetime' \in [Tests -> Graces]
  /\ UNCHANGED <<now, teststatus, sent>>

(* The clock between two calls: it advances, or somebody sets it back.     *)
ClockAdvances ==
  /\ now' \in Time
  /\ now' > now
  /\ UNCHANGED <<mrsleep, gracetime, teststatus, sent>>

ClockSetBack ==
  /\ now' \in Time
  /\ now' < now
  /\ UNCHANGED <<mrsleep, gracetime, teststatus, sent>>

(* The agent stops and starts again: the static list starts out empty.     *)
Restart ==
  /\ teststatus' = [k \in Keys |-> Nil]
  /\ UNCHANGED <<now, mrsleep, gracetime, sent>>

Next ==
  \/ \E k \in Keys, c \in Colors, is \in {0, 1, 2} : mrsend(k, c, is)
  \/ readcfg
  \/ ClockAdvances
  \/ ClockSetBack
  \/ Restart

Spec == Init /\ [][Next]_vars

-----------------------------------------------------------------------------
(* What the tracker believes was reported is what was handed to the        *)
(* displays: the same colour, at the same time.  It is what makes "no      *)
(* change, nothing to do" (mrsend) correct: insert_status compares with    *)
(* its own copy, never with what was sent.                                 *)
BelievedIsSent ==
  \A k \in Keys :
    teststatus[k] # Nil =>
      /\ sent[k] # Nil
      /\ sent[k].color = teststatus[k].color
      /\ sent[k].at = teststatus[k].last

=============================================================================
