----------------------------- MODULE AgentLoop -----------------------------
(***************************************************************************)
(* The main loop of the agent, mrbig() of mrbig.c, around the status       *)
(* tracker.  A pass reads the configuration, takes the time, runs the      *)
(* checks one after the other, each of which hands its colour to mrsend,   *)
(* and sleeps for what is left of mrloop, but never less than SLEEP_MIN.   *)
(* A report may be lost on its way: send_update has no result, and the     *)
(* tracker counts the report as made.                                      *)
(*                                                                         *)
(* Real time is what the history variables count; now is the wall clock,   *)
(* which somebody may set back.                                            *)
(***************************************************************************)
EXTENDS StatusTracker

CONSTANTS
  NTests,      \* number of checks; Tests is 1..NTests, in the order they run
  Loops,       \* values "loop" may have; INT_MAX, the default, is any large one
  SLEEP_MIN,   \* seconds a pass sleeps at least (10 in the code)
  MaxWork,     \* seconds a check, or a report, may take
  MaxFetch,    \* seconds read_cfg may take
  MaxSetBacks  \* bound: how often the clock is set back between two restarts

ASSUME LoopAssumption ==
  /\ NTests \in Nat /\ Tests = 1 .. NTests
  /\ \A m, n \in Machines : m = n
  /\ Loops \subseteq Int
  /\ \E l \in Loops : \A n \in Loops : n <= l
  /\ \E s \in Sleeps : \A n \in Sleeps : n <= s
  /\ SLEEP_MIN \in Nat \ {0}
  /\ MaxWork \in Nat
  /\ MaxFetch \in Nat
  /\ MaxSetBacks \in Nat

VARIABLES
  pc,          \* where the main loop is
  test,        \* the check it has come to
  mrloop,      \* seconds between two passes
  lastrun,     \* the wall clock when the pass began
  shown,       \* what the display shows of a test
  age,         \* history: seconds since a test was reported, or the start
  quiet,       \* history: seconds since a report was lost, or the start
  since,       \* history: seconds since the last pass began
  setbacks     \* history: how often the clock was set back

loop == <<pc, test, mrloop, lastrun>>
hist == <<age, quiet, since, setbacks>>
tracker == <<mrsleep, gracetime, teststatus, sent>>
lvars == <<vars, loop, shown, hist>>

Shorter(a, b) == IF a < b THEN a ELSE b
Longer(a, b) == IF a > b THEN a ELSE b

Largest(S) == CHOOSE n \in S : \A m \in S : m <= n

(* Mutant: mrloop is not limited by mrsleep.                               *)
LimitedNever(l, sleep) == l

(* "if (mrloop > mrsleep) mrloop = mrsleep"                                *)
Limited(l, sleep) == Shorter(l, sleep)

(* The longest a pass can take, and the longest from one to the next: when *)
(* the clock was set back, the time of the pass is not made up for.        *)
PassTime == (NTests + 1) * MaxWork

LongestLoop == Shorter(Largest(Loops), Largest(Sleeps))

Period(late) ==
  MaxFetch + IF late THEN Longer(LongestLoop, SLEEP_MIN) + PassTime
                     ELSE Longer(LongestLoop, PassTime + SLEEP_MIN)

(* A test waits as long as it finds mrsleep not over.                      *)
Wait == Longer(Largest(Sleeps), 1) - 1

(* Two observations of a test lie a period apart, give or take the work    *)
(* before it.  The one that finds mrsleep not quite over waits for the     *)
(* next; and each time the clock is set back the count may begin anew.     *)
Gap(n) == n * (Wait + Period(TRUE)) + Wait + Period(FALSE) + NTests * MaxWork

LInit ==
  /\ Init
  /\ now = 1
  /\ pc = "fetch"
  /\ test = 1
  /\ mrloop = 0
  /\ lastrun = now
  /\ shown = [k \in Keys |-> Nil]
  /\ age = [k \in Keys |-> 0]
  /\ quiet = 0
  /\ since = 0
  /\ setbacks = 0

(* d seconds go by, of a pass that began s seconds before.  (quiet counts  *)
(* no further than it matters.)                                            *)
Elapse(d, s) ==
  /\ now' = now + d
  /\ now' \in Time
  /\ age' = [k \in Keys |-> age[k] + d]
  /\ quiet' = Shorter(quiet + d, Gap(MaxSetBacks) + 1)
  /\ since' = s + d

-----------------------------------------------------------------------------
(* A pass.                                                                 *)

(* read_cfg, with the download of a .config line if there is one.          *)
Fetch(d) ==
  /\ pc = "fetch"
  /\ pc' = "readcfg"
  /\ Elapse(d, 0)
  /\ UNCHANGED <<tracker, test, mrloop, lastrun, shown, setbacks>>

(* readcfg, then t = time(NULL).                                           *)
BeginPass ==
  /\ pc = "readcfg"
  /\ readcfg
  /\ \E l \in Loops : mrloop' = Limited(l, mrsleep')
  /\ lastrun' = now
  /\ pc' = "work"
  /\ test' = 1
  /\ UNCHANGED <<shown, hist>>

(* A check takes its time, as does sending the report of the one before.   *)
Work(d) ==
  /\ pc = "work"
  /\ pc' = "report"
  /\ Elapse(d, since)
  /\ UNCHANGED <<tracker, test, mrloop, lastrun, shown, setbacks>>

(* The check hands its colour to mrsend; the report may get lost.          *)
ReportCheck(m, c, is, lost) ==
  LET k == <<m, test>> IN
    /\ pc = "report" /\ test \in Tests
    /\ mrsend(k, c, is)
    /\ is = 0 => ~lost
    /\ shown' = IF lost \/ is = 0 THEN shown ELSE [shown EXCEPT ![k] = sent'[k].color]
    /\ age' = IF is = 0 THEN age ELSE [age EXCEPT ![k] = 0]
    /\ quiet' = IF lost THEN 0 ELSE quiet
    /\ test' = test + 1
    /\ pc' = "work"
    /\ UNCHANGED <<mrloop, lastrun, since, setbacks>>

(* Mutants: a clock that was set back is not noticed; the operands are     *)
(* swapped, and the limit is forgotten.                                    *)
sleeptime_unwarped == Longer(mrloop - (now - lastrun), SLEEP_MIN)

sleeptime_swapped == IF now < lastrun THEN mrloop ELSE (now - lastrun) - mrloop

sleeptime ==
  Longer(IF now < lastrun THEN mrloop ELSE mrloop - (now - lastrun), SLEEP_MIN)

(* All checks are done: sleep, and begin again.                            *)
SleepOn ==
  /\ pc = "report" /\ test \notin Tests
  /\ pc' = "fetch"
  /\ Elapse(sleeptime, since)
  /\ UNCHANGED <<tracker, test, mrloop, lastrun, shown, setbacks>>

-----------------------------------------------------------------------------
(* Somebody sets the wall clock back.                                      *)
SetBack ==
  /\ setbacks < MaxSetBacks
  /\ setbacks' = setbacks + 1
  /\ ClockSetBack
  /\ UNCHANGED <<loop, shown, age, quiet, since>>

(* The agent is started again.  The tracker is empty then and only what    *)
(* happens from now on matters: the model's clock begins at 1 again.       *)
Start ==
  /\ now' = 1
  /\ pc' = "fetch"
  /\ teststatus' = [k \in Keys |-> Nil]
  /\ sent' = [k \in Keys |-> Nil]
  /\ age' = [k \in Keys |-> 0]
  /\ quiet' = 0 /\ since' = 0 /\ setbacks' = 0
  /\ UNCHANGED <<mrsleep, gracetime, test, mrloop, lastrun, shown>>

LNext ==
  \/ \E d \in 0 .. MaxFetch : Fetch(d)
  \/ BeginPass
  \/ \E d \in 0 .. MaxWork : Work(d)
  \/ \E m \in Machines, c \in Colors, is \in {0, 1, 2}, lost \in BOOLEAN :
       ReportCheck(m, c, is, lost)
  \/ SleepOn
  \/ SetBack
  \/ Start

LSpec == LInit /\ [][LNext]_lvars

-----------------------------------------------------------------------------
(* The loop and the histories stay within their types: no time is ever     *)
(* negative, and no check is run that does not exist.                      *)
LTypeOK ==
  /\ TypeOK
  /\ pc \in {"fetch", "readcfg", "work", "report"}
  /\ test \in 1 .. NTests + 1
  /\ mrloop \in Int
  /\ lastrun \in Time
  /\ shown \in [Keys -> Colors \cup {Nil}]
  /\ age \in [Keys -> Nat] /\ quiet \in Nat /\ since \in Nat
  /\ setbacks \in 0 .. MaxSetBacks

(* The keep-alive works: however long the checks take, whatever the        *)
(* configuration becomes, and even with the clock set back, no test goes   *)
(* longer without a report than Gap allows.                                *)
KeepAlive ==
  \A k \in Keys : age[k] <= Gap(setbacks)

(* A report that got lost is made good: once nothing was lost for that     *)
(* long, the display shows what the tracker believes it shows.             *)
LossRepaired ==
  quiet > Gap(setbacks) =>
    \A k \in Keys : teststatus[k] # Nil => shown[k] = teststatus[k].color

(* However the clock is set, and however long a pass took, the agent never *)
(* sleeps longer than mrloop, and always long enough not to take over the  *)
(* machine.                                                                *)
SleepsSanely ==
  [][SleepOn => /\ since' - since >= SLEEP_MIN
                /\ since' - since <= Longer(mrloop, SLEEP_MIN)]_lvars

(* What readcfg's comment says: "Make sure the main loop executes at least *)
(* every mrsleep seconds".  At the latest then when the checks of a pass   *)
(* and the sleep after them took no longer than that, the next pass should *)
(* begin in time.  But the time is read after read_cfg, and what the       *)
(* download took is not taken off the sleep.                               *)
ExecutesInTime ==
  pc = "fetch" /\ now - lastrun <= mrsleep => since <= mrsleep

=============================================================================
