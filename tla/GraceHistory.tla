--------------------------- MODULE GraceHistory ----------------------------
(***************************************************************************)
(* The tracker with the history its grace periods are about: how long each *)
(* test has been in trouble without a break, when the trouble behind a     *)
(* held alarm was first seen, and the longest grace time ever configured.  *)
(* The history variables only watch: they never restrict a step of         *)
(* StatusTracker.                                                          *)
(***************************************************************************)
EXTENDS StatusTracker

VARIABLES
  run,        \* per key: the unbroken run of non-green observations, or Nil
  firstBad,   \* per key: the first non-green observation since the test was
              \* truly reported green, or Nil
  maxgrace,   \* per test: the longest grace time configured so far
  steady,     \* the clock has never been set back
  call        \* the call of mrsend just made, <<key, colour>>, or Nil

history == <<run, firstBad, maxgrace, steady>>

hvars == <<now, mrsleep, gracetime, teststatus, sent, run, firstBad, maxgrace, steady, call>>

(* A run of observations in a non-green colour: when it began, when the    *)
(* last of them was made, and its colour.                                  *)
Run == [since : Time, last : Time, color : Colors]

(* An observation, with the grace time in force when it was made.          *)
Onset == [at : Time, grace : Nat]

(* "No run" and "no onset" are told apart from every run and onset.        *)
ASSUME HistoryAssumption == Nil \notin Run /\ Nil \notin Onset

(* The type of the history: runs and onsets carry times of the clock, and  *)
(* grace times are natural numbers.                                        *)
HTypeOK ==
  /\ TypeOK
  /\ run \in [Keys -> Run \cup {Nil}]
  /\ firstBad \in [Keys -> Onset \cup {Nil}]
  /\ maxgrace \in [Tests -> Nat]
  /\ steady \in BOOLEAN
  /\ call \in (Keys \X Colors) \cup {Nil}

HInit ==
  /\ Init
  /\ run = [k \in Keys |-> Nil]
  /\ firstBad = [k \in Keys |-> Nil]
  /\ maxgrace = gracetime
  /\ steady = TRUE
  /\ call = Nil

(* The run of k after colour c is observed.                                *)
NextRun(k, c) ==
  IF c = "green" THEN Nil
  ELSE [since |-> IF run[k] = Nil THEN now ELSE run[k].since, last |-> now, color |-> c]

(* The onset of k after colour c is observed with verdict is.              *)
NextOnset(k, c, is) ==
  CASE c = "green" /\ is = 2 -> Nil
    [] c # "green" /\ firstBad[k] = Nil -> [at |-> now, grace |-> lookup_grace(k)]
    [] OTHER -> firstBad[k]

HSend(k, c, is) ==
  /\ mrsend(k, c, is)
  /\ run' = [run EXCEPT ![k] = NextRun(k, c)]
  /\ firstBad' = [firstBad EXCEPT ![k] = NextOnset(k, c, is)]
  /\ call' = <<k, c>>
  /\ UNCHANGED <<maxgrace, steady>>

HReadcfg ==
  /\ readcfg
  /\ maxgrace' = [t \in Tests |->
       IF gracetime'[t] > maxgrace[t] THEN gracetime'[t] ELSE maxgrace[t]]
  /\ call' = Nil
  /\ UNCHANGED <<run, firstBad, steady>>

HClockAdvances ==
  /\ ClockAdvances
  /\ call' = Nil
  /\ UNCHANGED history

HClockSetBack ==
  /\ ClockSetBack
  /\ steady' = FALSE
  /\ call' = Nil
  /\ UNCHANGED <<run, firstBad, maxgrace>>

(* A restart forgets the deadline; what the tests see goes on as before.   *)
HRestart ==
  /\ Restart
  /\ firstBad' = [k \in Keys |-> Nil]
  /\ call' = Nil
  /\ UNCHANGED <<run, maxgrace, steady>>

HNext ==
  \/ \E k \in Keys, c \in Colors, is \in {0, 1, 2} : HSend(k, c, is)
  \/ HReadcfg
  \/ HClockAdvances
  \/ HClockSetBack
  \/ HRestart

HSpec == HInit /\ [][HNext]_hvars

-----------------------------------------------------------------------------
Filter == INSTANCE ReportFilter

(* The tracker is a report filter: every call of mrsend reports, masks or  *)
(* leaves out its observation only where ReportFilter allows it, and       *)
(* nothing but a call of mrsend reports anything.                          *)
FilterSpec == Filter!Spec

(* No false alarm: whatever the clock does, and across restarts and        *)
(* changes of the configuration, the displays were last given a non-green  *)
(* colour only if that is the colour the test last observed: insert_status *)
(* neither masks nor leaves out a recovery, nor a change between two       *)
(* non-green colours.                                                      *)
NoFalseAlarm ==
  \A k \in Keys :
    sent[k] # Nil /\ sent[k].color # "green" =>
      run[k] # Nil /\ run[k].color = sent[k].color

(* An alarm is not held for ever: while the clock is never set back, a     *)
(* test that has been in trouble without a break for the longest grace     *)
(* time it was ever given has its real colour on the displays, although a  *)
(* deadline may stem from an earlier trouble or an older configuration and *)
(* although the agent may have been restarted meanwhile.                   *)
NoOverdueAlarm ==
  steady =>
    \A k \in Keys :
      run[k] # Nil /\ run[k].last - run[k].since >= maxgrace[k[2]] =>
        sent[k] # Nil /\ sent[k].color = run[k].color

(* A known test's report turns from green to another colour in this step.  *)
AlarmFires(k) ==
  /\ teststatus[k] # Nil
  /\ sent[k].color = "green"
  /\ sent'[k].color # "green"

(* An alarm is not premature: the report of a known test turns from green  *)
(* to another colour only when trouble was first seen, since the test was  *)
(* last truly reported green, at least the grace time of that moment ago.  *)
AlarmAfterGrace ==
  [][\A k \in Keys :
       AlarmFires(k) =>
         firstBad'[k] # Nil /\ now - firstBad'[k].at >= firstBad'[k].grace]_hvars

(* What a grace period is for (ChangeLog, 061116): an alarm should not     *)
(* fire until its test has been in trouble, without a break, for the grace *)
(* time.  The code does not keep to it: a green observation that falls in  *)
(* the "no need to do anything" branch leaves the old deadline standing,   *)
(* and a later, unrelated trouble inherits it.                             *)
AlarmAfterUnbrokenGrace ==
  [][\A k \in Keys :
       AlarmFires(k) /\ steady => now - run'[k].since >= gracetime[k[2]]]_hvars

-----------------------------------------------------------------------------
(* The inductive invariant behind the three properties, in named parts.    *)

(* The colour recorded for a test in trouble is the colour of its run.     *)
ColorIsObserved ==
  \A k \in Keys :
    teststatus[k] # Nil /\ teststatus[k].color # "green" =>
      run[k] # Nil /\ run[k].color = teststatus[k].color

(* A ticking deadline is the grace time counted from the onset; without a  *)
(* deadline there is no onset.                                             *)
DeadlineIsOnset ==
  \A k \in Keys :
    teststatus[k] # Nil /\ teststatus[k].color = "green" =>
      IF teststatus[k].grace = 0
      THEN firstBad[k] = Nil
      ELSE /\ firstBad[k] # Nil
           /\ teststatus[k].grace = firstBad[k].at + firstBad[k].grace

(* maxgrace is what its name says.                                         *)
GraceWithinMax == \A t \in Tests : gracetime[t] <= maxgrace[t]

(* While the clock runs steadily, runs lie in the past, deadlines are no   *)
(* further away than the longest grace time, and a held alarm has a        *)
(* deadline within that time of the start of its run.                      *)
RunsInPast ==
  \A k \in Keys :
    run[k] # Nil => run[k].since <= run[k].last /\ run[k].last <= now

DeadlineIsNear ==
  \A k \in Keys :
    teststatus[k] # Nil /\ teststatus[k].color = "green" =>
      teststatus[k].grace <= now + maxgrace[k[2]]

HeldHasDeadline ==
  \A k \in Keys :
    teststatus[k] # Nil /\ teststatus[k].color = "green" /\ run[k] # Nil =>
      /\ run[k].last < teststatus[k].grace
      /\ teststatus[k].grace <= run[k].since + maxgrace[k[2]]

GraceInv ==
  /\ HTypeOK
  /\ BelievedIsSent
  /\ ColorIsObserved
  /\ NoFalseAlarm
  /\ DeadlineIsOnset
  /\ GraceWithinMax
  /\ steady => RunsInPast /\ DeadlineIsNear /\ HeldHasDeadline
  /\ NoOverdueAlarm

=============================================================================
