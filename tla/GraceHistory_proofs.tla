------------------------ MODULE GraceHistory_proofs ------------------------
(***************************************************************************)
(* Proofs about the grace times of the status tracker: the properties of   *)
(* GraceHistory, for every set of machines and tests, every configuration  *)
(* and every clock.                                                        *)
(***************************************************************************)
EXTENDS GraceHistory, StatusTracker_proofs

(* The grace times.  The history only watches, so what holds of Spec holds *)
(* of HSpec.                                                               *)

LEMMA HistoryWatches == HSpec => Spec
<1>1. HInit => Init
  BY DEF HInit
<1>2. [HNext]_hvars => [Next]_vars
  BY DEF HNext, hvars, Next, vars, HSend, HReadcfg, HClockAdvances, HClockSetBack, HRestart
<1>3. QED BY <1>1, <1>2, PTL DEF HSpec, Spec

(* Every call of mrsend is an observation of the filter: NoNeed leaves it  *)
(* out, SitOnHands masks it, every other return passes it on.              *)
LEMMA CallIsObserve ==
  ASSUME TypeOK, BelievedIsSent,
         NEW k \in Keys, NEW c \in Colors, NEW is \in {0, 1, 2},
         HSend(k, c, is)
  PROVE  Filter!Observe(k, c)
<1>1. mrsend(k, c, is) /\ call' = <<k, c>> /\ UNCHANGED <<now, mrsleep>>
  BY DEF HSend, mrsend
<1>2. CASE is = 2
  BY <1>1, <1>2 DEF mrsend, send_update, Filter!Observe, Filter!Pass, Filter!Give
<1>3. CASE is = 1
  <2>1. /\ teststatus[k] # Nil
        /\ teststatus[k].color = "green"
        /\ c # "green"
    BY <1>1, <1>3 DEF mrsend, insert_status, NewTest, TimeDecreased, SleepExceeded, NoNeed,
       BecameGreen, WasNotGreen, GraceExpired, SitOnHands
  <2>2. send_update(k, "green")
    BY <1>1, <1>3 DEF mrsend
  <2>3. QED
    BY <1>1, <2>1, <2>2
    DEF BelievedIsSent, send_update, Filter!Observe, Filter!Mask, Filter!Give
<1>4. CASE is = 0
  <2>1. NoNeed(k, c, is) /\ UNCHANGED sent
    BY <1>1, <1>4 DEF mrsend, insert_status, NewTest, TimeDecreased, SleepExceeded, NoNeed,
       BecameGreen, WasNotGreen, GraceExpired, SitOnHands
  <2>2. QED
    BY <1>1, <2>1 DEF BelievedIsSent, NoNeed, Filter!Observe, Filter!Skip
<1>5. QED BY <1>2, <1>3, <1>4

(* The tracker implements the report filter: initial states map to initial *)
(* states and every step to a step of the filter or to a stutter.          *)
THEOREM TrackerIsFilter == HSpec => FilterSpec
<1>1. HInit => Filter!Init
  BY DEF HInit, Init, Filter!Init
<1>2. TypeOK /\ BelievedIsSent /\ [HNext]_hvars => [Filter!Next]_(Filter!vars)
  <2> SUFFICES ASSUME TypeOK, BelievedIsSent, [HNext]_hvars
               PROVE  [Filter!Next]_(Filter!vars)
    OBVIOUS
  <2>1. ASSUME NEW k \in Keys, NEW c \in Colors, NEW is \in {0, 1, 2}, HSend(k, c, is)
        PROVE  Filter!Next
    BY <2>1, CallIsObserve DEF Filter!Next
  <2>2. CASE call' = Nil /\ UNCHANGED sent
    BY <2>2 DEF Filter!Next, Filter!Environment
  <2>3. CASE UNCHANGED hvars
    BY <2>3 DEF hvars, Filter!vars
  <2>4. HReadcfg \/ HClockAdvances \/ HClockSetBack \/ HRestart =>
          call' = Nil /\ UNCHANGED sent
    BY DEF HReadcfg, readcfg, HClockAdvances, ClockAdvances, HClockSetBack, ClockSetBack,
       HRestart, Restart
  <2>5. QED BY <2>1, <2>2, <2>3, <2>4 DEF HNext
<1>3. QED
  BY <1>1, <1>2, HistoryWatches, TrackerTypeOK, TrackerBelieved, PTL
  DEF HSpec, FilterSpec, Filter!Spec

(* A call about k leaves the entries of the other keys alone.              *)
LEMMA HSendOther ==
  ASSUME HTypeOK, NEW k \in Keys, NEW c \in Colors, NEW is \in {0, 1, 2},
         HSend(k, c, is), NEW j \in Keys, j # k
  PROVE  /\ teststatus'[j] = teststatus[j]
         /\ sent'[j] = sent[j]
         /\ run'[j] = run[j]
         /\ firstBad'[j] = firstBad[j]
<1> USE DEF HTypeOK, TypeOK
<1>1. teststatus'[j] = teststatus[j]
  BY DEF HSend, mrsend, insert_status, Store, NewTest, TimeDecreased, SleepExceeded,
     NoNeed, BecameGreen, WasNotGreen, GraceExpired, SitOnHands
<1>2. sent'[j] = sent[j]
  BY DEF HSend, mrsend, send_update
<1>3. run'[j] = run[j] /\ firstBad'[j] = firstBad[j]
  BY DEF HSend
<1>4. QED BY <1>1, <1>2, <1>3

(* What a call about k does to k's own entries: nothing but recording the  *)
(* observation, a report of the real colour that ends any deadline, the    *)
(* firing of a held alarm, or a green report while it is held.             *)
LEMMA HSendSame ==
  ASSUME HTypeOK, NEW k \in Keys, NEW c \in Colors, NEW is \in {0, 1, 2},
         HSend(k, c, is)
  PROVE  /\ run'[k] = NextRun(k, c)
         /\ firstBad'[k] = NextOnset(k, c, is)
         /\ \/ /\ is = 0
               /\ teststatus[k] # Nil /\ teststatus[k].color = c
               /\ teststatus'[k] = teststatus[k]
               /\ sent'[k] = sent[k]
            \/ /\ is = 2
               /\ teststatus[k] = Nil \/ teststatus[k].color # "green" \/ c = "green"
               /\ teststatus'[k].color = c /\ teststatus'[k].grace = 0
               /\ sent'[k] # Nil /\ sent'[k].color = c
            \/ /\ is = 2
               /\ teststatus[k] # Nil /\ teststatus[k].color = "green" /\ c # "green"
               /\ now >= Deadline(k)
               /\ teststatus'[k].color = c /\ teststatus'[k].grace = Deadline(k)
               /\ sent'[k] # Nil /\ sent'[k].color = c
            \/ /\ is = 1
               /\ teststatus[k] # Nil /\ teststatus[k].color = "green" /\ c # "green"
               /\ now < Deadline(k)
               /\ teststatus'[k].color = "green" /\ teststatus'[k].grace = Deadline(k)
               /\ sent'[k] # Nil /\ sent'[k].color = "green"
<1> USE DEF HTypeOK, TypeOK
<1>1. run'[k] = NextRun(k, c) /\ firstBad'[k] = NextOnset(k, c, is)
  BY DEF HSend
<1>2. /\ is = 0 => sent' = sent
      /\ is = 1 => sent'[k] # Nil /\ sent'[k].color = "green"
      /\ is = 2 => sent'[k] # Nil /\ sent'[k].color = c
  BY TrackerAssumption DEF HSend, mrsend, send_update, Report, Time
<1>3. insert_status(k, c, is)
  BY DEF HSend, mrsend
<1>4. CASE NoNeed(k, c, is)
  BY <1>1, <1>2, <1>4 DEF NoNeed
<1>5. CASE NewTest(k, c, is) \/ TimeDecreased(k, c, is) \/ SleepExceeded(k, c, is)
           \/ BecameGreen(k, c, is) \/ WasNotGreen(k, c, is)
  BY <1>1, <1>2, <1>5
  DEF NewTest, TimeDecreased, SleepExceeded, BecameGreen, WasNotGreen, Store
<1>6. CASE GraceExpired(k, c, is)
  BY <1>1, <1>2, <1>6 DEF GraceExpired, Store
<1>7. CASE SitOnHands(k, c, is)
  BY <1>1, <1>2, <1>7 DEF SitOnHands, Store
<1>8. QED BY <1>3, <1>4, <1>5, <1>6, <1>7 DEF insert_status

(* Where a run and an onset come from, and their types.                    *)
LEMMA HistoryTypes ==
  ASSUME HTypeOK, NEW k \in Keys, NEW c \in Colors, NEW is \in {0, 1, 2}
  PROVE  /\ c = "green" <=> NextRun(k, c) = Nil
         /\ NextRun(k, c) \in Run \cup {Nil}
         /\ NextOnset(k, c, is) \in Onset \cup {Nil}
<1> USE TrackerAssumption, HistoryAssumption DEF HTypeOK, TypeOK, Time
<1>1. c # "green" => NextRun(k, c) \in Run
  BY DEF NextRun, Run
<1>2. NextOnset(k, c, is) \in Onset \cup {Nil}
  BY DeadlineType DEF NextOnset, Onset
<1>3. c = "green" => NextRun(k, c) = Nil
  BY DEF NextRun
<1>4. QED BY <1>1, <1>2, <1>3

(* A call keeps the history well typed.                                    *)
LEMMA HSendTypeOK ==
  ASSUME HTypeOK, NEW k \in Keys, NEW c \in Colors, NEW is \in {0, 1, 2},
         HSend(k, c, is)
  PROVE  HTypeOK'
<1>1. TypeOK'
  BY MrsendTypeOK DEF HSend, HTypeOK
<1>2. run' \in [Keys -> Run \cup {Nil}]
  BY HistoryTypes DEF HSend, HTypeOK
<1>3. firstBad' \in [Keys -> Onset \cup {Nil}]
  BY HistoryTypes DEF HSend, HTypeOK
<1>4. QED BY <1>1, <1>2, <1>3 DEF HSend, HTypeOK

(* The colour part of the invariant: the recorded and the sent colour are  *)
(* green or the colour of the run.                                         *)
LEMMA HSendColors ==
  ASSUME HTypeOK, BelievedIsSent, ColorIsObserved, NoFalseAlarm,
         NEW k \in Keys, NEW c \in Colors, NEW is \in {0, 1, 2}, HSend(k, c, is)
  PROVE  ColorIsObserved' /\ NoFalseAlarm'
<1>1. ASSUME NEW j \in Keys, j # k
      PROVE  /\ teststatus'[j] # Nil /\ teststatus'[j].color # "green" =>
                   run'[j] # Nil /\ run'[j].color = teststatus'[j].color
             /\ sent'[j] # Nil /\ sent'[j].color # "green" =>
                   run'[j] # Nil /\ run'[j].color = sent'[j].color
  BY <1>1, HSendOther DEF ColorIsObserved, NoFalseAlarm
<1>2. /\ teststatus'[k].color # "green" => run'[k] # Nil /\ run'[k].color = teststatus'[k].color
      /\ sent'[k] # Nil /\ sent'[k].color # "green" =>
           run'[k] # Nil /\ run'[k].color = sent'[k].color
  <2>1. c # "green" => run'[k] # Nil /\ run'[k].color = c
    <3>1. run'[k] = NextRun(k, c)
      BY HSendSame
    <3>2. c # "green" => NextRun(k, c) # Nil
      BY HistoryTypes
    <3>3. c # "green" => NextRun(k, c).color = c
      BY DEF NextRun
    <3>4. QED BY <3>1, <3>2, <3>3
  <2>2. CASE /\ teststatus[k] # Nil /\ teststatus[k].color = c
             /\ teststatus'[k] = teststatus[k] /\ sent'[k] = sent[k]
    BY <2>1, <2>2 DEF BelievedIsSent
  <2>3. CASE /\ teststatus'[k].color \in {c, "green"}
             /\ sent'[k].color = teststatus'[k].color
    BY <2>1, <2>3
  <2>4. \/ /\ teststatus[k] # Nil /\ teststatus[k].color = c
           /\ teststatus'[k] = teststatus[k] /\ sent'[k] = sent[k]
        \/ /\ teststatus'[k].color \in {c, "green"}
           /\ sent'[k].color = teststatus'[k].color
    BY HSendSame
  <2>5. QED BY <2>2, <2>3, <2>4
<1>3. QED BY <1>1, <1>2 DEF ColorIsObserved, NoFalseAlarm

(* The deadline part: a ticking deadline is the onset's.                   *)
LEMMA HSendDeadline ==
  ASSUME HTypeOK, DeadlineIsOnset,
         NEW k \in Keys, NEW c \in Colors, NEW is \in {0, 1, 2}, HSend(k, c, is)
  PROVE  DeadlineIsOnset'
<1> DEFINE Good(j) ==
      teststatus[j] # Nil /\ teststatus[j].color = "green" =>
        IF teststatus[j].grace = 0
        THEN firstBad[j] = Nil
        ELSE /\ firstBad[j] # Nil
             /\ teststatus[j].grace = firstBad[j].at + firstBad[j].grace
<1>1. ASSUME NEW j \in Keys, j # k PROVE Good(j)'
  BY <1>1, HSendOther DEF DeadlineIsOnset
<1>2. Good(k)'
  <2>1. Good(k)
    BY DEF DeadlineIsOnset
  <2>2. CASE is = 0
    <3>1. /\ teststatus[k] # Nil /\ teststatus[k].color = c
          /\ teststatus'[k] = teststatus[k]
      BY <2>2, HSendSame
    <3>2. firstBad'[k] = NextOnset(k, c, is)
      BY HSendSame
    <3>3. c = "green" => NextOnset(k, c, is) = firstBad[k]
      BY <2>2 DEF NextOnset
    <3>4. QED BY <2>1, <3>1, <3>2, <3>3
  <2>3. CASE is = 2
    <3>1. teststatus'[k].color = c
      BY <2>3, HSendSame
    <3>2. c = "green" => teststatus'[k].grace = 0
      BY <2>3, HSendSame
    <3>3. c = "green" => firstBad'[k] = Nil
      BY <2>3, HSendSame DEF NextOnset
    <3>4. QED BY <3>1, <3>2, <3>3
  <2>4. CASE is = 1
    <3>1. /\ teststatus[k] # Nil /\ teststatus[k].color = "green" /\ c # "green"
          /\ teststatus'[k].grace = Deadline(k)
      BY <2>4, HSendSame
    <3>2. firstBad'[k] = NextOnset(k, c, is)
      BY HSendSame
    <3>3. CASE teststatus[k].grace = 0
      <4>1. firstBad[k] = Nil
        BY <2>1, <3>1, <3>3
      <4>2. firstBad'[k] = [at |-> now, grace |-> lookup_grace(k)]
        BY <3>1, <3>2, <4>1 DEF NextOnset
      <4>3. Deadline(k) = now + lookup_grace(k)
        BY <3>3 DEF Deadline
      <4>4. firstBad'[k] # Nil
        BY <4>2, DeadlineType, HistoryAssumption DEF HTypeOK, TypeOK, Onset
      <4>5. now + lookup_grace(k) # 0
        BY DeadlineType DEF HTypeOK, TypeOK, Time
      <4>6. QED BY <3>1, <4>2, <4>3, <4>4, <4>5
    <3>4. CASE teststatus[k].grace # 0
      <4>1. /\ firstBad[k] # Nil
            /\ teststatus[k].grace = firstBad[k].at + firstBad[k].grace
        BY <2>1, <3>1, <3>4
      <4>2. firstBad'[k] = firstBad[k]
        BY <3>1, <3>2, <4>1 DEF NextOnset
      <4>3. Deadline(k) = teststatus[k].grace
        BY <3>4 DEF Deadline
      <4>4. QED BY <3>1, <3>4, <4>1, <4>2, <4>3
    <3>5. QED BY <3>3, <3>4
  <2>5. QED BY <2>2, <2>3, <2>4
<1>3. QED BY <1>1, <1>2 DEF DeadlineIsOnset

(* A held alarm has a deadline within the longest grace time of the start  *)
(* of its run, whether the deadline is new, inherited or already its own.  *)
LEMMA HeldDeadline ==
  ASSUME HTypeOK, GraceWithinMax, DeadlineIsNear, HeldHasDeadline,
         NEW k \in Keys, NEW c \in Colors, c # "green",
         teststatus[k] # Nil, teststatus[k].color = "green"
  PROVE  Deadline(k) <= NextRun(k, c).since + maxgrace[k[2]]
<1> USE DEF HTypeOK, TypeOK, Time
<1>1. /\ lookup_grace(k) \in Nat /\ maxgrace[k[2]] \in Nat
      /\ lookup_grace(k) <= maxgrace[k[2]]
      /\ teststatus[k].grace \in Nat
  BY DeadlineType DEF GraceWithinMax, lookup_grace, Entry
<1>2. CASE run[k] = Nil
  <2>1. NextRun(k, c).since = now
    BY <1>2 DEF NextRun
  <2>2. teststatus[k].grace <= now + maxgrace[k[2]]
    BY DEF DeadlineIsNear
  <2>3. QED BY <1>1, <2>1, <2>2 DEF Deadline
<1>3. CASE run[k] # Nil
  <2>1. NextRun(k, c).since = run[k].since
    BY <1>3 DEF NextRun
  <2>2. /\ run[k].last < teststatus[k].grace
        /\ teststatus[k].grace <= run[k].since + maxgrace[k[2]]
    BY <1>3 DEF HeldHasDeadline
  <2>3. run[k].last \in Nat
    BY <1>3 DEF Run
  <2>4. teststatus[k].grace # 0
    BY <1>1, <2>2, <2>3
  <2>5. QED BY <2>1, <2>2, <2>4 DEF Deadline
<1>4. QED BY <1>2, <1>3

(* While the clock runs steadily, a call keeps runs in the past, deadlines *)
(* near and held alarms within their grace time, and no alarm is overdue.  *)
LEMMA HSendSteady ==
  ASSUME GraceInv, RunsInPast, DeadlineIsNear, HeldHasDeadline, steady,
         NEW k \in Keys, NEW c \in Colors, NEW is \in {0, 1, 2}, HSend(k, c, is)
  PROVE  RunsInPast' /\ DeadlineIsNear' /\ HeldHasDeadline' /\ NoOverdueAlarm'
<1>1. UNCHANGED <<now, maxgrace, steady>>
  BY DEF HSend, mrsend
<1>2. HTypeOK /\ GraceWithinMax /\ BelievedIsSent
  BY DEF GraceInv
<1>3. maxgrace[k[2]] \in Nat /\ now \in Nat
  BY <1>2, DeadlineType DEF HTypeOK, TypeOK, Time
<1>4. run'[k] = NextRun(k, c)
  BY <1>2, HSendSame
<1>5. c = "green" => run'[k] = Nil
  BY <1>2, <1>4, HistoryTypes
<1>6. c # "green" => run'[k].last = now /\ run'[k].color = c
  BY <1>4 DEF NextRun
<1>7. RunsInPast'
  <2>1. ASSUME NEW j \in Keys, j # k, run'[j] # Nil
        PROVE  run'[j].since <= run'[j].last /\ run'[j].last <= now'
    BY <1>1, <1>2, <2>1, HSendOther DEF RunsInPast
  <2>2. CASE c # "green"
    <3>1. run[k] # Nil => run[k].since \in Nat /\ run[k].last \in Nat
      BY <1>2 DEF HTypeOK, Run, Time
    <3>2. run'[k].since <= now
      BY <1>3, <1>4, <2>2, <3>1 DEF NextRun, RunsInPast
    <3>3. QED BY <1>1, <1>3, <1>6, <2>1, <2>2, <3>2 DEF RunsInPast
  <2>3. CASE c = "green"
    BY <1>5, <2>1, <2>3 DEF RunsInPast
  <2>4. QED BY <2>2, <2>3
<1>8. ASSUME teststatus'[k] # Nil, teststatus'[k].color = "green"
      PROVE  /\ teststatus'[k].grace <= now + maxgrace[k[2]]
             /\ run'[k] # Nil => /\ run'[k].last < teststatus'[k].grace
                                /\ teststatus'[k].grace <= run'[k].since + maxgrace[k[2]]
  <2>1. CASE is = 0
    <3>1. teststatus'[k] = teststatus[k] /\ c = "green"
      BY <1>2, <1>8, <2>1, HSendSame
    <3>2. QED BY <1>5, <1>8, <3>1 DEF DeadlineIsNear
  <2>2. CASE is = 2
    <3>1. teststatus'[k].color = c
      BY <1>2, <2>2, HSendSame
    <3>2. c = "green" => teststatus'[k].grace = 0
      BY <1>2, <2>2, HSendSame
    <3>3. QED BY <1>3, <1>5, <1>8, <3>1, <3>2
  <2>3. CASE is = 1
    <3>1. /\ teststatus[k] # Nil /\ teststatus[k].color = "green" /\ c # "green"
          /\ now < Deadline(k) /\ teststatus'[k].grace = Deadline(k)
      BY <1>2, <2>3, HSendSame
    <3>2. Deadline(k) <= run'[k].since + maxgrace[k[2]]
      BY <1>2, <1>4, <3>1, HeldDeadline
    <3>3. run'[k].since <= now
      <4>1. run'[k] # Nil
        BY <1>2, <1>4, <3>1, HistoryTypes
      <4>2. QED BY <1>1, <1>6, <1>7, <3>1, <4>1 DEF RunsInPast
    <3>4. run'[k].since \in Int /\ Deadline(k) \in Int
      <4>1. run'[k] \in Run
        BY <1>2, <1>4, <3>1, HistoryTypes
      <4>2. QED BY <1>2, <3>1, <4>1, DeadlineType DEF Run, Time, HTypeOK
    <3>5. QED BY <1>3, <1>6, <3>1, <3>2, <3>3, <3>4
  <2>4. QED BY <2>1, <2>2, <2>3
<1>9. DeadlineIsNear'
  BY <1>1, <1>2, <1>8, HSendOther DEF DeadlineIsNear
<1>10. HeldHasDeadline'
  BY <1>1, <1>2, <1>8, HSendOther DEF HeldHasDeadline
<1>11. NoOverdueAlarm'
  <2>1. ASSUME NEW j \in Keys, j # k, run'[j] # Nil,
               run'[j].last - run'[j].since >= maxgrace'[j[2]]
        PROVE  sent'[j] # Nil /\ sent'[j].color = run'[j].color
    BY <1>1, <1>2, <2>1, HSendOther DEF GraceInv, NoOverdueAlarm
  <2>2. ASSUME run'[k] # Nil, run'[k].last - run'[k].since >= maxgrace'[k[2]]
        PROVE  sent'[k] # Nil /\ sent'[k].color = run'[k].color
    <3>1. c # "green"
      BY <1>5, <2>2
    <3>2. CASE is = 0
      BY <1>2, <1>6, <3>1, <3>2, HSendSame DEF BelievedIsSent
    <3>3. CASE is = 2
      BY <1>2, <1>6, <3>1, <3>3, HSendSame
    <3>4. CASE is = 1
      <4>1. /\ now < Deadline(k)
            /\ teststatus[k] # Nil /\ teststatus[k].color = "green"
        BY <1>2, <3>4, HSendSame
      <4>2. Deadline(k) <= run'[k].since + maxgrace[k[2]]
        BY <1>2, <1>4, <3>1, <4>1, HeldDeadline
      <4>3. now - run'[k].since >= maxgrace[k[2]]
        BY <1>1, <1>6, <2>2, <3>1
      <4>4. run'[k].since \in Int /\ Deadline(k) \in Int
        <5>1. run'[k] \in Run
          BY <1>2, <1>4, <3>1, HistoryTypes
        <5>2. QED BY <1>2, <4>1, <5>1, DeadlineType DEF Run, Time, HTypeOK
      <4>5. QED BY <1>3, <4>1, <4>2, <4>3, <4>4
    <3>5. QED BY <3>2, <3>3, <3>4
  <2>3. QED BY <2>1, <2>2 DEF NoOverdueAlarm
<1>12. QED BY <1>7, <1>9, <1>10, <1>11

LEMMA HSendInv ==
  ASSUME GraceInv, NEW k \in Keys, NEW c \in Colors, NEW is \in {0, 1, 2}, HSend(k, c, is)
  PROVE  GraceInv'
<1>1. HTypeOK'
  BY HSendTypeOK DEF GraceInv
<1>2. BelievedIsSent'
  BY MrsendBelieved DEF GraceInv, HTypeOK, HSend
<1>3. ColorIsObserved' /\ NoFalseAlarm'
  BY HSendColors DEF GraceInv
<1>4. DeadlineIsOnset'
  BY HSendDeadline DEF GraceInv
<1>5. GraceWithinMax'
  BY DEF GraceInv, GraceWithinMax, HSend, mrsend
<1>6. CASE steady
  BY <1>1, <1>2, <1>3, <1>4, <1>5, <1>6, HSendSteady DEF GraceInv
<1>7. CASE ~steady
  <2>1. ~steady'
    BY <1>7 DEF HSend
  <2>2. QED BY <1>1, <1>2, <1>3, <1>4, <1>5, <2>1 DEF GraceInv, NoOverdueAlarm
<1>8. QED BY <1>6, <1>7

LEMMA InitInv == HInit => GraceInv
<1> SUFFICES ASSUME HInit PROVE GraceInv OBVIOUS
<1>1. HTypeOK
  BY TrackerAssumption DEF HInit, Init, HTypeOK, TypeOK
<1>2. BelievedIsSent /\ ColorIsObserved /\ NoFalseAlarm /\ DeadlineIsOnset
  BY DEF HInit, Init, BelievedIsSent, ColorIsObserved, NoFalseAlarm, DeadlineIsOnset
<1>3. GraceWithinMax
  <2>1. maxgrace = gracetime /\ \A t \in Tests : gracetime[t] \in Nat
    BY TrackerAssumption DEF HInit, Init
  <2>2. QED BY <2>1 DEF GraceWithinMax
<1>4. RunsInPast /\ DeadlineIsNear /\ HeldHasDeadline /\ NoOverdueAlarm
  BY DEF HInit, Init, RunsInPast, DeadlineIsNear, HeldHasDeadline, NoOverdueAlarm
<1>5. QED BY <1>1, <1>2, <1>3, <1>4 DEF GraceInv

(* readcfg may lengthen the longest grace time and never shortens it.      *)
LEMMA HReadcfgInv == ASSUME GraceInv, HReadcfg PROVE GraceInv'
<1> USE TrackerAssumption
<1>1. HTypeOK'
  BY DEF GraceInv, HTypeOK, TypeOK, HReadcfg, readcfg
<1>2. BelievedIsSent' /\ ColorIsObserved' /\ NoFalseAlarm' /\ DeadlineIsOnset'
  BY DEF GraceInv, BelievedIsSent, ColorIsObserved, NoFalseAlarm, DeadlineIsOnset,
     HReadcfg, readcfg
<1>3. /\ GraceWithinMax'
      /\ \A t \in Tests : maxgrace[t] <= maxgrace'[t] /\ maxgrace[t] \in Nat /\ maxgrace'[t] \in Nat
  <2>1. \A t \in Tests : gracetime'[t] \in Nat /\ maxgrace[t] \in Nat
    BY <1>1 DEF GraceInv, HTypeOK, TypeOK
  <2>2. \A t \in Tests :
          maxgrace'[t] = IF gracetime'[t] > maxgrace[t] THEN gracetime'[t] ELSE maxgrace[t]
    BY DEF HReadcfg
  <2>3. QED BY <2>1, <2>2 DEF GraceWithinMax
<1>4. \A k \in Keys : /\ maxgrace[k[2]] <= maxgrace'[k[2]]
                      /\ maxgrace[k[2]] \in Nat /\ maxgrace'[k[2]] \in Nat
  BY <1>3 DEF Keys
<1>5. UNCHANGED <<now, teststatus, sent, run, firstBad, steady>>
  BY DEF HReadcfg, readcfg
<1>6. ASSUME steady PROVE RunsInPast' /\ DeadlineIsNear' /\ HeldHasDeadline' /\ NoOverdueAlarm'
  <2>1. /\ now \in Nat
        /\ \A k \in Keys : teststatus[k] # Nil => teststatus[k].grace \in Nat
        /\ \A k \in Keys : run[k] # Nil => run[k].since \in Nat /\ run[k].last \in Nat
    BY DEF GraceInv, HTypeOK, TypeOK, Run, Time
  <2>2. RunsInPast'
    BY <1>5, <1>6 DEF GraceInv, RunsInPast
  <2>3. DeadlineIsNear'
    BY <1>4, <1>5, <1>6, <2>1 DEF GraceInv, DeadlineIsNear
  <2>4. HeldHasDeadline'
    BY <1>4, <1>5, <1>6, <2>1 DEF GraceInv, HeldHasDeadline
  <2>5. NoOverdueAlarm'
    BY <1>4, <1>5, <1>6, <2>1 DEF GraceInv, NoOverdueAlarm
  <2>6. QED BY <2>2, <2>3, <2>4, <2>5
<1>7. CASE steady
  BY <1>1, <1>2, <1>3, <1>6, <1>7 DEF GraceInv
<1>8. CASE ~steady
  BY <1>1, <1>2, <1>3, <1>5, <1>8 DEF GraceInv, NoOverdueAlarm
<1>9. QED BY <1>7, <1>8

LEMMA HClockInv == ASSUME GraceInv, HClockAdvances PROVE GraceInv'
<1>1. HTypeOK'
  BY DEF GraceInv, HTypeOK, TypeOK, HClockAdvances, ClockAdvances, history
<1>2. /\ UNCHANGED <<gracetime, teststatus, sent, run, firstBad, maxgrace, steady>>
      /\ now < now'
  BY DEF HClockAdvances, ClockAdvances, history
<1>3. /\ BelievedIsSent' /\ ColorIsObserved' /\ NoFalseAlarm' /\ DeadlineIsOnset'
      /\ GraceWithinMax' /\ NoOverdueAlarm'
  BY <1>2 DEF GraceInv, BelievedIsSent, ColorIsObserved, NoFalseAlarm, DeadlineIsOnset,
     GraceWithinMax, NoOverdueAlarm
<1>4. ASSUME steady PROVE RunsInPast' /\ DeadlineIsNear' /\ HeldHasDeadline'
  <2>1. /\ now \in Nat /\ now' \in Nat
        /\ \A k \in Keys : teststatus[k] # Nil => teststatus[k].grace \in Nat
        /\ \A k \in Keys : run[k] # Nil => run[k].since \in Nat /\ run[k].last \in Nat
        /\ \A k \in Keys : maxgrace[k[2]] \in Nat
    BY <1>1 DEF GraceInv, HTypeOK, TypeOK, Run, Time, Keys
  <2>2. RunsInPast' /\ DeadlineIsNear' /\ HeldHasDeadline'
    BY <1>2, <1>4, <2>1 DEF GraceInv, RunsInPast, DeadlineIsNear, HeldHasDeadline
  <2>3. QED BY <2>2
<1>5. QED BY <1>1, <1>2, <1>3, <1>4 DEF GraceInv

(* Once the clock has been set back, nothing is said about time any more.  *)
LEMMA HClockSetBackInv == ASSUME GraceInv, HClockSetBack PROVE GraceInv'
<1>1. HTypeOK'
  BY DEF GraceInv, HTypeOK, TypeOK, HClockSetBack, ClockSetBack
<1>2. ~steady' /\ UNCHANGED <<gracetime, teststatus, sent, run, firstBad, maxgrace>>
  BY DEF HClockSetBack, ClockSetBack
<1>3. QED
  BY <1>1, <1>2 DEF GraceInv, BelievedIsSent, ColorIsObserved, NoFalseAlarm,
     DeadlineIsOnset, GraceWithinMax, NoOverdueAlarm

LEMMA HRestartInv == ASSUME GraceInv, HRestart PROVE GraceInv'
<1>1. HTypeOK'
  BY DEF GraceInv, HTypeOK, TypeOK, HRestart, Restart
<1>2. /\ \A k \in Keys : teststatus'[k] = Nil
      /\ UNCHANGED <<now, gracetime, sent, run, maxgrace, steady>>
  BY DEF HRestart, Restart
<1>3. QED
  BY <1>1, <1>2 DEF GraceInv, BelievedIsSent, ColorIsObserved, NoFalseAlarm, DeadlineIsOnset,
     GraceWithinMax, RunsInPast, DeadlineIsNear, HeldHasDeadline, NoOverdueAlarm

LEMMA StutterInv == ASSUME GraceInv, UNCHANGED hvars PROVE GraceInv'
BY DEF hvars, GraceInv, HTypeOK, TypeOK, BelievedIsSent, ColorIsObserved, NoFalseAlarm,
   DeadlineIsOnset, GraceWithinMax, RunsInPast, DeadlineIsNear, HeldHasDeadline, NoOverdueAlarm

(* The invariant of the tracker with its history.                          *)
THEOREM GraceInvariant == HSpec => []GraceInv
<1>1. GraceInv /\ [HNext]_hvars => GraceInv'
  BY HSendInv, HReadcfgInv, HClockInv, HClockSetBackInv, HRestartInv, StutterInv DEF HNext
<1>2. QED BY <1>1, InitInv, PTL DEF HSpec

(* Runs, onsets and deadlines carry times of the clock and grace times are *)
(* never negative, whatever mrsend, readcfg and the clock do.              *)
THEOREM HistoryTypeOK == HSpec => []HTypeOK
<1>1. GraceInv => HTypeOK
  BY DEF GraceInv
<1>2. QED BY <1>1, GraceInvariant, PTL

(* No false alarm, for every configuration and every clock.                *)
THEOREM TrackerNoFalseAlarm == HSpec => []NoFalseAlarm
<1>1. GraceInv => NoFalseAlarm
  BY DEF GraceInv
<1>2. QED BY <1>1, GraceInvariant, PTL

(* No overdue alarm, for every configuration, while the clock is not set   *)
(* back.                                                                   *)
THEOREM TrackerNoOverdueAlarm == HSpec => []NoOverdueAlarm
<1>1. GraceInv => NoOverdueAlarm
  BY DEF GraceInv
<1>2. QED BY <1>1, GraceInvariant, PTL

(* An alarm fires only after the grace time of its onset.                  *)
THEOREM TrackerAlarmAfterGrace == HSpec => AlarmAfterGrace
<1>1. ASSUME GraceInv, [HNext]_hvars, NEW j \in Keys, AlarmFires(j)
      PROVE  firstBad'[j] # Nil /\ now - firstBad'[j].at >= firstBad'[j].grace
  <2>1. sent'[j] # sent[j]
    BY <1>1 DEF AlarmFires
  <2>2. PICK k \in Keys, c \in Colors, is \in {0, 1, 2} : HSend(k, c, is)
    BY <1>1, <2>1 DEF HNext, hvars, HReadcfg, readcfg, HClockAdvances, ClockAdvances,
       HClockSetBack, ClockSetBack, HRestart, Restart
  <2>3. j = k
    BY <1>1, <2>1, <2>2, HSendOther DEF GraceInv
  <2>4. /\ HTypeOK /\ DeadlineIsOnset
        /\ teststatus[k] # Nil /\ teststatus[k].color = "green"
    BY <1>1, <2>3 DEF AlarmFires, GraceInv, BelievedIsSent
  <2>5. is = 2 /\ c # "green" /\ now >= Deadline(k)
    BY <1>1, <2>1, <2>2, <2>3, <2>4, HSendSame DEF AlarmFires
  <2>6. firstBad'[k] = NextOnset(k, c, is)
    BY <2>2, <2>4, HSendSame
  <2>7. /\ firstBad'[k] # Nil
        /\ Deadline(k) = firstBad'[k].at + firstBad'[k].grace
        /\ firstBad'[k].at \in Int /\ firstBad'[k].grace \in Int
    <3>1. CASE firstBad[k] = Nil
      <4>1. firstBad'[k] = [at |-> now, grace |-> lookup_grace(k)]
        BY <2>5, <2>6, <3>1 DEF NextOnset
      <4>2. Deadline(k) = now + lookup_grace(k)
        BY <2>4, <3>1 DEF DeadlineIsOnset, Deadline
      <4>3. now \in Time /\ lookup_grace(k) \in Nat
        BY <2>4, DeadlineType DEF HTypeOK, TypeOK
      <4>4. [at |-> now, grace |-> lookup_grace(k)] # Nil
        BY <4>3, HistoryAssumption DEF Onset
      <4>5. QED BY <4>1, <4>2, <4>3, <4>4 DEF Time
    <3>2. CASE firstBad[k] # Nil
      <4>1. firstBad'[k] = firstBad[k]
        BY <2>5, <2>6, <3>2 DEF NextOnset
      <4>2. Deadline(k) = firstBad[k].at + firstBad[k].grace
        BY <2>4, <3>2 DEF DeadlineIsOnset, Deadline
      <4>3. firstBad[k].at \in Int /\ firstBad[k].grace \in Int
        BY <2>4, <3>2 DEF HTypeOK, Onset, Time
      <4>4. QED BY <3>2, <4>1, <4>2, <4>3
    <3>3. QED BY <3>1, <3>2
  <2>8. now \in Int
    BY <2>4 DEF HTypeOK, TypeOK, Time
  <2>9. QED BY <2>3, <2>5, <2>7, <2>8
<1>2. GraceInv /\ [HNext]_hvars =>
        [\A k \in Keys :
           AlarmFires(k) =>
             firstBad'[k] # Nil /\ now - firstBad'[k].at >= firstBad'[k].grace]_hvars
  BY <1>1
<1>3. QED BY <1>2, GraceInvariant, PTL DEF HSpec, AlarmAfterGrace

=============================================================================
