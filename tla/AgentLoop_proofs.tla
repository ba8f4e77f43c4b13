-------------------------- MODULE AgentLoop_proofs --------------------------
(***************************************************************************)
(* Proofs about the main loop, for every number of checks, every duration, *)
(* every configuration and any clock that is set back at any time: the     *)
(* keep-alive works within the bound Gap, a lost report is made good       *)
(* within it, and the agent sleeps sanely.                                 *)
(***************************************************************************)
EXTENDS AgentLoop, StatusTracker_proofs

(* Work of i checks; the longest sleep; the two periods; the longest a     *)
(* count goes on that was begun anew n times.                              *)
WorkOf(i) == i * MaxWork
LongestSleep == Longer(LongestLoop, SLEEP_MIN)
LatePeriod == MaxFetch + LongestSleep + WorkOf(NTests + 1)
InTimePeriod == MaxFetch + Longer(LongestLoop, WorkOf(NTests + 1) + SLEEP_MIN)
Counted(n) == n * (Wait + LatePeriod)

(* Every pass observes every test, in its turn.  How long ago the last     *)
(* observation of test t can be, wherever the loop is.                     *)
Observed(t) == pc \in {"work", "report"} /\ t < test

SinceSeen(t) ==
  CASE pc = "fetch" -> WorkOf(NTests + 1 - t) + LongestSleep
    [] pc = "readcfg" -> WorkOf(NTests + 1 - t) + LongestSleep + MaxFetch
    [] pc = "work" /\ t < test -> WorkOf(test - 1 - t)
    [] pc = "report" /\ t < test -> WorkOf(test - t)
    [] pc = "work" /\ ~(t < test) ->
         WorkOf(NTests + 1 - t) + LongestSleep + MaxFetch + WorkOf(test - 1)
    [] pc = "report" /\ ~(t < test) ->
         WorkOf(NTests + 1 - t) + LongestSleep + MaxFetch + WorkOf(test)

(* The same when the clock was not set back since, neither in the pass     *)
(* that observed it: that pass then slept no longer than it should.        *)
SinceSeenInTime(t) ==
  CASE pc = "fetch" -> InTimePeriod - MaxFetch
    [] pc = "readcfg" -> InTimePeriod
    [] pc \in {"work", "report"} /\ t < test -> now - lastrun
    [] pc = "work" /\ ~(t < test) -> InTimePeriod + WorkOf(test - 1)
    [] pc = "report" /\ ~(t < test) -> InTimePeriod + WorkOf(test)

(* How much longer ago than the clock says a test was reported.            *)
Hidden(k) == age[k] - (now - teststatus[k].last)

(* When test k was last observed, no report was due.  Since then the clock *)
(* was not set back, and neither in that pass;                             *)
Steady(k) ==
  /\ Hidden(k) <= Counted(setbacks)
  /\ now - teststatus[k].last <= Wait + SinceSeen(k[2])
  /\ now - teststatus[k].last <= Wait + SinceSeenInTime(k[2])
  /\ pc \in {"work", "report"} => lastrun <= now

(* or it was set back in that pass, before;                                *)
LatePass(k) ==
  /\ Hidden(k) <= Counted(setbacks)
  /\ age[k] <= Counted(setbacks) + SinceSeen(k[2])
  /\ pc \in {"work", "report"} /\ ~Observed(k[2]) => lastrun <= now

(* or it was set back since.                                               *)
Restarted(k) ==
  /\ setbacks >= 1
  /\ age[k] <= Counted(setbacks - 1) + Wait + SinceSeen(k[2])

AgeInv ==
  \A k \in Keys : teststatus[k] # Nil => Steady(k) \/ LatePass(k) \/ Restarted(k)

(* A test that was never reported is in the first pass, and not observed   *)
(* yet.                                                                    *)
NewInv ==
  \A k \in Keys : teststatus[k] = Nil =>
    /\ ~Observed(k[2])
    /\ age[k] <= CASE pc = "fetch" -> 0
                   [] pc = "readcfg" -> MaxFetch
                   [] pc = "work" -> MaxFetch + WorkOf(test - 1)
                   [] pc = "report" -> MaxFetch + WorkOf(test)

(* The loop is never longer than its longest value once it was read.       *)
LoopInv == pc \in {"work", "report"} => mrloop <= LongestLoop

(* What the display shows otherwise than the tracker believes was lost     *)
(* when it was last reported, or later something else was.                 *)
LossInv ==
  \A k \in Keys :
    teststatus[k] # Nil /\ shown[k] # teststatus[k].color => quiet <= age[k]

LoopInvariant ==
  /\ LTypeOK /\ BelievedIsSent
  /\ LoopInv /\ AgeInv /\ NewInv /\ LossInv

-----------------------------------------------------------------------------
(* Arithmetic of the bounds.                                               *)

LEMMA WorkFacts ==
  /\ WorkOf(0) = 0
  /\ \A i \in Nat : WorkOf(i) \in Nat /\ WorkOf(i + 1) = WorkOf(i) + MaxWork
  /\ \A i, j \in Nat : WorkOf(i + j) = WorkOf(i) + WorkOf(j)
<1>1. MaxWork \in Nat
  BY LoopAssumption
<1>2. QED BY <1>1 DEF WorkOf

LEMMA LongestFacts ==
  /\ Largest(Loops) \in Loops /\ \A l \in Loops : l <= Largest(Loops)
  /\ Largest(Sleeps) \in Sleeps /\ \A s \in Sleeps : s <= Largest(Sleeps)
BY LoopAssumption DEF Largest

LEMMA BoundFacts ==
  /\ NTests \in Nat /\ MaxFetch \in Nat /\ SLEEP_MIN \in Nat \ {0} /\ MaxWork \in Nat
  /\ Wait \in Nat /\ \A s \in Sleeps : s \in Nat /\ s <= Wait + 1
  /\ LongestLoop \in Int /\ LongestLoop <= Wait + 1
  /\ LongestSleep = IF LongestLoop > SLEEP_MIN THEN LongestLoop ELSE SLEEP_MIN
  /\ LongestSleep \in Nat
<1>1. /\ Largest(Sleeps) \in Nat /\ \A s \in Sleeps : s \in Nat /\ s <= Largest(Sleeps)
      /\ Largest(Loops) \in Int
  BY LongestFacts, TrackerAssumption, LoopAssumption
<1>2. NTests \in Nat /\ MaxFetch \in Nat /\ SLEEP_MIN \in Nat \ {0} /\ MaxWork \in Nat
  BY LoopAssumption
<1>3. Wait \in Nat /\ Largest(Sleeps) <= Wait + 1
  BY <1>1 DEF Wait, Longer
<1>4. \A s \in Sleeps : s <= Wait + 1
  BY <1>1, <1>3
<1>5. LongestLoop \in Int /\ LongestLoop <= Wait + 1
  BY <1>1, <1>3 DEF LongestLoop, Shorter
<1>6. /\ LongestSleep \in Nat
      /\ LongestSleep = IF LongestLoop > SLEEP_MIN THEN LongestLoop ELSE SLEEP_MIN
  BY <1>2, <1>5 DEF LongestSleep, Longer
<1>7. QED BY <1>1, <1>2, <1>3, <1>4, <1>5, <1>6

LEMMA PeriodFacts ==
  /\ LatePeriod = Period(TRUE) /\ InTimePeriod = Period(FALSE)
  /\ LatePeriod \in Nat /\ InTimePeriod \in Nat
  /\ InTimePeriod >= MaxFetch + LongestLoop
  /\ InTimePeriod >= MaxFetch + WorkOf(NTests) + MaxWork + SLEEP_MIN
  /\ LatePeriod = MaxFetch + LongestSleep + WorkOf(NTests) + MaxWork
  /\ LatePeriod <= InTimePeriod + Wait + WorkOf(NTests)
<1>1. /\ WorkOf(NTests) \in Nat /\ WorkOf(NTests + 1) = WorkOf(NTests) + MaxWork
      /\ PassTime = WorkOf(NTests + 1)
  BY BoundFacts, WorkFacts DEF PassTime, WorkOf
<1>2. LatePeriod = Period(TRUE) /\ InTimePeriod = Period(FALSE)
  <2>1. LatePeriod = Period(TRUE)
    <3>1. Period(TRUE) = MaxFetch + (LongestSleep + WorkOf(NTests + 1))
      BY <1>1 DEF Period, LongestSleep
    <3>2. LatePeriod = MaxFetch + (LongestSleep + WorkOf(NTests + 1))
      BY <1>1, BoundFacts DEF LatePeriod
    <3>3. QED BY <3>1, <3>2, Zenon
  <2>2. InTimePeriod = Period(FALSE)
    BY <1>1 DEF Period, InTimePeriod
  <2>3. QED BY <2>1, <2>2
<1>3. /\ LatePeriod = MaxFetch + LongestSleep + WorkOf(NTests) + MaxWork
      /\ InTimePeriod >= MaxFetch + LongestLoop
      /\ InTimePeriod >= MaxFetch + WorkOf(NTests) + MaxWork + SLEEP_MIN
      /\ LatePeriod \in Nat /\ InTimePeriod \in Nat
  BY <1>1, BoundFacts DEF LatePeriod, InTimePeriod, Longer
<1>4. LatePeriod <= InTimePeriod + Wait + WorkOf(NTests)
  BY <1>1, <1>3, BoundFacts
<1>5. QED BY <1>2, <1>3, <1>4

LEMMA GapFacts ==
  /\ Counted(0) = 0
  /\ \A n \in Nat : Counted(n) \in Nat /\ Counted(n + 1) = Counted(n) + Wait + LatePeriod
  /\ \A n \in Nat : /\ Gap(n) \in Nat
                     /\ Gap(n) = Counted(n) + Wait + InTimePeriod + WorkOf(NTests)
<1>1. /\ WorkOf(NTests) \in Nat /\ LatePeriod \in Nat /\ InTimePeriod \in Nat
      /\ Wait \in Nat
  BY BoundFacts, WorkFacts, PeriodFacts
<1> DEFINE P == Wait + LatePeriod
<1>4. Counted(0) = 0 /\ \A n \in Nat : Counted(n) \in Nat /\ Counted(n + 1) = Counted(n) + P
  <2>1. P \in Nat /\ \A n : Counted(n) = n * P
    BY <1>1 DEF Counted
  <2> HIDE DEF P
  <2>2. QED BY <2>1
<1>5. \A n \in Nat : Counted(n + 1) = Counted(n) + Wait + LatePeriod
  BY <1>4, <1>1
<1>6. \A n \in Nat : Gap(n) = Counted(n) + Wait + InTimePeriod + WorkOf(NTests)
  BY PeriodFacts DEF Gap, Counted, WorkOf
<1>7. \A n \in Nat : Gap(n) \in Nat
  BY <1>1, <1>4, <1>6
<1>9. QED BY <1>4, <1>5, <1>6, <1>7

(* More checks never take less.                                            *)
LEMMA WorkGrows ==
  ASSUME NEW i \in Nat, NEW j \in Nat, i <= j
  PROVE  WorkOf(i) \in Nat /\ WorkOf(i) <= WorkOf(j)
<1>1. j - i \in Nat /\ j = i + (j - i)
  OBVIOUS
<1>2. WorkOf(j) = WorkOf(i) + WorkOf(j - i) /\ WorkOf(i) \in Nat /\ WorkOf(j - i) \in Nat
  BY <1>1, WorkFacts
<1>3. QED BY <1>2

(* All tests are of one machine: a test is one key.                        *)
LEMMA KeyFacts ==
  /\ \A k \in Keys : k[2] \in 1 .. NTests
  /\ \A j, k \in Keys : j[2] = k[2] => j = k
BY LoopAssumption DEF Keys

-----------------------------------------------------------------------------
(* Types.                                                                  *)

(* A pass that sleeps does so for SLEEP_MIN seconds at least and, when the *)
(* clock does not stand before the pass began, no longer than mrloop.      *)
LEMMA SleepFacts ==
  ASSUME LTypeOK
  PROVE  /\ sleeptime \in Nat /\ sleeptime >= SLEEP_MIN
         /\ sleeptime <= Longer(mrloop, SLEEP_MIN)
         /\ now >= lastrun /\ sleeptime # SLEEP_MIN => sleeptime = mrloop - (now - lastrun)
BY BoundFacts DEF LTypeOK, TypeOK, Time, sleeptime, Longer

LEMMA ElapseType ==
  ASSUME LTypeOK, NEW d \in Nat, NEW s \in Nat, Elapse(d, s)
  PROVE  /\ now' \in Time /\ age' \in [Keys -> Nat] /\ quiet' \in Nat /\ since' \in Nat
         /\ now' = now + d /\ quiet' <= quiet + d
         /\ \A k \in Keys : age'[k] = age[k] + d
<1>1. Gap(MaxSetBacks) \in Nat
  BY GapFacts, LoopAssumption
<1>2. now' \in Time /\ now' = now + d /\ since' \in Nat
  BY DEF Elapse
<1>3. quiet' \in Nat /\ quiet' <= quiet + d
  BY <1>1 DEF Elapse, LTypeOK, Shorter
<1>4. age' \in [Keys -> Nat] /\ \A k \in Keys : age'[k] = age[k] + d
  BY DEF Elapse, LTypeOK
<1>5. QED BY <1>2, <1>3, <1>4

LEMMA LTypeStep ==
  ASSUME LTypeOK, [LNext]_lvars
  PROVE  LTypeOK'
<1> USE DEF LTypeOK
<1>1. ASSUME UNCHANGED tracker, now' \in Time PROVE TypeOK'
  BY <1>1 DEF TypeOK, tracker
<1>2. ASSUME NEW d \in 0 .. MaxFetch, Fetch(d) PROVE LTypeOK'
  <2>1. d \in Nat /\ Elapse(d, 0)
    BY <1>2, BoundFacts DEF Fetch
  <2>2. QED BY <1>1, <1>2, <2>1, ElapseType DEF Fetch
<1>3. CASE BeginPass
  <2>1. TypeOK' /\ now' \in Time
    BY <1>3 DEF BeginPass, readcfg, TypeOK
  <2>2. mrloop' \in Int
    BY <1>3, <2>1, BoundFacts, LoopAssumption DEF BeginPass, Limited, Shorter, TypeOK
  <2>3. now' = now /\ 1 \in 1 .. NTests + 1
    BY <1>3, BoundFacts DEF BeginPass, readcfg
  <2>4. QED BY <1>3, <2>1, <2>2, <2>3 DEF BeginPass, hist, TypeOK
<1>4. ASSUME NEW d \in 0 .. MaxWork, Work(d) PROVE LTypeOK'
  <2>1. d \in Nat /\ Elapse(d, since)
    BY <1>4, BoundFacts DEF Work
  <2>2. QED BY <1>1, <1>4, <2>1, ElapseType DEF Work
<1>5. ASSUME NEW m \in Machines, NEW c \in Colors, NEW is \in {0, 1, 2}, NEW lost \in BOOLEAN,
             ReportCheck(m, c, is, lost)
      PROVE  LTypeOK'
  <2> DEFINE k == <<m, test>>
  <2>1. k \in Keys /\ mrsend(k, c, is) /\ test \in 1 .. NTests
    BY <1>5, LoopAssumption DEF ReportCheck, Keys
  <2>2. TypeOK' /\ now' = now
    BY <2>1, MrsendTypeOK DEF mrsend
  <2>3. is # 0 => sent'[k].color \in Colors
    BY <2>1, TrackerAssumption DEF mrsend, send_update, TypeOK
  <2>4. shown' \in [Keys -> Colors \cup {Nil}]
    BY <1>5, <2>3 DEF ReportCheck
  <2>5. age' \in [Keys -> Nat] /\ quiet' \in Nat
    BY <1>5 DEF ReportCheck
  <2>6. test' \in 1 .. NTests + 1
    BY <1>5, <2>1, BoundFacts DEF ReportCheck
  <2>7. QED BY <1>5, <2>2, <2>4, <2>5, <2>6 DEF ReportCheck, TypeOK
<1>6. CASE SleepOn
  <2>1. sleeptime \in Nat /\ Elapse(sleeptime, since)
    BY <1>6, SleepFacts DEF SleepOn
  <2>2. QED BY <1>1, <1>6, <2>1, ElapseType DEF SleepOn
<1>7. CASE SetBack
  BY <1>7, LoopAssumption DEF SetBack, ClockSetBack, TypeOK, loop
<1>8. CASE Start
  BY <1>8, TrackerAssumption, LoopAssumption DEF Start, TypeOK, Time
<1>9. CASE UNCHANGED lvars
  BY <1>9 DEF lvars, vars, loop, hist, TypeOK
<1>10. QED BY <1>2, <1>3, <1>4, <1>5, <1>6, <1>7, <1>8, <1>9 DEF LNext

(* The loop and the histories stay within their types.                     *)
THEOREM LoopTypeOK == LSpec => []LTypeOK
<1>1. LInit => LTypeOK
  BY TrackerAssumption, LoopAssumption, BoundFacts DEF LInit, Init, LTypeOK, TypeOK, Time
<1>2. QED BY <1>1, LTypeStep, PTL DEF LSpec

(* However the clock is set, and however long a pass took, the agent never *)
(* sleeps longer than mrloop, and always SLEEP_MIN seconds at least.       *)
THEOREM SleepIsSane == LSpec => SleepsSanely
<1>1. LTypeOK /\ [LNext]_lvars =>
        [SleepOn => /\ since' - since >= SLEEP_MIN
                    /\ since' - since <= Longer(mrloop, SLEEP_MIN)]_lvars
  <2> SUFFICES ASSUME LTypeOK, SleepOn
               PROVE  /\ since' - since >= SLEEP_MIN
                      /\ since' - since <= Longer(mrloop, SLEEP_MIN)
    OBVIOUS
  <2>1. sleeptime \in Nat /\ since \in Nat /\ since' = since + sleeptime
    BY SleepFacts DEF SleepOn, Elapse, LTypeOK
  <2>2. since' - since = sleeptime
    BY <2>1
  <2>3. QED BY <2>2, SleepFacts
<1>2. QED BY <1>1, LoopTypeOK, PTL DEF LSpec, SleepsSanely

-----------------------------------------------------------------------------
(* The three cases of AgeInv, step by step.                                *)

(* Numbers that the cases relate.                                          *)
LEMMA CaseTypes ==
  ASSUME LTypeOK, NEW k \in Keys, teststatus[k] # Nil
  PROVE  /\ age[k] \in Nat /\ now \in Nat /\ lastrun \in Nat /\ teststatus[k].last \in Nat
         /\ setbacks \in Nat /\ Counted(setbacks) \in Nat
         /\ setbacks >= 1 =>
              /\ Counted(setbacks - 1) \in Nat
              /\ Counted(setbacks) = Counted(setbacks - 1) + Wait + LatePeriod
         /\ Hidden(k) = age[k] - (now - teststatus[k].last) /\ Hidden(k) \in Int
<1>1. /\ age[k] \in Nat /\ now \in Nat /\ lastrun \in Nat /\ teststatus[k].last \in Nat
      /\ setbacks \in Nat
  BY LoopAssumption, TrackerAssumption DEF LTypeOK, TypeOK, Time
<1>2. Counted(setbacks) \in Nat
  BY <1>1, GapFacts
<1>3. ASSUME setbacks >= 1
      PROVE  /\ Counted(setbacks - 1) \in Nat
             /\ Counted(setbacks) = Counted(setbacks - 1) + Wait + LatePeriod
  <2>1. setbacks - 1 \in Nat /\ setbacks = (setbacks - 1) + 1
    BY <1>1, <1>3
  <2>2. QED BY <2>1, GapFacts
<1>4. Hidden(k) = age[k] - (now - teststatus[k].last) /\ Hidden(k) \in Int
  BY <1>1 DEF Hidden
<1>5. QED BY <1>1, <1>2, <1>3, <1>4

(* No observation is longer ago than a late period; and when the clock was *)
(* not set back it is less, or the pass has observed the test already.     *)
LEMMA SeenBounds ==
  ASSUME LTypeOK, NEW t \in 1 .. NTests
  PROVE  /\ SinceSeen(t) \in Nat /\ SinceSeen(t) <= LatePeriod
         /\ SinceSeenInTime(t) \in Int
         /\ Observed(t) => SinceSeen(t) <= WorkOf(NTests)
         /\ ~Observed(t) => SinceSeenInTime(t) <= InTimePeriod + WorkOf(NTests)
<1>1. /\ t \in Nat /\ test \in Nat /\ NTests \in Nat /\ test <= NTests + 1 /\ test >= 1
      /\ MaxFetch \in Nat /\ MaxWork \in Nat /\ LongestSleep \in Nat
      /\ InTimePeriod \in Nat /\ now - lastrun \in Int
      /\ WorkOf(NTests) \in Nat
      /\ LatePeriod = MaxFetch + LongestSleep + WorkOf(NTests) + MaxWork
  <2>1. t \in Nat /\ test \in Nat /\ NTests \in Nat /\ test <= NTests + 1 /\ test >= 1
    BY BoundFacts DEF LTypeOK
  <2>2. now - lastrun \in Int
    BY TrackerAssumption DEF LTypeOK, TypeOK, Time
  <2>3. QED BY <2>1, <2>2, BoundFacts, PeriodFacts, WorkFacts
<1>2. /\ WorkOf(NTests + 1 - t) \in Nat /\ WorkOf(NTests + 1 - t) <= WorkOf(NTests)
  <2>1. NTests + 1 - t \in Nat /\ NTests + 1 - t <= NTests
    BY <1>1
  <2>2. QED BY <1>1, <2>1, WorkGrows
<1>3. CASE pc \in {"fetch", "readcfg"}
  BY <1>1, <1>2, <1>3 DEF SinceSeen, SinceSeenInTime, Observed
<1>4. CASE pc = "work" /\ t < test
  <2>1. WorkOf(test - 1 - t) \in Nat /\ WorkOf(test - 1 - t) <= WorkOf(NTests)
    <3>1. test - 1 - t \in Nat /\ test - 1 - t <= NTests
      BY <1>1, <1>4
    <3>2. QED BY <1>1, <3>1, WorkGrows
  <2>2. QED BY <1>1, <1>4, <2>1 DEF SinceSeen, SinceSeenInTime, Observed
<1>5. CASE pc = "report" /\ t < test
  <2>1. WorkOf(test - t) \in Nat /\ WorkOf(test - t) <= WorkOf(NTests)
    <3>1. test - t \in Nat /\ test - t <= NTests
      BY <1>1, <1>5
    <3>2. QED BY <1>1, <3>1, WorkGrows
  <2>2. QED BY <1>1, <1>5, <2>1 DEF SinceSeen, SinceSeenInTime, Observed
<1>6. ASSUME ~(t < test), pc \in {"work", "report"}
      PROVE  /\ WorkOf(test) \in Nat /\ WorkOf(test - 1) \in Nat
             /\ WorkOf(test) = WorkOf(test - 1) + MaxWork
             /\ WorkOf(test) <= WorkOf(NTests)
             /\ WorkOf(NTests + 1 - t) + WorkOf(test) <= WorkOf(NTests) + MaxWork
  <2>1. test <= NTests /\ test - 1 \in Nat /\ test = (test - 1) + 1
    BY <1>1, <1>6
  <2>2. WorkOf(test) <= WorkOf(NTests)
    BY <1>1, <2>1, WorkGrows
  <2>3. WorkOf(NTests + 1 - t) + WorkOf(test) <= WorkOf(NTests) + MaxWork
    <3>1. NTests + 1 - t \in Nat /\ (NTests + 1 - t) + test \in Nat
          /\ (NTests + 1 - t) + test <= NTests + 1
      BY <1>1, <1>6
    <3>2. WorkOf((NTests + 1 - t) + test) = WorkOf(NTests + 1 - t) + WorkOf(test)
      BY <1>1, <3>1, WorkFacts
    <3>3. WorkOf((NTests + 1 - t) + test) <= WorkOf(NTests + 1)
      <4>1. NTests + 1 \in Nat
        BY <1>1
      <4>2. QED BY <3>1, <4>1, WorkGrows
    <3>4. WorkOf(NTests + 1) = WorkOf(NTests) + MaxWork
      BY <1>1, WorkFacts
    <3>5. QED BY <3>2, <3>3, <3>4
  <2>4. WorkOf(test) = WorkOf(test - 1) + MaxWork /\ WorkOf(test - 1) \in Nat
    BY <2>1, WorkFacts
  <2>5. QED BY <1>1, <2>2, <2>3, <2>4
<1>7. CASE pc = "work" /\ ~(t < test)
  BY <1>1, <1>2, <1>6, <1>7 DEF SinceSeen, SinceSeenInTime, Observed
<1>8. CASE pc = "report" /\ ~(t < test)
  BY <1>1, <1>2, <1>6, <1>8 DEF SinceSeen, SinceSeenInTime, Observed
<1>9. QED BY <1>3, <1>4, <1>5, <1>7, <1>8 DEF LTypeOK

(* d seconds go by.  What every such step leaves alone, and what the three *)
(* cases ask of it: that the last observation may be d seconds longer ago. *)
LEMMA AgeElapses ==
  ASSUME LTypeOK, NEW d \in Nat, NEW s \in Nat, Elapse(d, s),
         UNCHANGED <<teststatus, setbacks, lastrun>>,
         NEW k \in Keys, teststatus[k] # Nil,
         Steady(k) \/ LatePass(k) \/ Restarted(k),
         SinceSeen(k[2]) + d <= SinceSeen(k[2])', SinceSeen(k[2])' \in Nat,
         SinceSeenInTime(k[2])' \in Int,
         Steady(k) => now + d - teststatus[k].last <= Wait + SinceSeenInTime(k[2])',
         pc' \in {"work", "report"} => pc \in {"work", "report"},
         pc' \in {"work", "report"} /\ ~Observed(k[2])' => ~Observed(k[2])
  PROVE  (Steady(k) \/ LatePass(k) \/ Restarted(k))'
<1>1. /\ now' = now + d /\ age'[k] = age[k] + d /\ now' \in Nat /\ age'[k] \in Nat
      /\ teststatus' = teststatus /\ setbacks' = setbacks /\ lastrun' = lastrun
  BY ElapseType, TrackerAssumption DEF Time
<1>2. /\ age[k] \in Nat /\ now \in Nat /\ lastrun \in Nat /\ teststatus[k].last \in Nat
      /\ Counted(setbacks) \in Nat /\ Wait \in Nat /\ setbacks \in Nat
      /\ setbacks >= 1 => Counted(setbacks - 1) \in Nat
      /\ SinceSeen(k[2]) \in Nat
  BY CaseTypes, BoundFacts, SeenBounds, KeyFacts
<1>3. Hidden(k)' = Hidden(k)
  BY <1>1, <1>2 DEF Hidden
<1>4. lastrun <= now => lastrun' <= now'
  BY <1>1, <1>2
<1>5. CASE Steady(k)
  <2>1. now' - teststatus[k].last <= Wait + SinceSeen(k[2])'
    BY <1>1, <1>2, <1>5 DEF Steady
  <2>2. now' - teststatus[k].last <= Wait + SinceSeenInTime(k[2])'
    <3>1. now + d - teststatus[k].last <= Wait + SinceSeenInTime(k[2])'
      BY <1>5
    <3>2. now' = now + d
      BY <1>1
    <3>3. now + d - teststatus[k].last = now' - teststatus[k].last
      BY <1>2, <3>2
    <3>4. QED BY <3>1, <3>3, Zenon
  <2>3. Hidden(k)' <= Counted(setbacks)'
    BY <1>1, <1>3, <1>5 DEF Steady
  <2>4. Steady(k)'
    BY <1>1, <1>4, <1>5, <2>1, <2>2, <2>3 DEF Steady
  <2>5. QED BY <2>4
<1>6. CASE LatePass(k)
  <2>1. age'[k] <= Counted(setbacks)' + SinceSeen(k[2])'
    BY <1>1, <1>2, <1>6 DEF LatePass
  <2>2. Hidden(k)' <= Counted(setbacks)'
    BY <1>1, <1>3, <1>6 DEF LatePass
  <2>3. LatePass(k)'
    BY <1>4, <1>6, <2>1, <2>2 DEF LatePass
  <2>4. QED BY <2>3
<1>7. CASE Restarted(k)
  <2>1. age'[k] <= Counted(setbacks - 1)' + Wait + SinceSeen(k[2])'
    BY <1>1, <1>2, <1>7 DEF Restarted
  <2>2. Restarted(k)'
    BY <1>1, <1>7, <2>1 DEF Restarted
  <2>3. QED BY <2>2
<1>8. QED BY <1>5, <1>6, <1>7

LEMMA AgeFetch ==
  ASSUME LTypeOK, AgeInv, NEW d \in 0 .. MaxFetch, Fetch(d)
  PROVE  AgeInv'
<1> SUFFICES ASSUME NEW k \in Keys, teststatus'[k] # Nil
             PROVE  (Steady(k) \/ LatePass(k) \/ Restarted(k))'
  BY DEF AgeInv
<1>1. /\ d \in Nat /\ d <= MaxFetch /\ MaxFetch \in Nat /\ Elapse(d, 0)
      /\ UNCHANGED <<teststatus, setbacks, lastrun>>
      /\ pc = "fetch" /\ pc' = "readcfg" /\ test' = test
  BY BoundFacts DEF Fetch, tracker
<1>2. /\ SinceSeen(k[2]) \in Nat /\ SinceSeenInTime(k[2]) \in Int /\ k[2] \in 1 .. NTests
      /\ InTimePeriod \in Nat
  BY SeenBounds, KeyFacts, PeriodFacts
<1>3. SinceSeen(k[2])' = SinceSeen(k[2]) + MaxFetch
  BY <1>1 DEF SinceSeen
<1>4. SinceSeenInTime(k[2])' = InTimePeriod /\ SinceSeenInTime(k[2]) = InTimePeriod - MaxFetch
  BY <1>1 DEF SinceSeenInTime
<1>5. Steady(k) => now + d - teststatus[k].last <= Wait + SinceSeenInTime(k[2])'
  BY <1>1, <1>2, <1>4, CaseTypes, BoundFacts DEF Steady
<1>6. SinceSeen(k[2]) + d <= SinceSeen(k[2])' /\ SinceSeen(k[2])' \in Nat
  BY <1>1, <1>2, <1>3
<1>7. Steady(k) \/ LatePass(k) \/ Restarted(k)
  BY <1>1 DEF AgeInv
<1>8. QED BY <1>1, <1>2, <1>4, <1>5, <1>6, <1>7, AgeElapses

LEMMA AgeWork ==
  ASSUME LTypeOK, AgeInv, NEW d \in 0 .. MaxWork, Work(d)
  PROVE  AgeInv'
<1> SUFFICES ASSUME NEW k \in Keys, teststatus'[k] # Nil
             PROVE  (Steady(k) \/ LatePass(k) \/ Restarted(k))'
  BY DEF AgeInv
<1>1. /\ d \in Nat /\ d <= MaxWork /\ MaxWork \in Nat /\ since \in Nat /\ Elapse(d, since)
      /\ UNCHANGED <<teststatus, setbacks, lastrun>>
      /\ pc = "work" /\ pc' = "report" /\ test' = test
      /\ now' = now + d /\ now \in Nat /\ lastrun \in Nat
  BY BoundFacts, TrackerAssumption DEF Work, tracker, LTypeOK, TypeOK, Time, Elapse
<1>2. /\ SinceSeen(k[2]) \in Nat /\ SinceSeenInTime(k[2]) \in Int /\ k[2] \in 1 .. NTests
      /\ test \in 1 .. NTests + 1 /\ NTests \in Nat
  BY SeenBounds, KeyFacts, BoundFacts DEF LTypeOK
<1>3. /\ WorkOf(test) = WorkOf(test - 1) + MaxWork
      /\ k[2] < test => WorkOf(test - k[2]) = WorkOf(test - 1 - k[2]) + MaxWork
  <2>1. test - 1 \in Nat /\ test = (test - 1) + 1
    BY <1>2
  <2>2. k[2] < test => /\ test - 1 - k[2] \in Nat
                       /\ test - k[2] = (test - 1 - k[2]) + 1
    BY <1>2
  <2>3. QED BY <2>1, <2>2, WorkFacts
<1>4. /\ WorkOf(test - 1) \in Nat /\ InTimePeriod \in Nat /\ LongestSleep \in Nat
      /\ WorkOf(NTests + 1 - k[2]) \in Nat /\ MaxFetch \in Nat
      /\ k[2] < test => WorkOf(test - 1 - k[2]) \in Nat
  <2>1. test - 1 \in Nat /\ NTests + 1 - k[2] \in Nat /\ (k[2] < test => test - 1 - k[2] \in Nat)
    BY <1>2
  <2>2. QED BY <2>1, WorkFacts, PeriodFacts, BoundFacts
<1>5. SinceSeen(k[2])' = SinceSeen(k[2]) + MaxWork
  BY <1>1, <1>2, <1>3, <1>4 DEF SinceSeen
<1>6. /\ SinceSeenInTime(k[2])' \in Int
      /\ SinceSeenInTime(k[2])' >= SinceSeenInTime(k[2]) + d
  BY <1>1, <1>2, <1>3, <1>4 DEF SinceSeenInTime
<1>7. Steady(k) => now + d - teststatus[k].last <= Wait + SinceSeenInTime(k[2])'
  BY <1>1, <1>2, <1>6, CaseTypes, BoundFacts DEF Steady
<1>8. SinceSeen(k[2]) + d <= SinceSeen(k[2])' /\ SinceSeen(k[2])' \in Nat
  BY <1>1, <1>2, <1>5
<1>9. Observed(k[2])' = Observed(k[2])
  BY <1>1 DEF Observed
<1>10. Steady(k) \/ LatePass(k) \/ Restarted(k)
  BY <1>1 DEF AgeInv
<1>11. QED BY <1>1, <1>6, <1>7, <1>8, <1>9, <1>10, AgeElapses

LEMMA AgeSleep ==
  ASSUME LTypeOK, LoopInv, AgeInv, SleepOn
  PROVE  AgeInv'
<1> SUFFICES ASSUME NEW k \in Keys, teststatus'[k] # Nil
             PROVE  (Steady(k) \/ LatePass(k) \/ Restarted(k))'
  BY DEF AgeInv
<1> DEFINE d == sleeptime
           t == k[2]
<1>1. /\ d \in Nat /\ since \in Nat /\ Elapse(d, since)
      /\ UNCHANGED <<teststatus, setbacks, lastrun>>
      /\ pc = "report" /\ pc' = "fetch" /\ test' = test
  BY SleepFacts DEF SleepOn, tracker, LTypeOK
<1>2. /\ t \in 1 .. NTests /\ NTests \in Nat /\ test = NTests + 1 /\ t < test
  BY KeyFacts, BoundFacts, LoopAssumption DEF SleepOn, LTypeOK
<1>3. /\ mrloop \in Int /\ mrloop <= LongestLoop /\ d >= SLEEP_MIN /\ d <= LongestSleep
      /\ now >= lastrun /\ d # SLEEP_MIN => d = mrloop - (now - lastrun)
  BY <1>1, SleepFacts, BoundFacts DEF LoopInv, LTypeOK, Longer
<1>4. /\ SinceSeen(t) = WorkOf(test - t) /\ SinceSeenInTime(t) = now - lastrun
      /\ SinceSeen(t)' = WorkOf(NTests + 1 - t) + LongestSleep
      /\ SinceSeenInTime(t)' = InTimePeriod - MaxFetch
  BY <1>1, <1>2 DEF SinceSeen, SinceSeenInTime
<1>5. SinceSeen(t) \in Nat /\ SinceSeen(t) <= WorkOf(NTests) /\ WorkOf(NTests) \in Nat
  BY <1>1, <1>2, SeenBounds, WorkFacts DEF Observed
<1>6. SinceSeen(t) + d <= SinceSeen(t)' /\ SinceSeen(t)' \in Nat
  BY <1>1, <1>2, <1>3, <1>4, <1>5, BoundFacts
<1>7. Steady(k) => now + d - teststatus[k].last <= Wait + SinceSeenInTime(t)'
  <2>1. SUFFICES ASSUME Steady(k)
                 PROVE  now + d - teststatus[k].last <= Wait + (InTimePeriod - MaxFetch)
    BY <1>4
  <2>2. /\ now - teststatus[k].last <= Wait + SinceSeen(t)
        /\ now - teststatus[k].last <= Wait + (now - lastrun)
        /\ lastrun <= now
    BY <1>1, <1>4, <2>1 DEF Steady
  <2>3. /\ now \in Nat /\ lastrun \in Nat /\ teststatus[k].last \in Nat /\ Wait \in Nat
        /\ InTimePeriod \in Nat /\ MaxFetch \in Nat /\ MaxWork \in Nat /\ LongestLoop \in Int
        /\ SLEEP_MIN \in Nat
        /\ InTimePeriod >= MaxFetch + LongestLoop
        /\ InTimePeriod >= MaxFetch + WorkOf(NTests) + MaxWork + SLEEP_MIN
    BY <1>1, CaseTypes, PeriodFacts, BoundFacts
  <2> HIDE DEF d, t
  <2>4. CASE d = SLEEP_MIN
    BY <1>1, <1>5, <2>2, <2>3, <2>4
  <2>5. CASE d # SLEEP_MIN
    BY <1>1, <1>3, <2>2, <2>3, <2>5
  <2>6. QED BY <2>4, <2>5
<1>8. SinceSeenInTime(t)' \in Int
  <2>1. InTimePeriod \in Nat /\ MaxFetch \in Nat
    BY PeriodFacts, BoundFacts, Zenon
  <2>2. InTimePeriod - MaxFetch \in Int
    BY <2>1
  <2>3. QED BY <1>4, <2>2, Zenon
<1>9. Steady(k) \/ LatePass(k) \/ Restarted(k)
  BY <1>1 DEF AgeInv
<1>10. QED BY <1>1, <1>6, <1>7, <1>8, <1>9, AgeElapses

LEMMA AgeBegin ==
  ASSUME LTypeOK, AgeInv, BeginPass
  PROVE  AgeInv'
<1> SUFFICES ASSUME NEW k \in Keys, teststatus'[k] # Nil
             PROVE  (Steady(k) \/ LatePass(k) \/ Restarted(k))'
  BY DEF AgeInv
<1>1. /\ pc = "readcfg" /\ pc' = "work" /\ test' = 1 /\ lastrun' = now /\ now' = now
      /\ teststatus' = teststatus /\ age' = age /\ setbacks' = setbacks
  BY DEF BeginPass, readcfg, hist
<1>2. k[2] \in 1 .. NTests /\ ~(k[2] < test') /\ 1 - 1 = 0 /\ NTests \in Nat /\ now \in Nat
  BY <1>1, KeyFacts, BoundFacts, CaseTypes
<1>3. /\ WorkOf(NTests + 1 - k[2]) + LongestSleep + MaxFetch \in Nat /\ WorkOf(0) = 0
      /\ InTimePeriod \in Nat
  <2>1. NTests + 1 - k[2] \in Nat
    BY <1>2
  <2>2. InTimePeriod \in Nat
    BY PeriodFacts, Zenon
  <2>3. WorkOf(NTests + 1 - k[2]) \in Nat /\ WorkOf(0) = 0
    BY <2>1, WorkFacts
  <2>4. LongestSleep \in Nat /\ MaxFetch \in Nat
    BY BoundFacts, Zenon
  <2>5. QED BY <2>2, <2>3, <2>4
<1>4. SinceSeen(k[2])' = SinceSeen(k[2])
  <2>1. SinceSeen(k[2]) = WorkOf(NTests + 1 - k[2]) + LongestSleep + MaxFetch
    BY <1>1 DEF SinceSeen
  <2>2. SinceSeen(k[2])' = WorkOf(NTests + 1 - k[2]) + LongestSleep + MaxFetch + WorkOf(1 - 1)
    BY <1>1, <1>2 DEF SinceSeen
  <2>3. QED BY <1>2, <1>3, <2>1, <2>2
<1>5. SinceSeenInTime(k[2])' = SinceSeenInTime(k[2])
  <2>1. SinceSeenInTime(k[2]) = InTimePeriod
    BY <1>1 DEF SinceSeenInTime
  <2>2. SinceSeenInTime(k[2])' = InTimePeriod + WorkOf(1 - 1)
    BY <1>1, <1>2 DEF SinceSeenInTime
  <2>3. QED BY <1>2, <1>3, <2>1, <2>2
<1>6. lastrun' <= now' /\ Hidden(k)' = Hidden(k)
  BY <1>1, <1>2 DEF Hidden
<1>7. Steady(k) \/ LatePass(k) \/ Restarted(k)
  BY <1>1 DEF AgeInv
<1>8. QED BY <1>1, <1>4, <1>5, <1>6, <1>7 DEF Steady, LatePass, Restarted

LEMMA AgeSetBack ==
  ASSUME LTypeOK, AgeInv, SetBack
  PROVE  AgeInv'
<1> SUFFICES ASSUME NEW k \in Keys, teststatus'[k] # Nil
             PROVE  Restarted(k)'
  BY DEF AgeInv
<1>1. /\ pc' = pc /\ test' = test /\ lastrun' = lastrun
      /\ teststatus' = teststatus /\ age' = age /\ setbacks' = setbacks + 1
  BY DEF SetBack, ClockSetBack, loop
<1>2. SinceSeen(k[2])' = SinceSeen(k[2]) /\ SinceSeen(k[2]) \in Nat
  BY <1>1, SeenBounds, KeyFacts DEF SinceSeen
<1>3. setbacks' - 1 = setbacks /\ setbacks' >= 1
  BY <1>1, CaseTypes
<1>4. age[k] <= Counted(setbacks) + Wait + SinceSeen(k[2])
  <2>1. Steady(k) \/ LatePass(k) \/ Restarted(k)
    BY <1>1 DEF AgeInv
  <2>2. CASE Steady(k)
    BY <1>1, <1>2, <2>2, CaseTypes, BoundFacts DEF Steady
  <2>3. CASE LatePass(k)
    BY <1>1, <1>2, <2>3, CaseTypes, BoundFacts DEF LatePass
  <2>4. CASE Restarted(k)
    <3>1. setbacks >= 1 /\ age[k] <= Counted(setbacks - 1) + Wait + SinceSeen(k[2])
      BY <2>4 DEF Restarted
    <3>2. /\ Counted(setbacks - 1) \in Nat /\ LatePeriod \in Nat /\ Wait \in Nat
          /\ age[k] \in Nat
          /\ Counted(setbacks) = Counted(setbacks - 1) + Wait + LatePeriod
      BY <1>1, <3>1, CaseTypes, BoundFacts, PeriodFacts
    <3>3. QED BY <1>2, <3>1, <3>2
  <2>5. QED BY <2>1, <2>2, <2>3, <2>4
<1>5. QED BY <1>1, <1>2, <1>3, <1>4 DEF Restarted

(* A report, or none: the other tests were observed as long ago as before, *)
(* and the test of the pass has just been observed.                        *)
LEMMA SeenReport ==
  ASSUME LTypeOK, pc = "report", pc' = "work", test' = test + 1,
         UNCHANGED <<now, lastrun>>, NEW t \in 1 .. NTests
  PROVE  /\ t # test => /\ SinceSeen(t)' = SinceSeen(t)
                        /\ SinceSeenInTime(t)' = SinceSeenInTime(t)
                        /\ Observed(t)' = Observed(t)
         /\ t = test => /\ SinceSeen(t) = LatePeriod /\ ~Observed(t)
                        /\ SinceSeen(t)' = 0 /\ SinceSeenInTime(t)' = now - lastrun
                        /\ Observed(t)'
<1>1. test \in Nat /\ t \in Nat /\ NTests \in Nat
  BY BoundFacts DEF LTypeOK
<1>2. ASSUME t < test
      PROVE  /\ SinceSeen(t)' = SinceSeen(t)
             /\ SinceSeenInTime(t)' = SinceSeenInTime(t)
             /\ Observed(t)' = Observed(t)
  <2>1. t < test + 1 /\ (test + 1) - 1 - t = test - t
    BY <1>1, <1>2
  <2>2. SinceSeen(t)' = WorkOf((test + 1) - 1 - t) /\ SinceSeen(t) = WorkOf(test - t)
    BY <1>2, <2>1 DEF SinceSeen
  <2>3. SinceSeenInTime(t)' = SinceSeenInTime(t)
    BY <1>2, <2>1 DEF SinceSeenInTime
  <2>4. QED BY <1>2, <2>1, <2>2, <2>3 DEF Observed
<1>3. ASSUME t > test
      PROVE  /\ SinceSeen(t)' = SinceSeen(t)
             /\ SinceSeenInTime(t)' = SinceSeenInTime(t)
             /\ Observed(t)' = Observed(t)
  <2>1. ~(t < test + 1) /\ ~(t < test) /\ (test + 1) - 1 = test
    BY <1>1, <1>3
  <2>2. /\ SinceSeen(t)' =
             WorkOf(NTests + 1 - t) + LongestSleep + MaxFetch + WorkOf((test + 1) - 1)
        /\ SinceSeen(t) = WorkOf(NTests + 1 - t) + LongestSleep + MaxFetch + WorkOf(test)
    BY <2>1 DEF SinceSeen
  <2>3. /\ SinceSeenInTime(t)' = InTimePeriod + WorkOf((test + 1) - 1)
        /\ SinceSeenInTime(t) = InTimePeriod + WorkOf(test)
    BY <2>1 DEF SinceSeenInTime
  <2>4. Observed(t)' = Observed(t)
    BY <2>1 DEF Observed
  <2>5. QED BY <2>1, <2>2, <2>3, <2>4
<1>4. ASSUME t = test
      PROVE  /\ SinceSeen(t) = LatePeriod /\ ~Observed(t)
             /\ SinceSeen(t)' = 0 /\ SinceSeenInTime(t)' = now - lastrun
             /\ Observed(t)'
  <2>1. t < test + 1 /\ ~(t < test) /\ (test + 1) - 1 - t = 0
    BY <1>1, <1>4
  <2>2. SinceSeen(t)' = WorkOf((test + 1) - 1 - t) /\ WorkOf(0) = 0
    BY <2>1, WorkFacts DEF SinceSeen
  <2>3. SinceSeen(t) = WorkOf(NTests + 1 - t) + LongestSleep + MaxFetch + WorkOf(t)
    BY <1>4, <2>1 DEF SinceSeen
  <2>4. WorkOf(NTests + 1 - t) + WorkOf(t) = WorkOf(NTests) + MaxWork
    <3>1. NTests + 1 - t \in Nat /\ (NTests + 1 - t) + t = NTests + 1
      BY <1>1
    <3>2. WorkOf((NTests + 1 - t) + t) = WorkOf(NTests + 1 - t) + WorkOf(t)
      BY <1>1, <3>1, WorkFacts
    <3>3. QED BY <1>1, <3>1, <3>2, WorkFacts
  <2>5. SinceSeen(t) = LatePeriod
    <3>1. /\ WorkOf(NTests + 1 - t) \in Nat /\ WorkOf(t) \in Nat /\ WorkOf(NTests) \in Nat
          /\ LongestSleep \in Nat /\ MaxFetch \in Nat /\ MaxWork \in Nat
          /\ LatePeriod = MaxFetch + LongestSleep + WorkOf(NTests) + MaxWork
      <4>1. NTests + 1 - t \in Nat
        BY <1>1
      <4>2. QED BY <1>1, <4>1, WorkFacts, BoundFacts, PeriodFacts
    <3>2. QED BY <2>3, <2>4, <3>1
  <2>6. SinceSeenInTime(t)' = now - lastrun
    BY <2>1 DEF SinceSeenInTime
  <2>7. Observed(t)' /\ ~Observed(t)
    BY <2>1 DEF Observed
  <2>8. QED BY <2>1, <2>2, <2>5, <2>6, <2>7
<1>5. QED BY <1>1, <1>2, <1>3, <1>4

LEMMA AgeReport ==
  ASSUME LTypeOK, AgeInv,
         NEW m \in Machines, NEW c \in Colors, NEW is \in {0, 1, 2}, NEW lost \in BOOLEAN,
         ReportCheck(m, c, is, lost)
  PROVE  AgeInv'
<1> DEFINE r == <<m, test>>
<1> SUFFICES ASSUME NEW k \in Keys, teststatus'[k] # Nil
             PROVE  (Steady(k) \/ LatePass(k) \/ Restarted(k))'
  BY DEF AgeInv
<1>1. /\ pc = "report" /\ pc' = "work" /\ test' = test + 1
      /\ now' = now /\ lastrun' = lastrun /\ setbacks' = setbacks
      /\ age' = IF is = 0 THEN age ELSE [age EXCEPT ![r] = 0]
      /\ mrsend(r, c, is)
  BY DEF ReportCheck, mrsend
<1>2. r \in Keys /\ r[2] = test /\ k[2] \in 1 .. NTests /\ (k[2] = test => k = r)
  BY LoopAssumption, KeyFacts DEF ReportCheck, Keys
<1>3. TypeOK /\ now \in Nat /\ lastrun \in Nat /\ setbacks \in Nat /\ Wait \in Nat
      /\ Counted(setbacks) \in Nat /\ age \in [Keys -> Nat] /\ mrsleep <= Wait + 1
      /\ mrsleep \in Nat
  <2>1. TypeOK /\ mrsleep \in Sleeps /\ setbacks \in Nat /\ age \in [Keys -> Nat]
    BY LoopAssumption DEF LTypeOK, TypeOK
  <2>2. now \in Nat /\ lastrun \in Nat
    BY TrackerAssumption DEF LTypeOK, TypeOK, Time
  <2>3. QED BY <2>1, <2>2, BoundFacts, GapFacts
<1>4. /\ teststatus[k] # Nil => Steady(k) \/ LatePass(k) \/ Restarted(k)
  BY DEF AgeInv
<1>5. ASSUME k # r
      PROVE  (Steady(k) \/ LatePass(k) \/ Restarted(k))'
  <2>1. /\ SinceSeen(k[2])' = SinceSeen(k[2])
        /\ SinceSeenInTime(k[2])' = SinceSeenInTime(k[2])
        /\ Observed(k[2])' = Observed(k[2])
    BY <1>1, <1>2, <1>5, SeenReport
  <2>2. teststatus'[k] = teststatus[k] /\ age'[k] = age[k]
    BY <1>1, <1>2, <1>3, <1>5, MrsendEntry
  <2>3. Hidden(k)' = Hidden(k)
    BY <1>1, <2>2 DEF Hidden
  <2>4. QED BY <1>1, <1>4, <2>1, <2>2, <2>3 DEF Steady, LatePass, Restarted
<1>6. ASSUME k = r
      PROVE  /\ SinceSeen(k[2]) = LatePeriod /\ ~Observed(k[2])
             /\ SinceSeen(k[2])' = 0 /\ SinceSeenInTime(k[2])' = now - lastrun
             /\ Observed(k[2])'
  BY <1>1, <1>2, <1>6, SeenReport
<1>7. ASSUME k = r, Hidden(k)' <= Counted(setbacks),
             age'[k] <= Counted(setbacks),
             now - teststatus'[k].last <= Wait, teststatus'[k].last <= now,
             teststatus'[k].last \in Nat
      PROVE  (Steady(k) \/ LatePass(k))'
  <2>1. CASE lastrun <= now
    <3>1. now - teststatus'[k].last <= Wait + (now - lastrun)
      BY <1>3, <1>7, <2>1
    <3>2. now - teststatus'[k].last <= Wait + 0
      BY <1>3, <1>7
    <3>3. Steady(k)'
      BY <1>1, <1>6, <1>7, <2>1, <3>1, <3>2 DEF Steady
    <3>4. QED BY <3>3
  <2>2. CASE ~(lastrun <= now)
    <3>1. age'[k] <= Counted(setbacks) + 0
      BY <1>3, <1>7
    <3>2. LatePass(k)'
      BY <1>1, <1>6, <1>7, <3>1 DEF LatePass
    <3>3. QED BY <3>2
  <2>3. QED BY <2>1, <2>2
<1>8. CASE k = r /\ is = 0
  <2>1. /\ teststatus' = teststatus /\ age' = age
        /\ teststatus[k].last <= now /\ now - teststatus[k].last < mrsleep
    BY <1>1, <1>2, <1>3, <1>8, MrsendEntry
  <2>2. /\ teststatus[k].last \in Nat /\ age[k] \in Nat
        /\ Hidden(k) = age[k] - (now - teststatus[k].last)
        /\ setbacks >= 1 =>
              /\ Counted(setbacks - 1) \in Nat
              /\ Counted(setbacks) = Counted(setbacks - 1) + Wait + LatePeriod
    BY <2>1, CaseTypes
  <2>3. Hidden(k)' = Hidden(k) /\ now - teststatus[k].last <= Wait
    BY <1>1, <1>3, <2>1, <2>2 DEF Hidden
  <2>4. Steady(k) \/ LatePass(k) \/ Restarted(k)
    BY <1>4, <2>1
  <2>5. CASE (Steady(k) \/ LatePass(k)) /\ lastrun <= now
    <3>1. now - teststatus[k].last <= Wait + (now - lastrun)
      BY <1>3, <2>2, <2>3, <2>5
    <3>2. now - teststatus[k].last <= Wait + 0
      BY <1>3, <2>2, <2>3
    <3>3. Hidden(k) <= Counted(setbacks)
      BY <2>5 DEF Steady, LatePass
    <3>4. Steady(k)'
      BY <1>1, <1>6, <1>8, <2>1, <2>3, <2>5, <3>1, <3>2, <3>3 DEF Steady
    <3>5. QED BY <3>4
  <2>6. Steady(k) \/ LatePass(k) => lastrun <= now
    BY <1>1, <1>6, <1>8 DEF Steady, LatePass
  <2>7. CASE Restarted(k)
    <3>1. age[k] <= Counted(setbacks)
      BY <1>6, <1>8, <2>2, <2>7 DEF Restarted
    <3>2. Hidden(k) <= Counted(setbacks)
      BY <1>3, <2>1, <2>2, <3>1
    <3>3. QED BY <1>7, <1>8, <2>1, <2>2, <2>3, <3>1, <3>2
  <2>8. QED BY <2>4, <2>5, <2>6, <2>7
<1>9. CASE k = r /\ is # 0
  <2>1. teststatus'[k].last = now /\ age'[k] = 0
    BY <1>1, <1>2, <1>3, <1>9, MrsendEntry
  <2>2. Hidden(k)' = 0
    BY <1>1, <1>3, <2>1 DEF Hidden
  <2>3. now - teststatus'[k].last <= Wait /\ teststatus'[k].last <= now
    BY <1>3, <2>1
  <2>4. 0 <= Counted(setbacks)
    BY <1>3
  <2>5. QED BY <1>3, <1>7, <1>9, <2>1, <2>2, <2>3, <2>4
<1>10. QED BY <1>5, <1>8, <1>9

-----------------------------------------------------------------------------
(* The rest of the invariant.                                              *)

LEMMA BelievedStep ==
  ASSUME LTypeOK, BelievedIsSent, [LNext]_lvars
  PROVE  BelievedIsSent'
<1>1. CASE UNCHANGED <<teststatus, sent>>
  BY <1>1 DEF BelievedIsSent
<1>2. CASE Start
  BY <1>2 DEF Start, BelievedIsSent
<1>3. ASSUME NEW m \in Machines, NEW c \in Colors, NEW is \in {0, 1, 2}, NEW lost \in BOOLEAN,
             ReportCheck(m, c, is, lost)
      PROVE  BelievedIsSent'
  <2>1. <<m, test>> \in Keys /\ mrsend(<<m, test>>, c, is)
    BY <1>3 DEF ReportCheck, Keys
  <2>2. QED BY <2>1, MrsendBelieved DEF LTypeOK
<1>4. QED
  BY <1>1, <1>2, <1>3 DEF LNext, Fetch, BeginPass, readcfg, Work, SleepOn, SetBack,
     ClockSetBack, tracker, lvars, vars

LEMMA LoopStep ==
  ASSUME LTypeOK, LoopInv, [LNext]_lvars
  PROVE  LoopInv'
<1>1. CASE BeginPass
  <2>1. LTypeOK' /\ mrsleep' \in Sleeps
    BY LTypeStep DEF LTypeOK, TypeOK
  <2>2. PICK l \in Loops : mrloop' = Limited(l, mrsleep')
    BY <1>1 DEF BeginPass
  <2>3. /\ l \in Int /\ Largest(Loops) \in Int /\ l <= Largest(Loops)
        /\ mrsleep' \in Nat /\ Largest(Sleeps) \in Nat /\ mrsleep' <= Largest(Sleeps)
    BY <2>1, LongestFacts, LoopAssumption, TrackerAssumption
  <2>4. mrloop' <= LongestLoop
    BY <2>2, <2>3 DEF Limited, LongestLoop, Shorter
  <2>5. QED BY <2>4 DEF LoopInv
<1>2. CASE mrloop' = mrloop /\ (pc' \in {"work", "report"} => pc \in {"work", "report"})
  BY <1>2 DEF LoopInv
<1>3. QED
  BY <1>1, <1>2 DEF LNext, Fetch, Work, SleepOn, SetBack, ReportCheck, Start, loop, lvars, vars

LEMMA NewStep ==
  ASSUME LTypeOK, NewInv, [LNext]_lvars
  PROVE  NewInv'
<1> DEFINE Fresh(a) ==
      a <= CASE pc = "fetch" -> 0
             [] pc = "readcfg" -> MaxFetch
             [] pc = "work" -> MaxFetch + WorkOf(test - 1)
             [] pc = "report" -> MaxFetch + WorkOf(test)
<1> SUFFICES ASSUME NEW k \in Keys, teststatus'[k] = Nil
             PROVE  ~Observed(k[2])' /\ Fresh(age[k])'
  BY DEF NewInv
<1>1. /\ teststatus[k] = Nil => ~Observed(k[2]) /\ Fresh(age[k])
      /\ k[2] \in 1 .. NTests /\ NTests \in Nat /\ MaxFetch \in Nat /\ MaxWork \in Nat
      /\ test \in 1 .. NTests + 1 /\ age[k] \in Nat /\ TypeOK /\ since \in Nat
      /\ pc \in {"fetch", "readcfg", "work", "report"}
  BY KeyFacts, BoundFacts DEF NewInv, LTypeOK
<1>2. ASSUME NEW d \in 0 .. MaxFetch, Fetch(d) PROVE ~Observed(k[2])' /\ Fresh(age[k])'
  <2>1. /\ d \in Nat /\ d <= MaxFetch /\ Elapse(d, 0) /\ teststatus' = teststatus
        /\ pc = "fetch" /\ pc' = "readcfg"
    BY <1>1, <1>2 DEF Fetch, tracker
  <2>2. age'[k] = age[k] + d /\ age[k] <= 0
    BY <1>1, <2>1, ElapseType
  <2>3. age'[k] <= MaxFetch
    BY <1>1, <2>1, <2>2
  <2>4. QED BY <2>1, <2>3 DEF Observed
<1>3. CASE BeginPass
  <2>1. /\ teststatus' = teststatus /\ age' = age /\ pc = "readcfg" /\ pc' = "work" /\ test' = 1
    BY <1>3 DEF BeginPass, readcfg, hist
  <2>2. age[k] <= MaxFetch
    BY <1>1, <2>1
  <2>3. age[k] <= MaxFetch + WorkOf(1 - 1) /\ ~(k[2] < 1)
    <3>1. WorkOf(0) = 0 /\ 1 - 1 = 0
      BY WorkFacts
    <3>2. QED BY <1>1, <2>2, <3>1
  <2>4. QED BY <2>1, <2>3 DEF Observed
<1>4. ASSUME NEW d \in 0 .. MaxWork, Work(d) PROVE ~Observed(k[2])' /\ Fresh(age[k])'
  <2>1. /\ d \in Nat /\ d <= MaxWork /\ Elapse(d, since) /\ teststatus' = teststatus
        /\ pc = "work" /\ pc' = "report" /\ test' = test
    BY <1>1, <1>4 DEF Work, tracker
  <2>2. age'[k] = age[k] + d /\ age[k] <= MaxFetch + WorkOf(test - 1)
    BY <1>1, <2>1, ElapseType
  <2>3. WorkOf(test) = WorkOf(test - 1) + MaxWork /\ WorkOf(test - 1) \in Nat
    <3>1. test - 1 \in Nat /\ test = (test - 1) + 1
      BY <1>1
    <3>2. QED BY <3>1, WorkFacts
  <2>4. age'[k] <= MaxFetch + WorkOf(test)
    BY <1>1, <2>1, <2>2, <2>3
  <2>5. QED BY <1>1, <2>1, <2>4 DEF Observed
<1>5. ASSUME NEW m \in Machines, NEW c \in Colors, NEW is \in {0, 1, 2}, NEW lost \in BOOLEAN,
             ReportCheck(m, c, is, lost)
      PROVE  ~Observed(k[2])' /\ Fresh(age[k])'
  <2> DEFINE r == <<m, test>>
  <2>1. /\ r \in Keys /\ mrsend(r, c, is) /\ pc = "report" /\ pc' = "work" /\ test' = test + 1
        /\ age' = IF is = 0 THEN age ELSE [age EXCEPT ![r] = 0]
        /\ now' = now /\ lastrun' = lastrun
    BY <1>5 DEF ReportCheck, Keys, mrsend
  <2>2. teststatus'[r] # Nil
    BY <1>1, <2>1, MrsendEntry
  <2>3. k # r /\ k[2] # test
    BY <2>1, <2>2, KeyFacts
  <2>4. teststatus[k] = Nil /\ age'[k] = age[k]
    BY <1>1, <2>1, <2>3, MrsendEntry DEF LTypeOK
  <2>5. ~Observed(k[2])'
    BY <1>1, <2>1, <2>3, <2>4, SeenReport
  <2>6. age'[k] <= MaxFetch + WorkOf((test + 1) - 1)
    <3>1. (test + 1) - 1 = test
      BY <1>1
    <3>2. age[k] <= MaxFetch + WorkOf(test)
      BY <1>1, <2>1, <2>4
    <3>3. QED BY <2>4, <3>1, <3>2
  <2>7. QED BY <2>1, <2>5, <2>6
<1>6. CASE SleepOn
  <2>1. /\ teststatus' = teststatus /\ pc = "report" /\ test = NTests + 1
    BY <1>1, <1>6, LoopAssumption DEF SleepOn, tracker
  <2>2. Observed(k[2])
    BY <1>1, <2>1 DEF Observed
  <2>3. QED BY <1>1, <2>1, <2>2
<1>7. CASE Start
  <2>1. age'[k] = 0 /\ pc' = "fetch"
    BY <1>7 DEF Start
  <2>2. QED BY <2>1 DEF Observed
<1>8. CASE UNCHANGED <<teststatus, age, pc, test>>
  BY <1>1, <1>8 DEF Observed
<1>9. QED
  BY <1>2, <1>3, <1>4, <1>5, <1>6, <1>7, <1>8
     DEF LNext, SetBack, ClockSetBack, loop, hist, lvars, vars

LEMMA LossStep ==
  ASSUME LTypeOK, BelievedIsSent, LossInv, [LNext]_lvars
  PROVE  LossInv'
<1> SUFFICES ASSUME NEW k \in Keys, teststatus'[k] # Nil, shown'[k] # teststatus'[k].color
             PROVE  quiet' <= age'[k]
  BY DEF LossInv
<1>1. /\ teststatus[k] # Nil /\ shown[k] # teststatus[k].color => quiet <= age[k]
      /\ age \in [Keys -> Nat] /\ age[k] \in Nat /\ quiet \in Nat /\ TypeOK /\ since \in Nat
  BY DEF LossInv, LTypeOK
<1>2. ASSUME NEW d \in Nat, NEW s \in Nat, Elapse(d, s), UNCHANGED <<teststatus, shown>>
      PROVE  quiet' <= age'[k]
  <2>1. quiet' <= quiet + d /\ age'[k] = age[k] + d /\ quiet' \in Nat
    BY <1>2, ElapseType
  <2>2. QED BY <1>1, <1>2, <2>1
<1>3. ASSUME NEW m \in Machines, NEW c \in Colors, NEW is \in {0, 1, 2}, NEW lost \in BOOLEAN,
             ReportCheck(m, c, is, lost)
      PROVE  quiet' <= age'[k]
  <2> DEFINE r == <<m, test>>
  <2>1. /\ r \in Keys /\ mrsend(r, c, is)
        /\ is = 0 => ~lost
        /\ shown' = IF lost \/ is = 0 THEN shown ELSE [shown EXCEPT ![r] = sent'[r].color]
        /\ age' = IF is = 0 THEN age ELSE [age EXCEPT ![r] = 0]
        /\ quiet' = IF lost THEN 0 ELSE quiet
    BY <1>3 DEF ReportCheck, Keys
  <2>2. CASE lost
    BY <1>1, <2>1, <2>2
  <2>3. CASE ~lost /\ is = 0
    <3>1. teststatus' = teststatus
      BY <1>1, <2>1, <2>3, MrsendEntry
    <3>2. QED BY <1>1, <2>1, <2>3, <3>1
  <2>4. CASE ~lost /\ is # 0 /\ k # r
    <3>1. teststatus'[k] = teststatus[k]
      BY <1>1, <2>1, <2>4, MrsendEntry
    <3>2. QED BY <1>1, <2>1, <2>4, <3>1 DEF LTypeOK
  <2>5. CASE ~lost /\ is # 0 /\ k = r
    <3>1. sent'[k].color = teststatus'[k].color
      BY <1>1, <2>1, MrsendBelieved DEF BelievedIsSent
    <3>2. shown'[k] = sent'[k].color
      BY <2>1, <2>5 DEF LTypeOK
    <3>3. QED BY <3>1, <3>2
  <2>6. QED BY <2>2, <2>3, <2>4, <2>5
<1>4. CASE Start
  BY <1>4 DEF Start
<1>5. CASE UNCHANGED <<teststatus, shown, age, quiet>>
  BY <1>1, <1>5
<1>6. ASSUME NEW d \in 0 .. MaxFetch, Fetch(d) PROVE quiet' <= age'[k]
  BY <1>2, <1>6, BoundFacts DEF Fetch, tracker
<1>7. ASSUME NEW d \in 0 .. MaxWork, Work(d) PROVE quiet' <= age'[k]
  BY <1>1, <1>2, <1>7, BoundFacts DEF Work, tracker
<1>8. CASE SleepOn
  BY <1>1, <1>2, <1>8, SleepFacts DEF SleepOn, tracker
<1>9. QED
  BY <1>3, <1>4, <1>5, <1>6, <1>7, <1>8
     DEF LNext, BeginPass, readcfg, SetBack, ClockSetBack, loop, hist, lvars, vars

LEMMA AgeStep ==
  ASSUME LTypeOK, LoopInv, AgeInv, [LNext]_lvars
  PROVE  AgeInv'
<1>1. CASE Start
  BY <1>1 DEF Start, AgeInv
<1>2. CASE UNCHANGED lvars
  <2>1. /\ now' = now /\ teststatus' = teststatus /\ pc' = pc /\ test' = test
        /\ lastrun' = lastrun /\ age' = age /\ setbacks' = setbacks
    BY <1>2 DEF lvars, vars, loop, hist
  <2>2. ASSUME NEW k \in Keys
        PROVE  /\ Hidden(k)' = Hidden(k) /\ Observed(k[2])' = Observed(k[2])
               /\ SinceSeen(k[2])' = SinceSeen(k[2])
               /\ SinceSeenInTime(k[2])' = SinceSeenInTime(k[2])
    BY <2>1 DEF Hidden, Observed, SinceSeen, SinceSeenInTime
  <2>3. QED BY <2>1, <2>2 DEF AgeInv, Steady, LatePass, Restarted
<1>3. QED
  BY <1>1, <1>2, AgeFetch, AgeBegin, AgeWork, AgeReport, AgeSleep, AgeSetBack DEF LNext

-----------------------------------------------------------------------------
(* The invariant holds in every reachable state of the main loop.          *)
THEOREM LoopInvariantHolds == LSpec => []LoopInvariant
<1>1. LInit => LoopInvariant
  <2> SUFFICES ASSUME LInit PROVE LoopInvariant
    OBVIOUS
  <2>1. /\ pc = "fetch" /\ quiet = 0
        /\ \A k \in Keys : teststatus[k] = Nil /\ age[k] = 0
    BY DEF LInit, Init
  <2>2. LTypeOK
    BY TrackerAssumption, LoopAssumption, BoundFacts DEF LInit, Init, LTypeOK, TypeOK, Time
  <2>3. BelievedIsSent /\ AgeInv /\ LossInv
    BY <2>1 DEF BelievedIsSent, AgeInv, LossInv
  <2>4. NewInv /\ LoopInv
    BY <2>1 DEF NewInv, LoopInv, Observed
  <2>5. QED BY <2>2, <2>3, <2>4 DEF LoopInvariant
<1>2. LoopInvariant /\ [LNext]_lvars => LoopInvariant'
  BY LTypeStep, BelievedStep, LoopStep, AgeStep, NewStep, LossStep DEF LoopInvariant
<1>3. QED BY <1>1, <1>2, PTL DEF LSpec

(* In the reachable states no report is longer ago than Gap allows.        *)
LEMMA AgeBounded == LoopInvariant => KeepAlive
<1> SUFFICES ASSUME LoopInvariant, NEW k \in Keys PROVE age[k] <= Gap(setbacks)
  BY DEF KeepAlive
<1> DEFINE w == WorkOf(NTests)
           n == setbacks
           t == k[2]
<1>1. /\ t \in 1 .. NTests /\ test \in 1 .. NTests + 1 /\ LTypeOK
      /\ pc \in {"fetch", "readcfg", "work", "report"}
  BY KeyFacts DEF LoopInvariant, LTypeOK
<1>7. n \in Nat /\ age[k] \in Nat
  BY LoopAssumption DEF LoopInvariant, LTypeOK
<1>8. /\ w \in Nat /\ Counted(n) \in Nat /\ Wait \in Nat
      /\ NTests \in Nat /\ MaxFetch \in Nat /\ MaxWork \in Nat /\ SLEEP_MIN \in Nat
  BY <1>7, BoundFacts, GapFacts, WorkFacts
<1>2. /\ InTimePeriod \in Nat /\ LatePeriod \in Nat /\ LatePeriod <= InTimePeriod + Wait + w
      /\ InTimePeriod >= MaxFetch + w + MaxWork + SLEEP_MIN
  BY PeriodFacts
<1>3. Gap(n) = Counted(n) + Wait + InTimePeriod + w
  BY <1>7, GapFacts
<1>4. /\ SinceSeen(t) \in Nat /\ SinceSeen(t) <= LatePeriod /\ SinceSeenInTime(t) \in Int
      /\ Observed(t) => SinceSeen(t) <= w
      /\ ~Observed(t) => SinceSeenInTime(t) <= InTimePeriod + w
  BY <1>1, SeenBounds
<1>5. CASE teststatus[k] = Nil
  <2>1. /\ ~Observed(t)
        /\ age[k] <= CASE pc = "fetch" -> 0
                       [] pc = "readcfg" -> MaxFetch
                       [] pc = "work" -> MaxFetch + WorkOf(test - 1)
                       [] pc = "report" -> MaxFetch + WorkOf(test)
    BY <1>5 DEF LoopInvariant, NewInv
  <2>2. ASSUME pc \in {"work", "report"}
        PROVE  /\ WorkOf(test) \in Nat /\ WorkOf(test) <= w
               /\ WorkOf(test - 1) \in Nat /\ WorkOf(test - 1) <= w
    <3>1. test \in Nat /\ test - 1 \in Nat /\ test <= NTests /\ test - 1 <= NTests
      BY <1>1, <1>8, <2>1, <2>2 DEF Observed
    <3>2. QED BY <1>8, <3>1, WorkGrows
  <2>3. age[k] <= MaxFetch + w
    <3>1. CASE pc = "fetch"
      BY <1>7, <1>8, <2>1, <3>1
    <3>2. CASE pc = "readcfg"
      BY <1>7, <1>8, <2>1, <3>2
    <3>3. CASE pc = "work"
      BY <1>7, <1>8, <2>1, <2>2, <3>3
    <3>4. CASE pc = "report"
      BY <1>7, <1>8, <2>1, <2>2, <3>4
    <3>5. QED BY <1>1, <3>1, <3>2, <3>3, <3>4
  <2>4. QED BY <1>7, <1>8, <1>2, <1>3, <2>3
<1>6. CASE teststatus[k] # Nil
  <2>1. /\ Hidden(k) = age[k] - (now - teststatus[k].last)
        /\ now \in Nat /\ teststatus[k].last \in Nat
        /\ n >= 1 => /\ Counted(n - 1) \in Nat
                     /\ Counted(n) = Counted(n - 1) + Wait + LatePeriod
    BY <1>1, <1>6, CaseTypes
  <2>2. Steady(k) \/ LatePass(k) \/ Restarted(k)
    BY <1>6 DEF LoopInvariant, AgeInv
  <2>3. CASE Steady(k)
    <3>1. /\ Hidden(k) <= Counted(n)
          /\ now - teststatus[k].last <= Wait + SinceSeen(t)
          /\ now - teststatus[k].last <= Wait + SinceSeenInTime(t)
      BY <2>3 DEF Steady
    <3>2. now - teststatus[k].last <= Wait + (InTimePeriod + w)
      BY <1>7, <1>8, <1>2, <1>4, <2>1, <3>1
    <3>3. QED BY <1>7, <1>8, <1>2, <1>3, <2>1, <3>1, <3>2
  <2>4. CASE LatePass(k)
    <3>1. age[k] <= Counted(n) + SinceSeen(t)
      BY <2>4 DEF LatePass
    <3>2. QED BY <1>7, <1>8, <1>2, <1>3, <1>4, <3>1
  <2>5. CASE Restarted(k)
    <3>1. n >= 1 /\ age[k] <= Counted(n - 1) + Wait + SinceSeen(t)
      BY <2>5 DEF Restarted
    <3>2. QED BY <1>7, <1>8, <1>2, <1>3, <1>4, <2>1, <3>1
  <2>6. QED BY <2>2, <2>3, <2>4, <2>5
<1>9. QED BY <1>5, <1>6

(* The keep-alive works: no test goes longer without a report than Gap.    *)
THEOREM LoopKeepsAlive == LSpec => []KeepAlive
BY LoopInvariantHolds, AgeBounded, PTL

(* What was lost is made good: once nothing was lost for longer than Gap,  *)
(* the display shows what the tracker believes.                            *)
THEOREM LossIsRepaired == LSpec => []LossRepaired
<1>1. LoopInvariant => LossRepaired
  <2> SUFFICES ASSUME LoopInvariant, quiet > Gap(setbacks), NEW k \in Keys,
                      teststatus[k] # Nil, shown[k] # teststatus[k].color
               PROVE  FALSE
    BY DEF LossRepaired
  <2>1. quiet <= age[k] /\ age[k] <= Gap(setbacks)
    BY AgeBounded DEF LoopInvariant, LossInv, KeepAlive
  <2>2. quiet \in Nat /\ age[k] \in Nat /\ setbacks \in Nat
    BY LoopAssumption DEF LoopInvariant, LTypeOK
  <2>3. Gap(setbacks) \in Nat
    BY <2>2, GapFacts
  <2>4. QED BY <2>1, <2>2, <2>3
<1>2. QED BY <1>1, LoopInvariantHolds, PTL

=============================================================================
