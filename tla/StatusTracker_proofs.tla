------------------------ MODULE StatusTracker_proofs ------------------------
(***************************************************************************)
(* Proofs about the status tracker: its type invariant and its coupling    *)
(* with what was sent, for every set of machines and tests, every          *)
(* configuration and every clock.  The modules that extend the tracker, by *)
(* the history of its grace times and by the main loop around it, use the  *)
(* lemmas about a call of mrsend.                                          *)
(***************************************************************************)
EXTENDS StatusTracker, TLAPS

(* An entry of the list, once it is known not to be Nil.                   *)
Entry == [color : Colors, last : Time, grace : Nat]

(* Grace times and deadlines are natural numbers.                          *)
LEMMA DeadlineType ==
  ASSUME TypeOK, NEW k \in Keys
  PROVE  /\ k[2] \in Tests
         /\ lookup_grace(k) \in Nat
         /\ teststatus[k] # Nil => teststatus[k] \in Entry /\ Deadline(k) \in Nat
<1> USE TrackerAssumption DEF TypeOK, Time
<1>1. k[2] \in Tests
  BY DEF Keys
<1>2. lookup_grace(k) \in Nat
  BY <1>1 DEF lookup_grace
<1>3. teststatus[k] # Nil => teststatus[k] \in Entry
  BY DEF Entry
<1>4. teststatus[k] # Nil => Deadline(k) \in Nat
  BY <1>2, <1>3 DEF Deadline, Entry
<1>5. QED BY <1>1, <1>2, <1>3, <1>4

(* A call of mrsend keeps the tracker's state well typed.                  *)
LEMMA MrsendTypeOK ==
  ASSUME TypeOK, NEW k \in Keys, NEW c \in Colors, NEW is \in {0, 1, 2},
         mrsend(k, c, is)
  PROVE  TypeOK'
<1> USE TrackerAssumption DEF TypeOK, Time
<1>1. teststatus[k] # Nil => Deadline(k) \in Nat
  BY DeadlineType
<1>4. /\ UNCHANGED <<now, mrsleep, gracetime>>
      /\ insert_status(k, c, is)
  BY DEF mrsend
<1>5. teststatus' \in [Keys -> Entry \cup {Nil}]
  <2>1. ASSUME NEW col \in Colors, NEW g \in Nat, Store(k, col, g)
        PROVE  teststatus' \in [Keys -> Entry \cup {Nil}]
    BY <2>1 DEF Store, Entry
  <2>2. ASSUME UNCHANGED teststatus PROVE teststatus' \in [Keys -> Entry \cup {Nil}]
    BY <2>2 DEF Entry
  <2>3. \/ \E col \in Colors, g \in Nat : Store(k, col, g)
        \/ UNCHANGED teststatus
    BY <1>1, <1>4 DEF insert_status, NewTest, TimeDecreased, SleepExceeded, NoNeed,
       BecameGreen, WasNotGreen, GraceExpired, SitOnHands
  <2>4. QED BY <2>1, <2>2, <2>3
<1>6. sent' \in [Keys -> [color : Colors, at : Time] \cup {Nil}]
  BY DEF mrsend, send_update
<1>7. QED BY <1>4, <1>5, <1>6 DEF Entry

(* A call of mrsend keeps the tracker's belief and what was sent in step.  *)
LEMMA MrsendBelieved ==
  ASSUME TypeOK, BelievedIsSent,
         NEW k \in Keys, NEW c \in Colors, NEW is \in {0, 1, 2},
         mrsend(k, c, is)
  PROVE  BelievedIsSent'
<1> USE TrackerAssumption DEF TypeOK, Time
<1>1. SUFFICES ASSUME NEW j \in Keys, teststatus'[j] # Nil
               PROVE  /\ sent'[j] # Nil
                      /\ sent'[j].color = teststatus'[j].color
                      /\ sent'[j].at = teststatus'[j].last
  BY DEF BelievedIsSent
<1>2. CASE j # k
  BY <1>1, <1>2 DEF mrsend, send_update, BelievedIsSent, insert_status, Store, NewTest,
     TimeDecreased, SleepExceeded, NoNeed, BecameGreen, WasNotGreen, GraceExpired, SitOnHands
<1>3. CASE j = k /\ is = 0
  BY <1>1, <1>3 DEF mrsend, BelievedIsSent, insert_status, NewTest,
     TimeDecreased, SleepExceeded, NoNeed, BecameGreen, WasNotGreen, GraceExpired, SitOnHands
<1>4. CASE j = k /\ is # 0
  <2>1. \E col \in Colors, g \in Int : Store(k, col, g) /\ send_update(k, col)
    <3>1. teststatus[k] # Nil => Deadline(k) \in Int
      BY DeadlineType
    <3>2. \/ is = 2 /\ Store(k, c, 0)
          \/ is = 2 /\ Store(k, c, Deadline(k)) /\ teststatus[k] # Nil
          \/ is = 1 /\ Store(k, "green", Deadline(k)) /\ teststatus[k] # Nil
      BY <1>4 DEF mrsend, insert_status, NewTest, TimeDecreased, SleepExceeded, NoNeed,
         BecameGreen, WasNotGreen, GraceExpired, SitOnHands
    <3>3. is = 2 => send_update(k, c)
      BY DEF mrsend
    <3>4. is = 1 => send_update(k, "green")
      BY DEF mrsend
    <3>5. QED BY <3>1, <3>2, <3>3, <3>4
  <2>2. Nil # [color |-> teststatus'[j].color, at |-> now]
    BY <1>4, <2>1 DEF Store, Report
  <2>3. QED BY <1>4, <2>1, <2>2 DEF Store, send_update
<1>5. QED BY <1>2, <1>3, <1>4

(* What a call of mrsend does to the list: nothing to other tests; nothing *)
(* at all when nothing is reported, and then the test was reported less    *)
(* than mrsleep ago; and otherwise the test was reported now.              *)
LEMMA MrsendEntry ==
  ASSUME TypeOK, NEW k \in Keys, NEW c \in Colors, NEW is \in {0, 1, 2},
         mrsend(k, c, is)
  PROVE  /\ \A j \in Keys \ {k} : teststatus'[j] = teststatus[j] /\ sent'[j] = sent[j]
         /\ is = 0 =>
              /\ teststatus' = teststatus /\ sent' = sent /\ teststatus[k] # Nil
              /\ teststatus[k].last <= now /\ now - teststatus[k].last < mrsleep
         /\ is # 0 => teststatus'[k] # Nil /\ teststatus'[k].last = now
<1> USE TrackerAssumption DEF TypeOK, Time
<1>1. /\ insert_status(k, c, is)
      /\ is = 0 => sent' = sent
      /\ sent' = sent \/ \E col : send_update(k, col)
  BY DEF mrsend
<1>2. teststatus' = teststatus \/ \E col \in Colors, g \in Nat : Store(k, col, g)
  <2>1. teststatus[k] # Nil => Deadline(k) \in Nat
    BY DeadlineType
  <2>2. QED
    BY <1>1, <2>1 DEF insert_status, NewTest, TimeDecreased, SleepExceeded, NoNeed,
       BecameGreen, WasNotGreen, GraceExpired, SitOnHands
<1>3. \A j \in Keys \ {k} : teststatus'[j] = teststatus[j] /\ sent'[j] = sent[j]
  BY <1>1, <1>2 DEF Store, send_update
<1>4. ASSUME is = 0
      PROVE  /\ teststatus' = teststatus /\ sent' = sent /\ teststatus[k] # Nil
             /\ teststatus[k].last <= now /\ now - teststatus[k].last < mrsleep
  <2>1. NoNeed(k, c, is)
    BY <1>1, <1>4 DEF insert_status, NewTest, TimeDecreased, SleepExceeded,
       BecameGreen, WasNotGreen, GraceExpired, SitOnHands
  <2>2. teststatus[k] # Nil => teststatus[k].last \in Nat
    BY DeadlineType DEF Entry
  <2>3. QED BY <1>1, <1>4, <2>1, <2>2 DEF NoNeed
<1>5. ASSUME is # 0 PROVE teststatus'[k] # Nil /\ teststatus'[k].last = now
  <2>1. teststatus[k] # Nil => Deadline(k) \in Nat
    BY DeadlineType
  <2>2. \E col \in Colors, g \in Nat : Store(k, col, g)
    BY <1>1, <1>5, <2>1 DEF insert_status, NewTest, TimeDecreased, SleepExceeded, NoNeed,
       BecameGreen, WasNotGreen, GraceExpired, SitOnHands
  <2>3. QED BY <2>2 DEF Store, Status
<1>6. QED BY <1>3, <1>4, <1>5

(* Every reachable state of the tracker is well typed.                     *)
THEOREM TrackerTypeOK == Spec => []TypeOK
<1>1. Init => TypeOK
  BY TrackerAssumption DEF Init, TypeOK
<1>2. TypeOK /\ [Next]_vars => TypeOK'
  <2> SUFFICES ASSUME TypeOK, [Next]_vars PROVE TypeOK' OBVIOUS
  <2>1. ASSUME NEW k \in Keys, NEW c \in Colors, NEW is \in {0, 1, 2}, mrsend(k, c, is)
        PROVE  TypeOK'
    BY <2>1, MrsendTypeOK
  <2>2. CASE readcfg
    BY <2>2 DEF readcfg, TypeOK
  <2>3. CASE ClockAdvances
    BY <2>3 DEF ClockAdvances, TypeOK
  <2>4. CASE ClockSetBack
    BY <2>4 DEF ClockSetBack, TypeOK
  <2>5. CASE Restart
    BY <2>5 DEF Restart, TypeOK
  <2>6. CASE UNCHANGED vars
    BY <2>6 DEF vars, TypeOK
  <2>7. QED BY <2>1, <2>2, <2>3, <2>4, <2>5, <2>6 DEF Next
<1>3. QED BY <1>1, <1>2, PTL DEF Spec

(* The tracker's belief always agrees with what was handed to send_update. *)
THEOREM TrackerBelieved == Spec => []BelievedIsSent
<1>1. Init => BelievedIsSent
  BY DEF Init, BelievedIsSent
<1>2. TypeOK /\ BelievedIsSent /\ [Next]_vars => BelievedIsSent'
  <2> SUFFICES ASSUME TypeOK, BelievedIsSent, [Next]_vars PROVE BelievedIsSent' OBVIOUS
  <2>1. ASSUME NEW k \in Keys, NEW c \in Colors, NEW is \in {0, 1, 2}, mrsend(k, c, is)
        PROVE  BelievedIsSent'
    BY <2>1, MrsendBelieved
  <2>2. CASE UNCHANGED <<teststatus, sent>>
    BY <2>2 DEF BelievedIsSent
  <2>3. CASE Restart
    BY <2>3 DEF Restart, BelievedIsSent
  <2>4. QED BY <2>1, <2>2, <2>3 DEF Next, vars, readcfg, ClockAdvances, ClockSetBack
<1>3. QED BY <1>1, <1>2, TrackerTypeOK, PTL DEF Spec

=============================================================================
