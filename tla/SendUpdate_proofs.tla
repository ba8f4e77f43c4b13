------------------------- MODULE SendUpdate_proofs -------------------------
(***************************************************************************)
(* Proofs about send_update, for any number of displays, any message and   *)
(* any time limit: its type, that a display receives a beginning of the    *)
(* message and no byte of it twice, that no socket is left behind, how     *)
(* long the send loop lasts, and who has the message when it is over.      *)
(***************************************************************************)
EXTENDS SendUpdate, TLAPS

(* A socket handle belongs to an open display, and where the loops over    *)
(* the list stand says which displays can be open.                         *)
SocketsInv ==
  /\ handles \subseteq open
  /\ pc = "idle" => open = {}
  /\ pc = "setup" => \A d \in open : d < mp
  /\ pc \in {"shut", "close"} => \A d \in open : mp <= d

(* What the kernel still has to deliver was taken from the message.        *)
InflightInv ==
  /\ \A d \in open : inflight[d] <= pdata[d]
  /\ pc = "setup" => \A d \in Displays : inflight[d] = 0

(* What is behind pdata and what remains make up the message.              *)
OffsetsInv == \A d \in open \cup ready : pdata[d] + remaining[d] = Size

(* A socket has taken the bytes behind pdata, in their order.              *)
TakenInv ==
  /\ TakenOK
  /\ \A d \in ready : Len(taken[d]) = pdata[d]
  /\ \A d \in ready : \A k \in 1 .. Len(taken[d]) : taken[d][k] = k

SendInv == DataOK /\ SocketsInv /\ InflightInv /\ OffsetsInv

(* The displays are numbered from 1 on.                                    *)
LEMMA DisplayRange == \A d : d \in Displays <=> d \in Nat /\ 1 <= d /\ d <= N
BY SendAssumption DEF Displays

LEMMA SendInit == Init => SendInv
BY SendAssumption, DisplayRange DEF Init, SendInv, DataOK, SocketsInv, InflightInv, OffsetsInv

(* Every step of the call and of its environment preserves it.            *)
LEMMA SendStep == ASSUME SendInv, [Next]_vars PROVE SendInv'
<1> USE SendAssumption, DisplayRange
    DEF SendInv, DataOK, SocketsInv, InflightInv, OffsetsInv, code, hist, NextDisplay
<1>1. CASE Call
  BY <1>1 DEF Call
<1>2. CASE CallWithoutWinsock
  BY <1>2 DEF CallWithoutWinsock
<1>3. CASE SocketFails \/ SetupFails
  BY <1>3 DEF SocketFails, SetupFails
<1>4. CASE SetupSucceeds
  BY <1>4 DEF SetupSucceeds
<1>5. CASE SetupDone \/ Leave \/ Stay \/ RoundDone
  BY <1>5 DEF SetupDone, Leave, Stay, RoundDone
<1>6. ASSUME NEW t \in {0, 1}, Select(t) PROVE SendInv'
  BY <1>6 DEF Select
<1>7. CASE NothingToSend \/ SendFails
  BY <1>7 DEF NothingToSend, SendFails, Unsent
<1>8. ASSUME NEW len \in 1 .. Size, SendSome(len) PROVE SendInv'
  BY <1>8 DEF SendSome, Unsent
<1>9. CASE ShutDown \/ NothingToClose \/ Return
  BY <1>9 DEF ShutDown, NothingToClose, Return
<1>10. CASE TryClose
  BY <1>10 DEF TryClose
<1>11. CASE ForceClose
  BY <1>11 DEF ForceClose
<1>12. ASSUME NEW d \in Displays, ConnectionUp(d) \/ ConnectionDies(d) \/ Deliver(d)
       PROVE  SendInv'
  BY <1>12 DEF ConnectionUp, ConnectionDies, Deliver
<1>13. CASE SetClock
  BY <1>13 DEF SetClock
<1>14. CASE stop_winsock
  BY <1>14 DEF stop_winsock
<1>15. CASE UNCHANGED vars
  BY <1>15 DEF vars
<1>16. QED
  BY <1>1, <1>2, <1>3, <1>4, <1>5, <1>6, <1>7, <1>8, <1>9, <1>10, <1>11, <1>12, <1>13,
     <1>14, <1>15 DEF Next, Step, Environment

(* Every step keeps the flags Boolean.                                     *)
LEMMA FlagsStep == ASSUME FlagsOK, [Next]_vars PROVE FlagsOK'
BY Zenon
DEF FlagsOK, Next, Step, Environment, vars, code, hist, Call, CallWithoutWinsock, SocketFails,
    SetupFails, SetupSucceeds, SetupDone, Leave, Stay, Select, NothingToSend, SendFails,
    SendSome, RoundDone, ShutDown, NothingToClose, TryClose, ForceClose, Return, ConnectionUp,
    ConnectionDies, Deliver, SetClock, stop_winsock

LEMMA SendInvariant == Spec => [](SendInv /\ FlagsOK)
<1>1. Init => FlagsOK
  BY Zenon DEF Init, FlagsOK
<1>2. QED BY <1>1, SendInit, SendStep, FlagsStep, PTL DEF Spec

(* What a partial send takes continues what was taken before.              *)
LEMMA TakeContinues ==
  ASSUME NEW t \in Seq(Nat), NEW len \in Nat,
         \A k \in 1 .. Len(t) : t[k] = k
  PROVE  LET u == t \o [k \in 1 .. len |-> Len(t) + k]
         IN /\ u \in Seq(Nat)
            /\ Len(u) = Len(t) + len
            /\ \A k \in 1 .. Len(u) : u[k] = k
<1> DEFINE more == [k \in 1 .. len |-> Len(t) + k]
<1>1. more \in Seq(Nat) /\ Len(more) = len
  OBVIOUS
<1>2. \A k \in 1 .. len : more[k] = Len(t) + k
  OBVIOUS
<1> HIDE DEF more
<1>3. t \o more \in Seq(Nat) /\ Len(t \o more) = Len(t) + len
  BY <1>1
<1>4. ASSUME NEW k \in 1 .. Len(t) + len PROVE (t \o more)[k] = k
  BY <1>1, <1>2
<1>5. QED BY <1>3, <1>4 DEF more

LEMMA TakenStep == ASSUME SendInv, TakenInv, [Next]_vars PROVE TakenInv'
<1> USE DEF TakenInv, TakenOK, code, hist
<1>1. CASE Call
  <2>1. ready' = {} /\ UNCHANGED taken
    BY <1>1 DEF Call
  <2>2. QED BY <2>1
<1>2. CASE CallWithoutWinsock
  <2>1. ready' = {} /\ UNCHANGED taken
    BY <1>2 DEF CallWithoutWinsock
  <2>2. QED BY <2>1
<1>3. CASE SetupSucceeds
  <2>1. /\ ready' = ready \cup {mp} /\ mp \in Displays
        /\ pdata' = [pdata EXCEPT ![mp] = 0]
        /\ taken' = [taken EXCEPT ![mp] = <<>>]
    BY <1>3 DEF SetupSucceeds
  <2>2. pdata \in [Displays -> 0 .. Size] /\ ready \subseteq Displays
    BY DEF SendInv, DataOK
  <2>3. taken' \in [Displays -> Seq(Nat)]
    BY <2>1
  <2>4. taken'[mp] = <<>> /\ Len(taken'[mp]) = 0 /\ pdata'[mp] = 0
    BY <2>1, <2>2
  <2>5. \A d \in ready \ {mp} : taken'[d] = taken[d] /\ pdata'[d] = pdata[d]
    BY <2>1, <2>2
  <2>6. QED BY <2>1, <2>3, <2>4, <2>5
<1>4. ASSUME NEW len \in 1 .. Size, SendSome(len) PROVE TakenInv'
  <2> DEFINE u == taken[mp] \o [k \in 1 .. len |-> pdata[mp] + k]
  <2>1. mp \in Displays /\ taken[mp] \in Seq(Nat) /\ len \in Nat /\ pdata[mp] \in Nat
    BY <1>4, SendAssumption DEF SendSome, Unsent, SendInv, DataOK, SocketsInv
  <2>2. taken' = [taken EXCEPT ![mp] = u] /\ pdata' = [pdata EXCEPT ![mp] = @ + len]
        /\ ready' = ready
    BY <1>4 DEF SendSome, Take
  <2>3. u \in Seq(Nat)
    BY <2>1
  <2>4. mp \in ready => Len(u) = pdata[mp] + len /\ \A k \in 1 .. Len(u) : u[k] = k
    BY <2>1, TakeContinues
  <2>5. taken \in [Displays -> Seq(Nat)] /\ pdata \in [Displays -> 0 .. Size]
        /\ ready \subseteq Displays
    BY DEF SendInv, DataOK
  <2> HIDE DEF u
  <2>6. taken' \in [Displays -> Seq(Nat)]
    BY <2>1, <2>2, <2>3, <2>5
  <2>7. ASSUME NEW d \in ready'
        PROVE  Len(taken'[d]) = pdata'[d] /\ \A k \in 1 .. Len(taken'[d]) : taken'[d][k] = k
    <3>1. CASE d = mp
      BY <2>1, <2>2, <2>4, <2>5, <3>1
    <3>2. CASE d # mp
      BY <2>1, <2>2, <2>5, <3>2
    <3>3. QED BY <3>1, <3>2
  <2>8. QED BY <2>6, <2>7
<1>5. CASE UNCHANGED <<taken, pdata, ready>>
  BY <1>5
<1>6. QED
  BY <1>1, <1>2, <1>3, <1>4, <1>5
  DEF Next, Step, Environment, vars, SocketFails, SetupFails, SetupDone, Leave, Stay, Select,
      NothingToSend, SendFails, RoundDone, ShutDown, NothingToClose, TryClose, ForceClose,
      Return, ConnectionUp, ConnectionDies, Deliver, SetClock, stop_winsock

LEMMA TakenInvariant == Spec => []TakenInv
<1>1. Init => TakenInv
  BY DEF Init, TakenInv, TakenOK
<1>2. QED BY <1>1, SendInvariant, TakenStep, PTL DEF Spec

(* The call's data are well typed: no offset or count ever leaves the      *)
(* message, however the displays take it in pieces.                        *)
THEOREM SendTypeOK == Spec => []TypeOK
BY SendInvariant, TakenInvariant, PTL DEF SendInv, TakenInv, TypeOK

(* What a socket has taken is a beginning of the message, each byte once   *)
(* and in its place, and the whole of it when nothing remains.             *)
THEOREM SendIntact == Spec => []MessageIntact
<1>1. SendInv /\ TakenInv => MessageIntact
  BY SendAssumption DEF SendInv, DataOK, OffsetsInv, TakenInv, TakenOK, MessageIntact
<1>2. QED BY <1>1, SendInvariant, TakenInvariant, PTL

(* No call leaves a socket behind.                                         *)
THEOREM SendLeavesNoSocket == Spec => []NoSocketLeft
<1>1. SendInv => NoSocketLeft
  BY DEF SendInv, SocketsInv, NoSocketLeft
<1>2. QED BY <1>1, SendInvariant, PTL

-----------------------------------------------------------------------------
(* While nobody sets the clock, it has not gone back since the loop began, *)
(* and a round of the loop begins in time.                                 *)
ClockInv ==
  /\ steady /\ pc \in {"top", "select", "write", "shut"} => start_time <= now
  /\ steady /\ pc \in {"top", "write"} => now <= start_time + Timeout + 1
  /\ steady /\ pc = "select" => now <= start_time + Timeout

LEMMA ClockStep == ASSUME SendInv, ClockInv, [Next]_vars PROVE ClockInv'
<1> USE SendAssumption DEF SendInv, DataOK, ClockInv, code, hist
<1>1. CASE Call \/ CallWithoutWinsock
  BY <1>1 DEF Call, CallWithoutWinsock
<1>2. CASE SocketFails \/ SetupFails \/ SetupSucceeds
  BY <1>2 DEF SocketFails, SetupFails, SetupSucceeds
<1>3. CASE SetupDone
  BY <1>3 DEF SetupDone
<1>4. CASE Leave \/ Stay
  BY <1>4 DEF Leave, Stay, TimedOut
<1>5. ASSUME NEW t \in {0, 1}, Select(t) PROVE ClockInv'
  BY <1>5 DEF Select
<1>6. CASE NothingToSend \/ SendFails \/ (\E len \in 1 .. Size : SendSome(len)) \/ RoundDone
  BY <1>6 DEF NothingToSend, SendFails, SendSome, RoundDone
<1>7. CASE ShutDown \/ NothingToClose \/ TryClose \/ ForceClose \/ Return
  BY <1>7 DEF ShutDown, NothingToClose, TryClose, ForceClose, Return
<1>8. CASE SetClock
  BY <1>8 DEF SetClock
<1>9. CASE Environment /\ ~SetClock
  BY <1>9 DEF Environment, ConnectionUp, ConnectionDies, Deliver, stop_winsock
<1>10. CASE UNCHANGED vars
  BY <1>10 DEF vars
<1>11. QED
  BY <1>1, <1>2, <1>3, <1>4, <1>5, <1>6, <1>7, <1>8, <1>9, <1>10 DEF Next, Step, Environment

(* The displays set up in a call are the open ones until the first is      *)
(* closed, and once the loop has been left in time they have everything.   *)
ServedInv ==
  /\ pc \notin {"close", "idle"} => ready = open
  /\ steady /\ pc \in {"shut", "close", "idle"} =>
       \A d \in ready : remaining[d] = 0 \/ now > start_time + Timeout

LEMMA ServedStep == ASSUME SendInv, ClockInv, ServedInv, [Next]_vars PROVE ServedInv'
<1> USE SendAssumption, DisplayRange DEF SendInv, DataOK, SocketsInv, ServedInv, code, hist
<1>1. CASE Call \/ CallWithoutWinsock
  BY <1>1 DEF Call, CallWithoutWinsock
<1>2. CASE SocketFails \/ SetupFails \/ SetupSucceeds
  <2>1. CASE SocketFails \/ SetupFails
    BY <1>2, <2>1 DEF SocketFails, SetupFails
  <2>2. CASE SetupSucceeds
    <3>1. /\ pc = "setup" /\ pc' = pc /\ steady' = steady
          /\ open' = open \cup {mp} /\ ready' = ready \cup {mp}
      BY <2>2 DEF SetupSucceeds
    <3>2. QED BY <3>1
  <2>3. QED BY <1>2, <2>1, <2>2
<1>3. CASE SetupDone \/ Stay \/ RoundDone
  BY <1>3 DEF SetupDone, Stay, RoundDone
<1>4. CASE Leave
  BY <1>4 DEF Leave, TimedOut, Unsent, ClockInv
<1>5. CASE NothingToSend \/ SendFails
  BY <1>5 DEF NothingToSend, SendFails
<1>6. ASSUME NEW t \in {0, 1}, Select(t) PROVE ServedInv'
  BY <1>6 DEF Select
<1>7. ASSUME NEW len \in 1 .. Size, SendSome(len) PROVE ServedInv'
  BY <1>7 DEF SendSome
<1>8. CASE ShutDown \/ NothingToClose \/ Return
  BY <1>8 DEF ShutDown, NothingToClose, Return
<1>9. CASE TryClose \/ ForceClose
  BY <1>9 DEF TryClose, ForceClose
<1>10. CASE Environment
  BY <1>10 DEF Environment, ConnectionUp, ConnectionDies, Deliver, SetClock, stop_winsock
<1>11. CASE UNCHANGED vars
  BY <1>11 DEF vars
<1>12. QED
  BY <1>1, <1>2, <1>3, <1>4, <1>5, <1>6, <1>7, <1>8, <1>9, <1>10, <1>11 DEF Next, Step

LEMMA TimingInvariant == Spec => [](ClockInv /\ ServedInv)
<1>1. Init => ClockInv /\ ServedInv
  BY DEF Init, ClockInv, ServedInv
<1>2. QED BY <1>1, SendInvariant, ClockStep, ServedStep, PTL DEF Spec

(* The send loop ends in time, unless the clock is set.                    *)
THEOREM SendLoopBounded == Spec => []LoopBounded
<1>1. SendInv /\ ClockInv => LoopBounded
  BY SendAssumption DEF SendInv, DataOK, ClockInv, LoopBounded
<1>2. QED BY <1>1, SendInvariant, TimingInvariant, PTL

(* A call that returned before its time was up has handed the whole        *)
(* message to every display it had set up.                                 *)
THEOREM SendAllOrTimeout == Spec => []AllOrTimeout
<1>1. ServedInv => AllOrTimeout
  BY DEF ServedInv, AllOrTimeout
<1>2. QED BY <1>1, TimingInvariant, PTL

-----------------------------------------------------------------------------
Served(d) == remaining[d] = 0 \/ conn[d] = "dead"

(* A healthy display is connected or cut off by a stopped Winsock, and is  *)
(* served by the first round of send calls.                                *)
HealthyInv ==
  /\ \A d \in Healthy : conn[d] # "pending"
  /\ \A d \in Healthy \cap ready : conn[d] \in {"up", "dead"}
  /\ pc = "setup" => ~rounds
  /\ rounds => \A d \in Healthy \cap ready : (pc = "write" => d < mp) => Served(d)

LEMMA HealthyStep ==
  ASSUME SendInv, ServedInv, HealthyInv, [Next]_vars
  PROVE  HealthyInv'
<1> USE SendAssumption, DisplayRange
    DEF SendInv, DataOK, ServedInv, HealthyInv, Served, NextDisplay, code, hist
<1>1. CASE Call \/ CallWithoutWinsock
  BY <1>1 DEF Call, CallWithoutWinsock
<1>2. CASE SocketFails \/ SetupFails
  BY <1>2 DEF SocketFails, SetupFails
<1>3. CASE SetupSucceeds
  BY <1>3 DEF SetupSucceeds
<1>4. CASE SetupDone \/ Leave \/ Stay
  BY <1>4 DEF SetupDone, Leave, Stay
<1>5. ASSUME NEW t \in {0, 1}, Select(t) PROVE HealthyInv'
  BY <1>5 DEF Select
<1>6. CASE NothingToSend
  BY <1>6 DEF NothingToSend, Unsent
<1>7. CASE SendFails
  BY <1>7 DEF SendFails, Unsent
<1>8. ASSUME NEW len \in 1 .. Size, SendSome(len) PROVE HealthyInv'
  BY <1>8 DEF SendSome, Unsent
<1>9. CASE RoundDone
  BY <1>9 DEF RoundDone
<1>10. CASE ShutDown \/ NothingToClose \/ TryClose \/ ForceClose \/ Return
  BY <1>10 DEF ShutDown, NothingToClose, TryClose, ForceClose, Return
<1>11. ASSUME NEW d \in Displays, ConnectionUp(d) \/ ConnectionDies(d) \/ Deliver(d)
       PROVE  HealthyInv'
  BY <1>11 DEF ConnectionUp, ConnectionDies, Deliver
<1>12. CASE SetClock \/ stop_winsock
  BY <1>12 DEF SetClock, stop_winsock
<1>13. CASE UNCHANGED vars
  BY <1>13 DEF vars
<1>14. QED
  BY <1>1, <1>2, <1>3, <1>4, <1>5, <1>6, <1>7, <1>8, <1>9, <1>10, <1>11, <1>12, <1>13
  DEF Next, Step, Environment

(* A display that fails, hangs or dies never keeps the message from a      *)
(* healthy one.                                                            *)
THEOREM SendHealthyServed == Spec => []HealthyServed
<1>1. Init => HealthyInv
  BY SendAssumption DEF Init, HealthyInv
<1>2. HealthyInv => HealthyServed
  BY DEF HealthyInv, HealthyServed, Served
<1>3. QED BY <1>1, <1>2, SendInvariant, TimingInvariant, HealthyStep, PTL DEF Spec

=============================================================================
