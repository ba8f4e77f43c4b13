---------------------------- MODULE SendUpdate -----------------------------
(***************************************************************************)
(* send_update of mrbig.c: one message goes to every configured display,   *)
(* over non-blocking sockets, in one thread.  The displays are set up one  *)
(* after the other; a loop of select and send hands the message over in    *)
(* pieces; the call gives up when the clock has moved more than Timeout    *)
(* seconds (10 in the code) or backwards; at the end every socket is shut  *)
(* down and closed.                                                        *)
(*                                                                         *)
(* The environment is the network (connections come up and die, the kernel *)
(* delivers what it has accepted), the wall clock, and the service control *)
(* thread, which may call stop_winsock at any moment.  What the message    *)
(* says does not matter: its bytes are numbered 1 to Size.                 *)
(***************************************************************************)
EXTENDS Integers, Sequences

CONSTANTS
  N,         \* number of displays; 1..N is the list mrdisplay
  Healthy,   \* displays whose connection comes up at once, never dies and
             \* takes all it is offered
  Size,      \* strlen of the message
  Timeout,   \* seconds the send loop may take (10 in the code)
  Attempts,  \* how often cleanup tries closesocket (10 in the code)
  MaxTime    \* bound: the clock is set to a value in 0..MaxTime

Displays == 1 .. N

ASSUME SendAssumption ==
  /\ N \in Nat
  /\ Healthy \subseteq Displays
  /\ Size \in Nat
  /\ Timeout \in Nat
  /\ Attempts \in Nat
  /\ MaxTime \in Nat

SOCKET_ERROR == -1
WSAEWOULDBLOCK == 10035

VARIABLES
  pc,          \* where send_update is; "idle" between two calls
  mp,          \* the display a loop over the list has come to; N + 1 at its end
  open,        \* the displays with mp->s # -1
  pdata,       \* per display, how much of the message is behind pdata
  remaining,   \* per display, mp->remaining; stale while the display is not open
  start_time,  \* when the send loop began
  i,           \* closesocket attempts made on the current display
  now,         \* time(NULL)
  ws_started,  \* Winsock is up
  conn,        \* per display, the connection of its socket
  inflight,    \* per display, bytes accepted by the kernel and not delivered
  handles,     \* history: displays whose socket handle has not been closed
  ready,       \* history: displays set up in the current or last call
  rounds,      \* history: a round of send calls was made in that call
  steady,      \* history: nobody has set the clock in that call
  slept,       \* history: seconds slept for the display being closed
  taken        \* history: per display, the bytes its socket has taken, in order

code == <<pc, mp, open, pdata, remaining, start_time, i>>
hist == <<ready, rounds, steady, slept, taken>>
vars == <<pc, mp, open, pdata, remaining, start_time, i, now, ws_started, conn,
          inflight, handles, ready, rounds, steady, slept, taken>>

DataOK ==
  /\ pc \in {"idle", "setup", "top", "select", "write", "shut", "close"}
  /\ mp \in 1 .. N + 1
  /\ open \subseteq Displays
  /\ pdata \in [Displays -> 0 .. Size]
  /\ remaining \in [Displays -> 0 .. Size]
  /\ start_time \in Nat
  /\ i \in 0 .. Attempts
  /\ now \in Nat
  /\ conn \in [Displays -> {"none", "pending", "up", "dead"}]
  /\ inflight \in [Displays -> 0 .. Size]
  /\ handles \subseteq Displays
  /\ ready \subseteq Displays
  /\ slept \in Nat

TakenOK == taken \in [Displays -> Seq(Nat)]

FlagsOK ==
  /\ ws_started \in BOOLEAN
  /\ rounds \in BOOLEAN
  /\ steady \in BOOLEAN

(* The program counter stays within the function, offsets and counts       *)
(* within the message.                                                     *)
TypeOK == DataOK /\ TakenOK /\ FlagsOK

Init ==
  /\ pc = "idle"
  /\ mp = 1
  /\ open = {}
  /\ pdata = [d \in Displays |-> 0]
  /\ remaining = [d \in Displays |-> 0]
  /\ start_time = 0
  /\ i = 0
  /\ now = 1
  /\ ws_started = FALSE
  /\ conn = [d \in Displays |-> "none"]
  /\ inflight = [d \in Displays |-> 0]
  /\ handles = {}
  /\ ready = {}
  /\ rounds = FALSE
  /\ steady = TRUE
  /\ slept = 0
  /\ taken = [d \in Displays |-> <<>>]

-----------------------------------------------------------------------------
(* The call: start_winsock, then one socket per display.                   *)

(* start_winsock succeeds, or Winsock was up already.  Only differences of *)
(* the clock matter within a call, so every call begins at 1; what earlier *)
(* sockets still deliver in the background is no longer followed.          *)
Call ==
  /\ pc = "idle"
  /\ ws_started' = TRUE
  /\ pc' = "setup"
  /\ mp' = 1
  /\ ready' = {}
  /\ rounds' = FALSE
  /\ steady' = TRUE
  /\ slept' = 0
  /\ now' = 1
  /\ conn' = [d \in Displays |-> "none"]
  /\ inflight' = [d \in Displays |-> 0]
  /\ UNCHANGED <<open, pdata, remaining, start_time, i, handles, taken>>

(* WSAStartup fails: send_update returns and the message is gone.          *)
CallWithoutWinsock ==
  /\ pc = "idle"
  /\ ~ws_started
  /\ ready' = {}
  /\ UNCHANGED <<code, now, ws_started, conn, inflight, handles, rounds, steady, slept, taken>>

NextDisplay == mp' = mp + 1

(* socket() fails: the display is skipped.                                 *)
SocketFails ==
  /\ pc = "setup" /\ mp \in Displays
  /\ mp \notin Healthy \/ ~ws_started
  /\ open' = open \ {mp}
  /\ NextDisplay
  /\ UNCHANGED <<pc, pdata, remaining, start_time, i, now, ws_started, conn, inflight, handles, hist>>

(* Mutant: the handle is not closed when connect fails.                    *)
SetupFailsLeaking ==
  /\ pc = "setup" /\ mp \in Displays \ Healthy /\ ws_started
  /\ open' = open \ {mp}
  /\ handles' = handles \cup {mp}
  /\ NextDisplay
  /\ UNCHANGED <<pc, pdata, remaining, start_time, i, now, ws_started, conn, inflight, hist>>

(* bind, ioctlsocket, setsockopt or connect fails at once: the new socket  *)
(* is closed again and the display is skipped.                             *)
SetupFails ==
  /\ pc = "setup" /\ mp \in Displays \ Healthy /\ ws_started
  /\ open' = open \ {mp}
  /\ NextDisplay
  /\ UNCHANGED <<pc, pdata, remaining, start_time, i, now, ws_started, conn, inflight, handles, hist>>

(* connect succeeds or would block.                                        *)
SetupSucceeds ==
  /\ pc = "setup" /\ mp \in Displays /\ ws_started
  /\ open' = open \cup {mp}
  /\ handles' = handles \cup {mp}
  /\ conn' = [conn EXCEPT ![mp] = IF mp \in Healthy THEN "up" ELSE "pending"]
  /\ pdata' = [pdata EXCEPT ![mp] = 0]
  /\ remaining' = [remaining EXCEPT ![mp] = Size]
  /\ ready' = ready \cup {mp}
  /\ taken' = [taken EXCEPT ![mp] = <<>>]
  /\ NextDisplay
  /\ UNCHANGED <<pc, start_time, i, now, ws_started, inflight, rounds, steady, slept>>

SetupDone ==
  /\ pc = "setup" /\ mp = N + 1
  /\ pc' = "top"
  /\ start_time' = now
  /\ UNCHANGED <<mp, open, pdata, remaining, i, now, ws_started, conn, inflight, handles, hist>>

-----------------------------------------------------------------------------
(* The send loop.                                                          *)

(* Mutant: tot_remaining is overwritten instead of added to.               *)
UnsentLast == {d \in open : d = N /\ remaining[d] > 0}

Unsent == {d \in open : remaining[d] > 0}

(* Mutant: the loop waits a second too long.                               *)
TimedOutLate == now > start_time + Timeout + 1 \/ now < start_time

TimedOut == now > start_time + Timeout \/ now < start_time

(* All data sent, or out of time: leave the loop.                          *)
Leave ==
  /\ pc = "top"
  /\ Unsent = {} \/ TimedOut
  /\ pc' = "shut"
  /\ mp' = 1
  /\ UNCHANGED <<open, pdata, remaining, start_time, i, now, ws_started, conn, inflight, handles, hist>>

Stay ==
  /\ pc = "top"
  /\ Unsent # {} /\ ~TimedOut
  /\ pc' = "select"
  /\ UNCHANGED <<mp, open, pdata, remaining, start_time, i, now, ws_started, conn, inflight, handles, hist>>

(* select returns at once, or after a second at most.                      *)
Select(t) ==
  /\ pc = "select"
  /\ now' = now + t
  /\ pc' = "write"
  /\ mp' = 1
  /\ rounds' = TRUE
  /\ UNCHANGED <<open, pdata, remaining, start_time, i, ws_started, conn, inflight, handles, ready, steady, slept, taken>>

(* A display that is not open or has everything is passed over.            *)
NothingToSend ==
  /\ pc = "write" /\ mp \in Displays \ Unsent
  /\ NextDisplay
  /\ UNCHANGED <<pc, open, pdata, remaining, start_time, i, now, ws_started, conn, inflight, handles, hist>>

(* Mutant: a failing display ends the round instead of being passed over.  *)
SendFailsBreak ==
  /\ pc = "write" /\ mp \in Unsent
  /\ mp \notin Healthy \/ conn[mp] # "up"
  /\ mp' = N + 1
  /\ UNCHANGED <<pc, open, pdata, remaining, start_time, i, now, ws_started, conn, inflight, handles, hist>>

(* Mutant: SOCKET_ERROR, -1, is taken for a number of bytes.               *)
SendFailsCounted ==
  /\ pc = "write" /\ mp \in Unsent
  /\ mp \notin Healthy \/ conn[mp] # "up"
  /\ pdata' = [pdata EXCEPT ![mp] = @ + SOCKET_ERROR]
  /\ remaining' = [remaining EXCEPT ![mp] = @ - SOCKET_ERROR]
  /\ NextDisplay
  /\ UNCHANGED <<pc, open, start_time, i, now, ws_started, conn, inflight, handles, hist>>

(* Mutant: a send that would block is repeated on the spot.                *)
SendFailsRepeated ==
  /\ pc = "write" /\ mp \in Unsent
  /\ mp \notin Healthy \/ conn[mp] # "up"
  /\ UNCHANGED vars

(* send returns SOCKET_ERROR: not connected yet, refused, reset, would     *)
(* block.  The display is tried again in the next round.                   *)
SendFails ==
  /\ pc = "write" /\ mp \in Unsent
  /\ mp \notin Healthy \/ conn[mp] # "up"
  /\ NextDisplay
  /\ UNCHANGED <<pc, open, pdata, remaining, start_time, i, now, ws_started, conn, inflight, handles, hist>>

(* The socket takes the next len bytes from mp->pdata on.                  *)
Take(len) == taken' = [taken EXCEPT ![mp] = @ \o [k \in 1 .. len |-> pdata[mp] + k]]

(* Mutant: pdata is not moved behind the part that was sent.               *)
SendSomeAgain(len) ==
  /\ pc = "write" /\ mp \in Unsent
  /\ conn[mp] = "up"
  /\ mp \in Healthy => len = remaining[mp]
  /\ len \in 1 .. remaining[mp]
  /\ Take(len)
  /\ inflight' = [inflight EXCEPT ![mp] = @ + len]
  /\ remaining' = [remaining EXCEPT ![mp] = @ - len]
  /\ NextDisplay
  /\ UNCHANGED <<pc, open, pdata, start_time, i, now, ws_started, conn, handles,
                 ready, rounds, steady, slept>>

(* send takes len bytes; a display that has everything is shut down.       *)
SendSome(len) ==
  /\ pc = "write" /\ mp \in Unsent
  /\ conn[mp] = "up"
  /\ mp \in Healthy => len = remaining[mp]
  /\ len \in 1 .. remaining[mp]
  /\ Take(len)
  /\ inflight' = [inflight EXCEPT ![mp] = @ + len]
  /\ pdata' = [pdata EXCEPT ![mp] = @ + len]
  /\ remaining' = [remaining EXCEPT ![mp] = @ - len]
  /\ NextDisplay
  /\ UNCHANGED <<pc, open, start_time, i, now, ws_started, conn, handles,
                 ready, rounds, steady, slept>>

RoundDone ==
  /\ pc = "write" /\ mp = N + 1
  /\ pc' = "top"
  /\ UNCHANGED <<mp, open, pdata, remaining, start_time, i, now, ws_started, conn, inflight, handles, hist>>

-----------------------------------------------------------------------------
(* Cleanup: shut every socket down, then close each.                       *)

ShutDown ==
  /\ pc = "shut"
  /\ pc' = "close"
  /\ i' = 0
  /\ slept' = 0
  /\ UNCHANGED <<mp, open, pdata, remaining, start_time, now, ws_started, conn, inflight, handles, ready, rounds, steady, taken>>

NothingToClose ==
  /\ pc = "close" /\ mp \in Displays \ open
  /\ NextDisplay
  /\ UNCHANGED <<pc, open, pdata, remaining, start_time, i, now, ws_started, conn, inflight, handles, hist>>

(* The kernel still has data to deliver on the display's connection.       *)
Draining(d) == conn[d] = "up" /\ inflight[d] > 0

(* closesocket on a lingering non-blocking socket: it fails, leaving the   *)
(* handle open, while data is unsent; and it fails on a closed handle.     *)
(* Its error code, WSAEWOULDBLOCK or another, is not its return value.     *)
closesocket(d) == IF Draining(d) \/ d \notin handles THEN SOCKET_ERROR ELSE 0

(* One turn of the loop "for (i = 0; i < 10; i++)" for one display.        *)
TryClose ==
  /\ pc = "close" /\ mp \in open /\ i < Attempts
  /\ handles' = IF closesocket(mp) = 0 THEN handles \ {mp} ELSE handles
  /\ IF closesocket(mp) = WSAEWOULDBLOCK
     THEN now' = now + 1 /\ slept' = slept + 1
     ELSE UNCHANGED <<now, slept>>
  /\ i' = i + 1
  /\ UNCHANGED <<pc, mp, open, pdata, remaining, start_time, ws_started, conn, inflight, ready, rounds, steady, taken>>

(* Lingering is switched off and the socket closed for good.               *)
ForceClose ==
  /\ pc = "close" /\ mp \in open /\ i = Attempts
  /\ handles' = handles \ {mp}
  /\ open' = open \ {mp}
  /\ i' = 0
  /\ slept' = 0
  /\ NextDisplay
  /\ UNCHANGED <<pc, pdata, remaining, start_time, now, ws_started, conn, inflight, ready, rounds, steady, taken>>

Return ==
  /\ pc = "close" /\ mp = N + 1
  /\ pc' = "idle"
  /\ UNCHANGED <<mp, open, pdata, remaining, start_time, i, now, ws_started, conn, inflight, handles, hist>>

-----------------------------------------------------------------------------
(* The environment.                                                        *)

ConnectionUp(d) ==
  /\ conn[d] = "pending"
  /\ conn' = [conn EXCEPT ![d] = "up"]
  /\ UNCHANGED <<code, now, ws_started, inflight, handles, hist>>

ConnectionDies(d) ==
  /\ d \notin Healthy
  /\ conn[d] \in {"pending", "up"}
  /\ conn' = [conn EXCEPT ![d] = "dead"]
  /\ UNCHANGED <<code, now, ws_started, inflight, handles, hist>>

Deliver(d) ==
  /\ Draining(d)
  /\ inflight' = [inflight EXCEPT ![d] = 0]
  /\ UNCHANGED <<code, now, ws_started, conn, handles, hist>>

(* Bound: the clock is set once in a call.                                 *)
SetClock ==
  /\ steady /\ pc # "idle"
  /\ now' \in 0 .. MaxTime
  /\ steady' = FALSE
  /\ UNCHANGED <<code, ws_started, conn, inflight, handles, ready, rounds, slept, taken>>

(* ServiceCtrlHandler stops the service: stop_winsock, in another thread.  *)
stop_winsock ==
  /\ ws_started
  /\ ws_started' = FALSE
  /\ conn' = [d \in Displays |-> IF conn[d] = "none" THEN "none" ELSE "dead"]
  /\ handles' = {}
  /\ UNCHANGED <<code, now, inflight, hist>>

Environment ==
  \/ \E d \in Displays : ConnectionUp(d) \/ ConnectionDies(d) \/ Deliver(d)
  \/ SetClock
  \/ stop_winsock

Step ==
  \/ SocketFails \/ SetupFails \/ SetupSucceeds \/ SetupDone
  \/ Leave \/ Stay \/ NothingToSend \/ SendFails \/ RoundDone
  \/ \E t \in {0, 1} : Select(t)
  \/ \E len \in 1 .. Size : SendSome(len)
  \/ ShutDown \/ NothingToClose \/ TryClose \/ ForceClose \/ Return

Next == Call \/ CallWithoutWinsock \/ Step \/ Environment

Spec == Init /\ [][Next]_vars

(* The thread runs, and the wall clock goes on however often select        *)
(* returns at once.                                                        *)
Fairness == WF_vars(Step) /\ SF_vars(Select(1))

FairSpec == Spec /\ Fairness

-----------------------------------------------------------------------------
(* Every call returns, whatever the displays, the clock and the service    *)
(* control thread do: the main loop is never stuck in a report.            *)
SendReturns == (pc # "idle") ~> (pc = "idle")

(* The send loop is left at most one select after its time is up, unless   *)
(* the clock was set.                                                      *)
LoopBounded ==
  steady /\ pc \in {"top", "select", "write"} => now <= start_time + Timeout + 1

(* Nothing is given up early: when a call has returned, every display that *)
(* was set up has taken the whole message, unless the time was up or the   *)
(* clock had been set.                                                     *)
AllOrTimeout ==
  pc = "idle" /\ steady =>
    \A d \in ready : remaining[d] = 0 \/ now > start_time + Timeout

(* Displays do not hinder each other: once a round of send calls has been  *)
(* made, a healthy display has the whole message, however many of the      *)
(* others are refused, hang or die; only a stopped Winsock can cut it off. *)
HealthyServed ==
  pc = "idle" /\ rounds =>
    \A d \in Healthy \cap ready : remaining[d] = 0 \/ conn[d] = "dead"

(* What a display's socket has taken, over any number of partial sends and *)
(* failed ones between them, is a beginning of the message, every byte     *)
(* once and in its place; and when nothing remains it is the whole message.*)
(* (A connection that dies may lose the end of it, and nothing else.)      *)
MessageIntact ==
  \A d \in ready :
    /\ \A k \in 1 .. Len(taken[d]) : taken[d][k] = k
    /\ remaining[d] = 0 <=> Len(taken[d]) = Size

(* A call leaves no socket behind, not even on its error paths and not     *)
(* when Winsock is stopped under its feet.                                 *)
NoSocketLeft == pc = "idle" => handles = {} /\ open = {}

(* What the comments of the cleanup say ("gracefully terminate sockets,    *)
(* finally applying force", "wait for all data to be sent"): a socket with *)
(* data still to be delivered is forced shut only after a second's wait    *)
(* per attempt.  The code compares closesocket's return value with an      *)
(* error code it never returns, so it never waits.                         *)
WaitsForData ==
  [][\A d \in Displays : ForceClose /\ d = mp /\ Draining(d) => slept >= Attempts]_vars

=============================================================================
