--------------------------- MODULE ReportFilter ----------------------------
(***************************************************************************)
(* What mrsend promises to the displays, without saying how it remembers:  *)
(* an observation of a test is reported, or masked by a green report, or   *)
(* left out.  It may be masked only while the display shows green and the  *)
(* observation is not green; it may be left out only when the display was  *)
(* given that very colour less than mrsleep seconds ago.  StatusTracker    *)
(* implements this specification: the list teststatus is its bookkeeping.  *)
(***************************************************************************)
EXTENDS Integers

CONSTANTS Keys, Colors, Nil

VARIABLES
  now,      \* the clock
  mrsleep,  \* the keep-alive interval
  sent,     \* per key, the last report: its colour and its time, or Nil
  call      \* the observation just made, <<key, colour>>, or Nil: every call
            \* is in view, the ones that report nothing too

vars == <<now, mrsleep, sent, call>>

Init ==
  /\ sent = [k \in Keys |-> Nil]
  /\ call = Nil

Give(k, c) == sent' = [sent EXCEPT ![k] = [color |-> c, at |-> now]]

Pass(k, c) == Give(k, c)

Mask(k, c) ==
  /\ sent[k] # Nil
  /\ sent[k].color = "green"
  /\ c # "green"
  /\ Give(k, "green")

Skip(k, c) ==
  /\ sent[k] # Nil
  /\ sent[k].color = c
  /\ sent[k].at <= now
  /\ now - sent[k].at < mrsleep
  /\ UNCHANGED sent

Observe(k, c) ==
  /\ call' = <<k, c>>
  /\ Pass(k, c) \/ Mask(k, c) \/ Skip(k, c)
  /\ UNCHANGED <<now, mrsleep>>

(* The clock and the configuration change, and the agent restarts, as they *)
(* like; none of them reports anything.                                    *)
Environment ==
  /\ call' = Nil
  /\ UNCHANGED sent

Next ==
  \/ \E k \in Keys, c \in Colors : Observe(k, c)
  \/ Environment

Spec == Init /\ [][Next]_vars

=============================================================================
