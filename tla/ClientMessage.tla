--------------------------- MODULE ClientMessage ----------------------------
(***************************************************************************)
(* What one call of the client log promises: its steps write one text, in  *)
(* their order, and the display is handed one message: the whole text, or  *)
(* the text of the steps that were done with an error note behind it.      *)
(* Once, the rest of the text may be put where no reader finds it; from    *)
(* then on nobody reads that rest, and the note only by luck.              *)
(***************************************************************************)
EXTENDS Naturals

CONSTANTS
  Steps,  \* how many steps the text has
  Nil     \* no message, nothing lost

VARIABLES
  written,  \* steps done
  lost,     \* the steps that can be read once the rest is lost
  message   \* what the display was handed: how many steps can be read, and
            \* whether the error note can

vars == <<written, lost, message>>

Init == written = 0 /\ lost = Nil /\ message = Nil

Write ==
  /\ message = Nil
  /\ written < Steps
  /\ written' = written + 1
  /\ UNCHANGED <<lost, message>>

Lose ==
  /\ message = Nil /\ lost = Nil
  /\ 0 < written /\ written < Steps
  /\ lost' = written
  /\ UNCHANGED <<written, message>>

Deliver ==
  /\ message = Nil
  /\ written = Steps
  /\ message' = [steps |-> IF lost = Nil THEN Steps ELSE lost, note |-> FALSE]
  /\ UNCHANGED <<written, lost>>

GiveUp ==
  /\ message = Nil
  /\ \/ message' = [steps |-> written, note |-> TRUE]
     \/ lost # Nil /\ message' = [steps |-> lost, note |-> FALSE]
  /\ UNCHANGED <<written, lost>>

Next == Write \/ Lose \/ Deliver \/ GiveUp

Spec == Init /\ [][Next]_vars
=============================================================================
