----------------------------- MODULE FileTable -----------------------------
(***************************************************************************)
(* The agent's open files and its list of them, files[]: big_fopen,        *)
(* big_fclose, store_file and remove_file of mrbig.c.  The list is only    *)
(* kept while debug is at least 2, and debug may change while a file is    *)
(* open.                                                                   *)
(*                                                                         *)
(* io is the state: the FILEs that are open, the list, whether a NULL was  *)
(* ever written past the end of the list, and whether the program ended    *)
(* because the list was full.  The C library hands out the first FILE      *)
(* that is free, so a new file may have the address of an old one.         *)
(***************************************************************************)
EXTENDS Integers

CONSTANTS
  MaxOpen,   \* files the C library lets a process open (512)
  Slots,     \* length of the list files[] (100)
  Nil        \* NULL, no value

Handles == 1 .. MaxOpen

ASSUME FileAssumption ==
  /\ MaxOpen \in Nat \ {0}
  /\ Slots \in Nat \ {0}
  /\ Nil \notin Handles

FileStates ==
  [open : SUBSET Handles, files : [1 .. Slots -> Handles \cup {Nil}],
   stray : BOOLEAN, exited : BOOLEAN]

NoFiles ==
  [open |-> {}, files |-> [n \in 1 .. Slots |-> Nil], stray |-> FALSE, exited |-> FALSE]

Least(S) == CHOOSE n \in S : \A m \in S : n <= m

SlotsWith(io, x) == {n \in 1 .. Slots : io.files[n] = x}

(* The FILE a successful fopen returns, or NULL when there is none left.   *)
fopen(io) == IF Handles \ io.open = {} THEN Nil ELSE Least(Handles \ io.open)

(* "Out of file slots" ends the program.                                   *)
store_file(io, fp, debug) ==
  CASE debug < 2 -> io
    [] debug >= 2 /\ SlotsWith(io, Nil) # {} ->
         [io EXCEPT !.files[Least(SlotsWith(io, Nil))] = fp]
    [] debug >= 2 /\ SlotsWith(io, Nil) = {} -> [io EXCEPT !.exited = TRUE]

(* Mutant: a closed file stays in the list.                                *)
remove_file_never(io, fp, debug) == io

(* A file that is not in the list: files[100].p is set to NULL.            *)
remove_file(io, fp, debug) ==
  CASE debug < 2 -> io
    [] debug >= 2 /\ SlotsWith(io, fp) # {} ->
         [io EXCEPT !.files[Least(SlotsWith(io, fp))] = Nil]
    [] debug >= 2 /\ SlotsWith(io, fp) = {} -> [io EXCEPT !.stray = TRUE]

(* fp is what fopen returned.                                              *)
big_fopen(io, fp, debug) ==
  IF fp = Nil THEN io ELSE store_file([io EXCEPT !.open = @ \cup {fp}], fp, debug)

big_fclose(io, fp, debug) ==
  IF fp \notin io.open THEN io
  ELSE remove_file([io EXCEPT !.open = @ \ {fp}], fp, debug)

=============================================================================
