-------------------------- MODULE Settings_proofs --------------------------
(***************************************************************************)
(* Proofs about the configuration of a pass, for all files the             *)
(* administrator may write, any debug levels and any sizes of the tables:  *)
(* the agent does not lose files, and its list of open files agrees with   *)
(* the files, with the exceptions that the model's history names; the      *)
(* settings are those of the lines readcfg has come to; and what a check   *)
(* finds in the store is what the files say.                               *)
(***************************************************************************)
EXTENDS Settings, FiniteSetTheorems, SequenceTheorems, WellFoundedInduction, TLAPS

(* The list names open files only, and none of them twice.                 *)
ListOK(table) ==
  /\ \A n \in 1 .. Slots : table.files[n] # Nil => table.files[n] \in table.open
  /\ \A m, n \in 1 .. Slots :
       table.files[m] = table.files[n] => m = n \/ table.files[m] = Nil

(* A call of read_cfg under way.                                           *)
Calls == [lines : Seq(Lines), category : Sections, fp : Handles]

(* The values the code computes with.                                      *)
ValuesInv ==
  /\ content \in Contents
  /\ pc \in {"begin", "main", "readcfg", "check", "disk"}
  /\ stack \in Seq(Calls)
  /\ pc \in {"begin", "readcfg", "check"} => stack = <<>>
  /\ conf \in [Sections -> Seq(Lines)] /\ \A s \in Sections : Len(conf[s]) <= CfgMax
  /\ todo \in Seq(Lines)
  /\ DOMAIN set = DOMAIN Defaults
  /\ {"debug", "cfgdir"} \subseteq DOMAIN kept
  /\ kept.debug \in Int /\ kept.cfgdir \in Files
  /\ twice \in BOOLEAN /\ late \in BOOLEAN

(* The files under way and the log file are open, each of them once.       *)
OpenInv ==
  /\ io \in FileStates
  /\ logfp \in Handles \cup {Nil} /\ (logfp # Nil => logfp \in io.open)
  /\ \A n \in 1 .. Len(stack) :
       /\ stack[n].fp \in io.open \ {logfp}
       /\ \A m \in 1 .. n - 1 : stack[m].fp # stack[n].fp

(* Nothing else is open but the first of two log files.                    *)
Held == {stack[n].fp : n \in 1 .. Len(stack)} \cup {logfp}

HeldInv == ~twice => io.open \subseteq Held

(* The list is kept while debug is at least 2, and debug does not change   *)
(* while a file is open.                                                   *)
Listed(fp) ==
  /\ kept.debug >= 2 /\ ~io.exited => SlotsWith(io, fp) # {}
  /\ kept.debug < 2 => SlotsWith(io, fp) = {}

ListInv ==
  ~late => /\ ~io.stray /\ ListOK(io)
           /\ \A fp \in Held \ {Nil} : Listed(fp)

SettingsInv == ValuesInv /\ OpenInv /\ HeldInv /\ ListInv

-----------------------------------------------------------------------------
(* The file table.                                                         *)

(* A set of numbers that is not empty has a least one.                     *)
LEMMA LeastOf ==
  ASSUME NEW S \in SUBSET Nat, S # {}
  PROVE  Least(S) \in S /\ \A m \in S : Least(S) <= m
<1>1. \E n \in S : \A m \in S : ~(<<m, n>> \in OpToRel(<, Nat))
  BY NatLessThanWellFounded, WFMin
<1>2. \E n \in S : \A m \in S : n <= m
  <2>1. PICK n \in S : \A m \in S : ~(<<m, n>> \in OpToRel(<, Nat))
    BY <1>1
  <2>2. ASSUME NEW m \in S PROVE n <= m
    <3>1. ~(m < n)
      BY <2>1 DEF OpToRel
    <3>2. QED BY <3>1
  <2>3. QED BY <2>2
<1>3. QED BY <1>2 DEF Least

LEMMA LeastIs ==
  ASSUME NEW S \in SUBSET Nat, NEW n \in S, \A m \in S : n <= m
  PROVE  Least(S) = n
<1> DEFINE l == Least(S)
<1>1. l \in S /\ \A m \in S : l <= m
  BY Zenon DEF Least
<1> HIDE DEF l
<1>2. l \in Nat /\ n \in Nat /\ l <= n /\ n <= l
  BY <1>1
<1>3. l = n
  BY <1>2
<1>4. QED BY <1>3 DEF l

LEMMA FopenFacts ==
  ASSUME NEW t \in FileStates, fopen(t) # Nil
  PROVE  fopen(t) \in Handles \ t.open
<1>1. Handles \ t.open # {} /\ Handles \ t.open \in SUBSET Nat
  BY DEF fopen, Handles
<1>2. QED BY <1>1, LeastOf DEF fopen

(* Opening a file adds it to the open files, and to the list or not.       *)
LEMMA OpenFacts ==
  ASSUME NEW t \in FileStates, NEW fp \in Handles \ t.open, NEW debug \in Int
  PROVE  LET u == big_fopen(t, fp, debug)
         IN  /\ u \in FileStates
             /\ u.open = t.open \cup {fp} /\ u.stray = t.stray
             /\ t.exited => u.exited
             /\ \A x \in Handles \ {fp} : SlotsWith(u, x) = SlotsWith(t, x)
             /\ ListOK(t) =>
                  /\ ListOK(u)
                  /\ debug >= 2 /\ ~u.exited => SlotsWith(u, fp) # {}
                  /\ debug < 2 => SlotsWith(u, fp) = {}
<1> DEFINE v == [t EXCEPT !.open = @ \cup {fp}]
           u == big_fopen(t, fp, debug)
<1>1. fp # Nil /\ u = store_file(v, fp, debug)
  BY FileAssumption DEF big_fopen
<1>2. /\ v \in FileStates /\ v.open = t.open \cup {fp} /\ v.files = t.files
      /\ v.stray = t.stray /\ v.exited = t.exited
  BY DEF FileStates
<1>3. CASE debug < 2
  <2>1. u = v
    BY <1>1, <1>3 DEF store_file
  <2> HIDE DEF u, v
  <2>2. ListOK(t) => SlotsWith(t, fp) = {}
    BY <1>1 DEF ListOK, SlotsWith
  <2>3. QED BY <1>2, <1>3, <2>1, <2>2 DEF ListOK, SlotsWith, u
<1>4. CASE debug >= 2 /\ SlotsWith(v, Nil) # {}
  <2> DEFINE n == Least(SlotsWith(v, Nil))
  <2>1. n \in 1 .. Slots /\ v.files[n] = Nil
    <3>1. SlotsWith(v, Nil) \in SUBSET Nat
      BY DEF SlotsWith
    <3>2. n \in SlotsWith(v, Nil)
      BY <1>4, <3>1, LeastOf
    <3>3. QED BY <3>2 DEF SlotsWith
  <2>2. u = [v EXCEPT !.files[n] = fp]
    BY <1>1, <1>4 DEF store_file
  <2> HIDE DEF n, u, v
  <2>3. /\ u \in FileStates /\ u.open = v.open /\ u.stray = v.stray /\ u.exited = v.exited
        /\ u.files = [v.files EXCEPT ![n] = fp]
    BY <1>2, <2>1, <2>2 DEF FileStates
  <2>4. \A m \in 1 .. Slots : u.files[m] = IF m = n THEN fp ELSE t.files[m]
    BY <1>2, <2>3 DEF FileStates
  <2>5. \A x \in Handles \ {fp} : SlotsWith(u, x) = SlotsWith(t, x)
    BY <1>2, <2>1, <2>4, FileAssumption DEF SlotsWith
  <2>6. n \in SlotsWith(u, fp)
    BY <2>1, <2>4 DEF SlotsWith
  <2>7. ListOK(t) => ListOK(u)
    BY <1>1, <1>2, <2>1, <2>3, <2>4 DEF ListOK
  <2>8. QED BY <1>2, <1>4, <2>3, <2>5, <2>6, <2>7 DEF u
<1>5. CASE debug >= 2 /\ SlotsWith(v, Nil) = {}
  <2>1. u = [v EXCEPT !.exited = TRUE]
    <3>1. debug >= 2 /\ ~(debug < 2)
      BY <1>5
    <3>2. QED BY <1>1, <1>5, <3>1, Zenon DEF store_file
  <2> HIDE DEF u, v
  <2>2. /\ u \in FileStates /\ u.open = v.open /\ u.stray = v.stray /\ u.exited
        /\ u.files = v.files
    BY <1>2, <2>1 DEF FileStates
  <2>3. QED BY <1>2, <1>5, <2>2 DEF ListOK, SlotsWith, u
<1>6. QED BY <1>3, <1>4, <1>5

(* Closing a file that is in the list when the list is kept, and is not    *)
(* when it is not, leaves a list that is as true as it was.                *)
LEMMA CloseFacts ==
  ASSUME NEW t \in FileStates, NEW fp \in t.open, NEW debug \in Int
  PROVE  LET u == big_fclose(t, fp, debug)
         IN  /\ u \in FileStates
             /\ u.open = t.open \ {fp} /\ u.exited = t.exited
             /\ \A x \in Handles \ {fp} : SlotsWith(u, x) = SlotsWith(t, x)
             /\ /\ ListOK(t)
                /\ debug >= 2 => SlotsWith(t, fp) # {}
                /\ debug < 2 => SlotsWith(t, fp) = {}
                => ListOK(u) /\ u.stray = t.stray
<1> DEFINE v == [t EXCEPT !.open = @ \ {fp}]
           u == big_fclose(t, fp, debug)
<1>1. fp \in Handles /\ fp # Nil /\ u = remove_file(v, fp, debug)
  BY FileAssumption DEF big_fclose, FileStates
<1>2. /\ v \in FileStates /\ v.open = t.open \ {fp} /\ v.files = t.files
      /\ v.stray = t.stray /\ v.exited = t.exited
  BY DEF FileStates
<1>3. CASE debug < 2
  <2>1. u = v
    BY <1>1, <1>3 DEF remove_file
  <2>2. QED BY <1>1, <1>2, <1>3, <2>1 DEF ListOK, SlotsWith, FileStates
<1>4. CASE debug >= 2 /\ SlotsWith(v, fp) # {}
  <2> DEFINE n == Least(SlotsWith(v, fp))
  <2>1. n \in 1 .. Slots /\ v.files[n] = fp
    <3>1. SlotsWith(v, fp) \in SUBSET Nat
      BY DEF SlotsWith
    <3>2. n \in SlotsWith(v, fp)
      BY <1>4, <3>1, LeastOf
    <3>3. QED BY <3>2 DEF SlotsWith
  <2>2. u = [v EXCEPT !.files[n] = Nil]
    BY <1>1, <1>4 DEF remove_file
  <2> HIDE DEF n, u, v
  <2>3. /\ u \in FileStates /\ u.open = v.open /\ u.stray = v.stray /\ u.exited = v.exited
        /\ u.files = [v.files EXCEPT ![n] = Nil]
    BY <1>2, <2>1, <2>2 DEF FileStates
  <2>4. \A m \in 1 .. Slots : u.files[m] = IF m = n THEN Nil ELSE t.files[m]
    BY <1>2, <2>3 DEF FileStates
  <2>5. \A x \in Handles \ {fp} : SlotsWith(u, x) = SlotsWith(t, x)
    BY <1>2, <2>1, <2>4, FileAssumption DEF SlotsWith
  <2>6. ListOK(t) => ListOK(u)
    BY <1>1, <1>2, <2>1, <2>3, <2>4 DEF ListOK
  <2>7. QED BY <1>2, <1>4, <2>3, <2>5, <2>6 DEF u
<1>5. CASE debug >= 2 /\ SlotsWith(v, fp) = {}
  <2>1. u = [v EXCEPT !.stray = TRUE]
    BY <1>1, <1>5 DEF remove_file
  <2> HIDE DEF u, v
  <2>2. /\ u \in FileStates /\ u.open = v.open /\ u.exited = v.exited
        /\ u.files = v.files
    BY <1>2, <2>1 DEF FileStates
  <2>3. SlotsWith(t, fp) = {} /\ \A x : SlotsWith(u, x) = SlotsWith(t, x)
    BY <1>2, <1>5, <2>2 DEF SlotsWith
  <2>4. QED BY <1>2, <1>5, <2>2, <2>3 DEF u
<1>6. QED BY <1>3, <1>4, <1>5

-----------------------------------------------------------------------------
(* The calls of read_cfg.                                                  *)

(* The same files are under way as before.                                 *)
SameFiles(calls) ==
  /\ calls \in Seq(Calls) /\ Len(calls) = Len(stack)
  /\ \A n \in 1 .. Len(stack) : calls[n].fp = stack[n].fp

LEMMA TopFacts ==
  ASSUME ValuesInv, stack # <<>>
  PROVE  /\ Len(stack) \in Nat \ {0} /\ Top = stack[Len(stack)]
         /\ Top \in Calls
<1>1. stack \in Seq(Calls)
  BY DEF ValuesInv
<1>2. Len(stack) \in Nat \ {0}
  BY <1>1
<1>3. QED BY <1>1, <1>2 DEF Top, Last

LEMMA TakenFacts ==
  ASSUME ValuesInv, stack # <<>>, Top.lines # <<>>
  PROVE  /\ Head(Top.lines) \in Lines /\ Top.category \in Sections
         /\ SameFiles(Taken)
         /\ \A cat \in Sections : SameFiles([Taken EXCEPT ![Len(stack)].category = cat])
<1>1. /\ stack \in Seq(Calls) /\ Len(stack) \in Nat \ {0} /\ Top = stack[Len(stack)]
      /\ Top \in Calls
  BY TopFacts DEF ValuesInv
<1>2. /\ Top.lines \in Seq(Lines) /\ Top.category \in Sections /\ Top.fp \in Handles
  BY <1>1 DEF Calls
<1>3. Head(Top.lines) \in Lines /\ Tail(Top.lines) \in Seq(Lines)
  BY <1>2
<1> DEFINE t == [Top EXCEPT !.lines = Tail(@)]
<1>4. t \in Calls /\ t.fp = Top.fp
  BY <1>1, <1>2, <1>3 DEF Calls
<1>5. Taken = [stack EXCEPT ![Len(stack)] = t]
  BY <1>1 DEF Taken
<1> HIDE DEF t
<1>6. /\ Taken \in Seq(Calls) /\ Len(Taken) = Len(stack)
      /\ \A n \in 1 .. Len(stack) : Taken[n] = IF n = Len(stack) THEN t ELSE stack[n]
  BY <1>1, <1>4, <1>5
<1>7. SameFiles(Taken)
  BY <1>1, <1>4, <1>6 DEF SameFiles
<1>8. ASSUME NEW cat \in Sections
      PROVE  SameFiles([Taken EXCEPT ![Len(stack)].category = cat])
  <2> DEFINE u == [t EXCEPT !.category = cat]
             calls == [Taken EXCEPT ![Len(stack)].category = cat]
  <2>1. u \in Calls /\ u.fp = Top.fp
    BY <1>4 DEF Calls
  <2>2. calls = [Taken EXCEPT ![Len(stack)] = u]
    <3>1. Taken[Len(stack)] = t
      BY <1>1, <1>6
    <3>2. QED BY <3>1
  <2> HIDE DEF u, calls
  <2>3. /\ calls \in Seq(Calls) /\ Len(calls) = Len(stack)
        /\ \A n \in 1 .. Len(stack) : calls[n] = IF n = Len(stack) THEN u ELSE Taken[n]
    BY <1>1, <1>6, <2>1, <2>2
  <2>4. SameFiles(calls)
    BY <1>1, <1>6, <2>1, <2>3 DEF SameFiles
  <2>5. QED BY <2>4 DEF calls
<1>9. QED BY <1>2, <1>3, <1>7, <1>8

(* A step that opens and closes nothing.                                   *)
LEMMA FilesStay ==
  ASSUME SettingsInv, SameFiles(stack'), UNCHANGED <<io, logfp, twice, late>>,
         kept'.debug = kept.debug
  PROVE  OpenInv' /\ HeldInv' /\ ListInv'
<1>1. Len(stack') = Len(stack) /\ \A n \in 1 .. Len(stack) : stack'[n].fp = stack[n].fp
  BY DEF SameFiles
<1>2. stack \in Seq(Calls) /\ Len(stack) \in Nat
  BY DEF SettingsInv, ValuesInv
<1>3. OpenInv'
  BY <1>1, <1>2 DEF SettingsInv, OpenInv
<1>4. Held' = Held
  BY <1>1, <1>2 DEF Held
<1>5. HeldInv'
  BY <1>4 DEF SettingsInv, HeldInv
<1>6. ListInv'
  BY <1>4 DEF SettingsInv, ListInv, Listed
<1>7. QED BY <1>3, <1>5, <1>6

(* A step that opens a file, for a call of read_cfg or as the log.         *)
LEMMA FilesOpen ==
  ASSUME SettingsInv, UNCHANGED <<kept, late>>, ~io.exited, fopen(io) # Nil,
         io' = big_fopen(io, fopen(io), kept.debug)
  PROVE  /\ fopen(io) \in Handles \ io.open /\ fopen(io) \notin Held
         /\ io' \in FileStates /\ io'.open = io.open \cup {fopen(io)}
         /\ Held' \subseteq Held \cup {fopen(io)} => ListInv'
<1> DEFINE fp == fopen(io)
<1>1. /\ io \in FileStates /\ kept.debug \in Int /\ fp \in Handles \ io.open
  BY FopenFacts DEF SettingsInv, OpenInv, ValuesInv
<1>2. fp \notin Held
  BY <1>1, FileAssumption DEF SettingsInv, OpenInv, Held
<1> HIDE DEF fp
<1>3. /\ io' \in FileStates
      /\ io'.open = io.open \cup {fp} /\ io'.stray = io.stray
      /\ \A x \in Handles \ {fp} : SlotsWith(io', x) = SlotsWith(io, x)
      /\ ListOK(io) =>
            /\ ListOK(io')
            /\ kept.debug >= 2 /\ ~io'.exited => SlotsWith(io', fp) # {}
            /\ kept.debug < 2 => SlotsWith(io', fp) = {}
  BY <1>1, OpenFacts DEF fp
<1>4. ASSUME Held' \subseteq Held \cup {fp}, ~late
      PROVE  /\ ~io'.stray /\ ListOK(io')
             /\ \A x \in Held' \ {Nil} : Listed(x)'
  <2>1. ~io.stray /\ ListOK(io) /\ \A x \in Held \ {Nil} : Listed(x)
    BY <1>4 DEF SettingsInv, ListInv
  <2>2. ~io'.stray /\ ListOK(io')
    BY <1>3, <2>1
  <2>3. ASSUME NEW x \in Held' \ {Nil} PROVE Listed(x)'
    <3>1. CASE x = fp
      BY <1>3, <2>1, <3>1 DEF Listed
    <3>2. CASE x # fp
      <4>1. x \in Held \ {Nil} /\ x \in Handles
        BY <1>4, <2>3, <3>2 DEF SettingsInv, OpenInv, Held, FileStates
      <4>2. Listed(x) /\ SlotsWith(io', x) = SlotsWith(io, x)
        BY <1>3, <2>1, <3>2, <4>1
      <4>3. QED BY <4>2 DEF Listed
    <3>3. QED BY <3>1, <3>2
  <2>4. QED BY <2>2, <2>3
<1>5. Held' \subseteq Held \cup {fp} => ListInv'
  BY <1>4 DEF ListInv
<1>6. QED BY <1>1, <1>2, <1>3, <1>5 DEF fp

LEMMA ReadCfgFacts ==
  ASSUME SettingsInv, UNCHANGED <<kept, logfp, twice, late>>, ~io.exited,
         NEW cat \in Sections, NEW file \in Files, NEW below, SameFiles(below),
         read_cfg(cat, file, below)
  PROVE  stack' \in Seq(Calls) /\ OpenInv' /\ HeldInv' /\ ListInv'
<1>1. CASE content[file] = Nil \/ fopen(io) = Nil
  <2>1. SameFiles(stack') /\ UNCHANGED io
    BY <1>1 DEF read_cfg
  <2>2. QED BY <2>1, FilesStay DEF SameFiles
<1>2. CASE ~(content[file] = Nil \/ fopen(io) = Nil)
  <2> DEFINE fp == fopen(io)
             call == [lines |-> content[file], category |-> cat, fp |-> fp]
  <2>1. /\ io' = big_fopen(io, fp, kept.debug) /\ stack' = Append(below, call)
        /\ fp # Nil
    BY <1>2 DEF read_cfg
  <2>2. /\ fp \in Handles \ io.open /\ fp \notin Held
        /\ io' \in FileStates /\ io'.open = io.open \cup {fp}
        /\ Held' \subseteq Held \cup {fp} => ListInv'
    BY <2>1, FilesOpen
  <2>3. call \in Calls /\ call.fp = fp
    BY <1>2, <2>2, SettingsAssumption DEF SettingsInv, ValuesInv, Calls
  <2> HIDE DEF fp, call
  <2>4. /\ below \in Seq(Calls) /\ Len(below) = Len(stack)
        /\ \A n \in 1 .. Len(stack) : below[n].fp = stack[n].fp
        /\ stack \in Seq(Calls) /\ Len(stack) \in Nat
    BY DEF SameFiles, SettingsInv, ValuesInv
  <2>5. /\ stack' \in Seq(Calls) /\ Len(stack') = Len(stack) + 1
        /\ \A n \in 1 .. Len(stack) : stack'[n] = below[n]
        /\ stack'[Len(stack) + 1] = call
    BY <2>1, <2>3, <2>4
  <2>6. \A n \in 1 .. Len(stack') :
          stack'[n].fp = IF n \in 1 .. Len(stack) THEN stack[n].fp ELSE fp
    BY <2>3, <2>4, <2>5
  <2>7. Held' = Held \cup {fp}
    <3>1. \A n \in 1 .. Len(stack) : n \in 1 .. Len(stack')
      BY <2>4, <2>5
    <3>2. Len(stack) + 1 \in 1 .. Len(stack') /\ stack'[Len(stack) + 1].fp = fp
      BY <2>3, <2>4, <2>5
    <3>3. Held' \subseteq Held \cup {fp}
      BY <2>6 DEF Held
    <3>4. Held \subseteq Held'
      BY <2>6, <3>1 DEF Held
    <3>5. fp \in Held'
      BY <3>2 DEF Held
    <3>6. QED BY <3>3, <3>4, <3>5
  <2>8. OpenInv'
    <3>1. logfp' \in Handles \cup {Nil} /\ (logfp' # Nil => logfp' \in io'.open)
      BY <2>2 DEF SettingsInv, OpenInv
    <3>2. ASSUME NEW n \in 1 .. Len(stack')
          PROVE  /\ stack'[n].fp \in io'.open \ {logfp'}
                 /\ \A m \in 1 .. n - 1 : stack'[m].fp # stack'[n].fp
      <4>1. CASE n \in 1 .. Len(stack)
        <5>1. stack'[n].fp = stack[n].fp /\ \A m \in 1 .. n - 1 : stack'[m].fp = stack[m].fp
          BY <2>4, <2>5, <2>6, <4>1
        <5>2. QED BY <2>2, <4>1, <5>1 DEF SettingsInv, OpenInv
      <4>2. CASE n = Len(stack) + 1
        <5>1. stack'[n].fp = fp
          BY <2>3, <2>5, <4>2
        <5>2. \A m \in 1 .. n - 1 : m \in 1 .. Len(stack) /\ stack'[m].fp = stack[m].fp
          BY <2>4, <2>5, <2>6, <4>2
        <5>3. QED BY <2>2, <5>1, <5>2 DEF Held
      <4>3. QED BY <2>4, <2>5, <4>1, <4>2
    <3>3. QED BY <2>2, <3>1, <3>2 DEF OpenInv
  <2>9. HeldInv'
    BY <2>2, <2>7 DEF SettingsInv, HeldInv
  <2>10. QED BY <2>2, <2>5, <2>7, <2>8, <2>9
<1>3. QED BY <1>1, <1>2

(* A step that closes one of the files.                                    *)
LEMMA FilesClose ==
  ASSUME SettingsInv, UNCHANGED <<kept, late>>, ~io.exited, NEW fp \in Held \ {Nil},
         io' = big_fclose(io, fp, kept.debug)
  PROVE  /\ fp \in io.open
         /\ io' \in FileStates /\ io'.open = io.open \ {fp}
         /\ Held' \subseteq (Held \ {fp}) \cup {Nil} => ListInv'
<1>1. /\ io \in FileStates /\ kept.debug \in Int /\ fp \in io.open
  BY DEF SettingsInv, OpenInv, ValuesInv, Held
<1>2. /\ io' \in FileStates /\ io'.open = io.open \ {fp} /\ io'.exited = io.exited
      /\ \A x \in Handles \ {fp} : SlotsWith(io', x) = SlotsWith(io, x)
      /\ /\ ListOK(io)
         /\ kept.debug >= 2 => SlotsWith(io, fp) # {}
         /\ kept.debug < 2 => SlotsWith(io, fp) = {}
         => ListOK(io') /\ io'.stray = io.stray
  BY <1>1, CloseFacts
<1>3. ASSUME ~io.exited, Held' \subseteq (Held \ {fp}) \cup {Nil}, ~late
      PROVE  /\ ~io'.stray /\ ListOK(io')
             /\ \A x \in Held' \ {Nil} : Listed(x)'
  <2>1. ~io.stray /\ ListOK(io) /\ \A x \in Held \ {Nil} : Listed(x)
    BY <1>3 DEF SettingsInv, ListInv
  <2>2. ~io'.stray /\ ListOK(io')
    BY <1>2, <1>3, <2>1 DEF Listed
  <2>3. ASSUME NEW x \in Held' \ {Nil} PROVE Listed(x)'
    <3>1. x \in Held \ {Nil} /\ x # fp /\ x \in Handles
      BY <1>3, <2>3 DEF SettingsInv, OpenInv, Held, FileStates
    <3>2. Listed(x) /\ SlotsWith(io', x) = SlotsWith(io, x)
      BY <1>2, <2>1, <3>1
    <3>3. QED BY <1>2, <3>2 DEF Listed
  <2>4. QED BY <2>2, <2>3
<1>4. ~io.exited /\ Held' \subseteq (Held \ {fp}) \cup {Nil} => ListInv'
  BY <1>3 DEF ListInv
<1>5. QED BY <1>1, <1>2, <1>4

-----------------------------------------------------------------------------
(* The invariant, action by action.                                        *)

LEMMA BeginStep == ASSUME SettingsInv, ~io.exited, Begin PROVE SettingsInv'
<1>1. stack = <<>> /\ SameFiles(<<>>)
  BY DEF Begin, SettingsInv, ValuesInv, SameFiles
<1>2. stack' \in Seq(Calls) /\ OpenInv' /\ HeldInv' /\ ListInv'
  BY <1>1, ReadCfgFacts, SettingsAssumption DEF Begin, settings
<1>3. QED BY <1>2 DEF Begin, settings, SettingsInv, ValuesInv

LEMMA CheckStep == ASSUME SettingsInv, ~io.exited, Check PROVE SettingsInv'
<1>1. stack = <<>> /\ SameFiles(<<>>)
  BY DEF Check, SettingsInv, ValuesInv, SameFiles
<1>2. kept.cfgdir \in Files
  BY DEF SettingsInv, ValuesInv
<1>3. stack' \in Seq(Calls) /\ OpenInv' /\ HeldInv' /\ ListInv'
  <2>1. CASE get_option("no_disk")
    <3>1. UNCHANGED <<stack, io, logfp, kept, twice, late>>
      BY <2>1 DEF Check, settings, hist
    <3>2. QED BY <1>1, <3>1, FilesStay DEF SameFiles
  <2>2. CASE ~get_option("no_disk")
    BY <1>1, <1>2, <2>2, ReadCfgFacts, SettingsAssumption DEF Check, settings, hist
  <2>3. QED BY <2>1, <2>2
<1>4. QED BY <1>3 DEF Check, settings, hist, SettingsInv, ValuesInv

LEMMA IncludeStep == ASSUME SettingsInv, ~io.exited, ReadInclude PROVE SettingsInv'
<1>1. /\ stack # <<>> /\ Top.lines # <<>> /\ Head(Top.lines).key = "include"
      /\ read_cfg(Top.category, Head(Top.lines).val, Taken)
      /\ UNCHANGED <<content, pc, conf, todo, settings, hist>>
  BY DEF ReadInclude, Line
<1>2. /\ SameFiles(Taken) /\ Top.category \in Sections /\ Head(Top.lines) \in Lines
  BY <1>1, TakenFacts DEF SettingsInv
<1>3. Head(Top.lines).val \in Files
  BY <1>1, <1>2, SettingsAssumption
<1>4. stack' \in Seq(Calls) /\ OpenInv' /\ HeldInv' /\ ListInv'
  BY <1>1, <1>2, <1>3, ReadCfgFacts DEF settings, hist
<1>5. QED BY <1>1, <1>4 DEF settings, hist, SettingsInv, ValuesInv

(* A line that is a section header, a bind line, or for the store.         *)
LEMMA LineStep ==
  ASSUME SettingsInv, ReadSection \/ ReadBind \/ ReadLine
  PROVE  SettingsInv'
<1>1. stack # <<>> /\ Top.lines # <<>>
  BY DEF ReadSection, ReadBind, ReadLine, Line
<1>2. /\ SameFiles(Taken) /\ Top.category \in Sections /\ Head(Top.lines) \in Lines
      /\ \A cat \in Sections : SameFiles([Taken EXCEPT ![Len(stack)].category = cat])
  BY <1>1, TakenFacts DEF SettingsInv
<1>3. CASE ReadSection
  <2>1. Head(Top.lines).val \in Sections
    BY <1>2, <1>3, SettingsAssumption DEF ReadSection, Line
  <2>2. SameFiles(stack') /\ UNCHANGED <<content, pc, conf, todo, settings, io, hist>>
    BY <1>2, <1>3, <2>1 DEF ReadSection
  <2>3. OpenInv' /\ HeldInv' /\ ListInv'
    BY <2>2, FilesStay DEF settings, hist
  <2>4. QED BY <1>1, <2>2, <2>3 DEF SameFiles, settings, hist, SettingsInv, ValuesInv
<1>4. CASE ReadBind
  <2>1. /\ SameFiles(stack') /\ UNCHANGED <<content, pc, conf, todo, set, logfp, io, hist>>
        /\ \E val : kept' = [kept EXCEPT !.bind_addr = val]
    BY <1>2, <1>4 DEF ReadBind
  <2>2. /\ DOMAIN kept' = DOMAIN kept
        /\ kept'.debug = kept.debug /\ kept'.cfgdir = kept.cfgdir
    BY <2>1 DEF SettingsInv, ValuesInv
  <2>3. OpenInv' /\ HeldInv' /\ ListInv'
    BY <2>1, <2>2, FilesStay DEF hist
  <2>4. QED BY <1>1, <2>1, <2>2, <2>3 DEF SameFiles, hist, SettingsInv, ValuesInv
<1>5. CASE ReadLine
  <2>1. /\ SameFiles(stack') /\ UNCHANGED <<content, pc, todo, settings, io, hist>>
        /\ conf' = IF Len(conf[Top.category]) < CfgMax
                   THEN [conf EXCEPT ![Top.category] = Append(@, Head(Top.lines))]
                   ELSE conf
    BY <1>2, <1>5 DEF ReadLine
  <2>2. /\ conf' \in [Sections -> Seq(Lines)] /\ \A s \in Sections : Len(conf'[s]) <= CfgMax
    BY <1>2, <2>1, SettingsAssumption DEF SettingsInv, ValuesInv
  <2>3. OpenInv' /\ HeldInv' /\ ListInv'
    BY <2>1, FilesStay DEF settings, hist
  <2>4. QED BY <1>1, <2>1, <2>2, <2>3 DEF SameFiles, settings, hist, SettingsInv, ValuesInv
<1>6. QED BY <1>3, <1>4, <1>5

(* The innermost call has come to the end of its file.                     *)
LEMMA EndStep == ASSUME SettingsInv, ~io.exited, EndOfFile PROVE SettingsInv'
<1> DEFINE fp == Top.fp
<1>1. /\ stack # <<>> /\ stack' = Front(stack) /\ io' = big_fclose(io, fp, kept.debug)
      /\ UNCHANGED <<content, pc, conf, todo, settings, hist>>
  BY DEF EndOfFile
<1>2. /\ stack \in Seq(Calls) /\ Len(stack) \in Nat \ {0} /\ Top = stack[Len(stack)]
  BY <1>1, TopFacts DEF SettingsInv, ValuesInv
<1>3. /\ stack' \in Seq(Calls) /\ Len(stack') = Len(stack) - 1
      /\ \A n \in 1 .. Len(stack') : stack'[n] = stack[n]
  <2> DEFINE last == Len(stack) - 1
  <2>1. stack' = SubSeq(stack, 1, last) /\ last \in Nat
    BY <1>1, <1>2 DEF Front
  <2>2. \A n \in 1 .. last : stack[n] \in Calls
    BY <1>2
  <2>3. /\ SubSeq(stack, 1, last) \in Seq(Calls)
        /\ Len(SubSeq(stack, 1, last)) = IF 1 <= last THEN last - 1 + 1 ELSE 0
        /\ \A n \in 1 .. last - 1 + 1 : SubSeq(stack, 1, last)[n] = stack[1 + n - 1]
    BY <2>1, <2>2, SubSeqProperties
  <2> HIDE DEF last
  <2>4. /\ last - 1 + 1 = last /\ (1 <= last \/ last = 0)
        /\ \A n \in 1 .. last : 1 + n - 1 = n
    BY <2>1
  <2>5. Len(stack') = last /\ stack' \in Seq(Calls) /\ \A n \in 1 .. last : stack'[n] = stack[n]
    BY <2>1, <2>3, <2>4
  <2>6. QED BY <2>5 DEF last
<1>4. /\ fp \in Held \ {Nil} /\ fp # logfp
      /\ \A n \in 1 .. Len(stack') : stack[n].fp # fp
  <2>1. Len(stack) \in 1 .. Len(stack) /\ 1 .. Len(stack') = 1 .. Len(stack) - 1
    BY <1>2, <1>3
  <2>2. fp \in io.open \ {logfp} /\ \A n \in 1 .. Len(stack') : stack[n].fp # fp
    BY <1>2, <2>1 DEF SettingsInv, OpenInv
  <2>3. fp # Nil
    BY <2>2, FileAssumption DEF SettingsInv, OpenInv, FileStates
  <2>4. QED BY <1>2, <2>1, <2>2, <2>3 DEF Held
<1> HIDE DEF fp
<1>5. /\ io' \in FileStates /\ io'.open = io.open \ {fp}
      /\ Held' \subseteq (Held \ {fp}) \cup {Nil} => ListInv'
  BY <1>1, <1>4, FilesClose DEF settings, hist
<1>6. Held' = Held \ {fp}
  <2>1. Held' \subseteq Held \ {fp}
    BY <1>1, <1>2, <1>3, <1>4 DEF Held, settings
  <2>2. Held \ {fp} \subseteq Held'
    <3>1. \A n \in 1 .. Len(stack) : n \in 1 .. Len(stack') \/ stack[n].fp = fp
      BY <1>2, <1>3 DEF fp
    <3>2. QED BY <1>1, <1>3, <3>1 DEF Held, settings
  <2>3. QED BY <2>1, <2>2
<1>7. OpenInv'
  <2>1. logfp' = logfp
    BY <1>1 DEF settings
  <2>2. ASSUME NEW n \in 1 .. Len(stack')
        PROVE  /\ stack'[n].fp \in io'.open \ {logfp'}
               /\ \A m \in 1 .. n - 1 : stack'[m].fp # stack'[n].fp
    <3>1. n \in 1 .. Len(stack) /\ \A m \in 1 .. n - 1 : m \in 1 .. Len(stack')
      BY <1>2, <1>3
    <3>2. QED BY <1>3, <1>4, <1>5, <2>1, <3>1 DEF SettingsInv, OpenInv
  <2>3. QED BY <1>4, <1>5, <2>1, <2>2 DEF SettingsInv, OpenInv
<1>8. HeldInv'
  BY <1>1, <1>5, <1>6 DEF SettingsInv, HeldInv, hist
<1>9. QED BY <1>1, <1>3, <1>5, <1>6, <1>7, <1>8 DEF settings, hist, SettingsInv, ValuesInv

(* readcfg closes the log file before it looks at the lines.               *)
LEMMA DefaultsStep == ASSUME SettingsInv, ~io.exited, SetDefaults PROVE SettingsInv'
<1>1. /\ stack = <<>> /\ stack' = <<>> /\ logfp' = Nil /\ pc' = "readcfg"
      /\ todo' = conf["mrbig"] /\ set' = Defaults
      /\ io' = IF logfp = Nil THEN io ELSE big_fclose(io, logfp, kept.debug)
      /\ UNCHANGED <<content, conf, kept, hist>>
  BY DEF SetDefaults
<1>2. ValuesInv'
  BY <1>1, SettingsAssumption DEF hist, SettingsInv, ValuesInv
<1>3. CASE logfp = Nil
  <2>1. SameFiles(stack') /\ UNCHANGED <<io, logfp, kept, twice, late>>
    BY <1>1, <1>3 DEF SameFiles, hist
  <2>2. QED BY <1>2, <2>1, FilesStay DEF SettingsInv
<1>4. CASE logfp # Nil
  <2>1. Held = {logfp} /\ Held' = {Nil}
    BY <1>1 DEF Held
  <2>2. /\ io' \in FileStates /\ io'.open = io.open \ {logfp} /\ ListInv'
    BY <1>1, <1>4, <2>1, FilesClose DEF hist
  <2>3. OpenInv'
    BY <1>1, <2>2 DEF OpenInv
  <2>4. HeldInv'
    BY <1>1, <2>1, <2>2 DEF SettingsInv, HeldInv, hist
  <2>5. QED BY <1>2, <2>2, <2>3, <2>4 DEF SettingsInv
<1>5. QED BY <1>3, <1>4

(* What readcfg may assume of the line it has come to.                     *)
LEMMA DirectiveFacts ==
  ASSUME SettingsInv, pc = "readcfg", todo # <<>>
  PROVE  /\ Head(todo) \in Lines /\ Tail(todo) \in Seq(Lines)
         /\ stack = <<>> /\ SameFiles(<<>>)
BY DEF SettingsInv, ValuesInv, SameFiles

LEMMA KeptStep == ASSUME SettingsInv, KeptLine PROVE SettingsInv'
<1> DEFINE key == Head(todo).key
<1>1. /\ pc = "readcfg" /\ todo # <<>> /\ key \in {"debug", "report_size", "cfgdir"}
      /\ todo' = Tail(todo) /\ kept' = [kept EXCEPT ![key] = value]
      /\ late' = (late \/ (key = "debug" /\ logfp # Nil))
      /\ UNCHANGED <<content, pc, stack, conf, before, stable, set, logfp, io, twice>>
  BY DEF KeptLine, Directive
<1>2. /\ Head(todo) \in Lines /\ Tail(todo) \in Seq(Lines) /\ stack = <<>> /\ SameFiles(<<>>)
  BY <1>1, DirectiveFacts
<1>3. /\ key = "debug" => value \in Int
      /\ key = "cfgdir" => value \in Files
  BY <1>2, SettingsAssumption DEF value
<1>4. /\ DOMAIN kept' = DOMAIN kept /\ kept'.debug \in Int /\ kept'.cfgdir \in Files
      /\ key # "debug" => kept'.debug = kept.debug
  BY <1>1, <1>3 DEF SettingsInv, ValuesInv
<1>5. ValuesInv'
  BY <1>1, <1>2, <1>4 DEF SettingsInv, ValuesInv
<1>6. CASE key # "debug"
  <2>1. SameFiles(stack') /\ UNCHANGED <<io, logfp, twice, late>>
    BY <1>1, <1>2, <1>6 DEF SettingsInv, ValuesInv
  <2>2. QED BY <1>4, <1>5, <1>6, <2>1, FilesStay DEF SettingsInv
<1>7. CASE key = "debug"
  <2>1. OpenInv' /\ HeldInv'
    BY <1>1 DEF SettingsInv, OpenInv, HeldInv, Held
  <2>2. ASSUME ~late' PROVE Held' = {Nil} /\ ~late
    <3>1. ~late /\ logfp' = Nil
      BY <1>1, <1>7, <2>2, Zenon
    <3>2. QED BY <1>1, <1>2, <3>1 DEF Held
  <2>3. ListInv'
    BY <1>1, <2>2 DEF SettingsInv, ListInv
  <2>4. QED BY <1>5, <2>1, <2>3 DEF SettingsInv
<1>8. QED BY <1>6, <1>7

(* A second log file is what leaves a file open.                           *)
LEMMA LogStep == ASSUME SettingsInv, ~io.exited, LogLine PROVE SettingsInv'
<1>1. /\ pc = "readcfg" /\ todo # <<>> /\ todo' = Tail(todo)
      /\ logfp' = fopen(io) /\ io' = big_fopen(io, fopen(io), kept.debug)
      /\ twice' = (twice \/ logfp # Nil)
      /\ UNCHANGED <<content, pc, stack, conf, before, stable, set, kept, late>>
  BY DEF LogLine, Directive
<1>2. Tail(todo) \in Seq(Lines) /\ stack = <<>>
  BY <1>1, DirectiveFacts
<1>3. ValuesInv'
  BY <1>1, <1>2 DEF SettingsInv, ValuesInv
<1>4. Held = {logfp} /\ Held' = {logfp'}
  BY <1>1, <1>2 DEF Held
<1>5. CASE fopen(io) = Nil
  <2>1. io' = io /\ logfp' = Nil
    BY <1>1, <1>5 DEF big_fopen
  <2>2. OpenInv'
    BY <1>1, <1>2, <2>1 DEF SettingsInv, OpenInv
  <2>3. HeldInv' /\ ListInv'
    BY <1>1, <1>4, <2>1 DEF SettingsInv, HeldInv, ListInv
  <2>4. QED BY <1>3, <2>2, <2>3 DEF SettingsInv
<1>6. CASE fopen(io) # Nil
  <2>1. /\ fopen(io) \in Handles \ io.open
        /\ io' \in FileStates /\ io'.open = io.open \cup {fopen(io)} /\ ListInv'
    BY <1>1, <1>4, <1>6, FilesOpen
  <2>2. OpenInv'
    BY <1>1, <1>2, <2>1 DEF OpenInv
  <2>3. HeldInv'
    <3>1. ~twice' => io.open \subseteq {Nil}
      BY <1>1, <1>4 DEF SettingsInv, HeldInv
    <3>2. Nil \notin io.open
      BY FileAssumption DEF SettingsInv, OpenInv, FileStates
    <3>3. QED BY <1>1, <1>4, <2>1, <3>1, <3>2 DEF HeldInv
  <2>4. QED BY <1>3, <2>1, <2>2, <2>3 DEF SettingsInv
<1>7. QED BY <1>5, <1>6

(* The other lines of readcfg, its end, the end of the pass, and a change  *)
(* of the files open and close nothing.                                    *)
LEMMA OtherStep ==
  ASSUME SettingsInv,
         \/ SetLine \/ DisplayLine \/ GraceLine \/ OptionLine \/ IgnoredLine
         \/ readcfg_returns \/ clear_cfg \/ Edit
  PROVE  SettingsInv'
<1>1. UNCHANGED <<stack, io, logfp, kept, twice, late>>
  BY DEF SetLine, DisplayLine, GraceLine, OptionLine, IgnoredLine, readcfg_returns, clear_cfg,
     Edit, Directive, settings, hist
<1>2. SameFiles(stack')
  BY <1>1 DEF SameFiles, SettingsInv, ValuesInv
<1>3. OpenInv' /\ HeldInv' /\ ListInv'
  BY <1>1, <1>2, FilesStay
<1>4. ValuesInv'
  <2>1. CASE SetLine \/ DisplayLine \/ GraceLine \/ OptionLine
    <3>1. /\ pc = "readcfg" /\ todo # <<>> /\ todo' = Tail(todo)
          /\ UNCHANGED <<content, pc, conf>>
          /\ DOMAIN set' = DOMAIN set
      BY <2>1 DEF SetLine, DisplayLine, GraceLine, OptionLine, Directive
    <3>2. Tail(todo) \in Seq(Lines)
      BY <3>1, DirectiveFacts
    <3>3. QED BY <1>1, <3>1, <3>2 DEF SettingsInv, ValuesInv
  <2>2. CASE IgnoredLine
    <3>1. /\ pc = "readcfg" /\ todo # <<>> /\ todo' = Tail(todo)
          /\ UNCHANGED <<content, pc, conf, set>>
      BY <2>2 DEF IgnoredLine, settings
    <3>2. Tail(todo) \in Seq(Lines)
      BY <3>1, DirectiveFacts
    <3>3. QED BY <1>1, <3>1, <3>2 DEF SettingsInv, ValuesInv
  <2>3. CASE readcfg_returns
    <3>1. DOMAIN set' = DOMAIN set /\ pc = "readcfg" /\ pc' = "check"
          /\ UNCHANGED <<content, conf, todo>>
      BY <2>3 DEF readcfg_returns
    <3>2. QED BY <1>1, <3>1 DEF SettingsInv, ValuesInv
  <2>4. CASE clear_cfg
    <3>1. /\ pc' = "begin" /\ stack = <<>> /\ conf' = EmptyStore
          /\ UNCHANGED <<content, todo, set>>
      BY <2>4 DEF clear_cfg, settings
    <3>2. conf' \in [Sections -> Seq(Lines)] /\ \A s \in Sections : Len(conf'[s]) <= CfgMax
      BY <3>1, SettingsAssumption DEF EmptyStore
    <3>3. QED BY <1>1, <3>1, <3>2 DEF SettingsInv, ValuesInv
  <2>5. CASE Edit
    BY <1>1, <2>5 DEF Edit, settings, SettingsInv, ValuesInv
  <2>6. QED BY <2>1, <2>2, <2>3, <2>4, <2>5
<1>5. QED BY <1>3, <1>4 DEF SettingsInv

(* The state at the start, and after a restart.                            *)
LEMMA StartFacts ==
  ASSUME content \in Contents, pc = "begin", stack = <<>>, conf = EmptyStore, todo = <<>>,
         set = Defaults, kept \in {AtStart(d) : d \in Debugs}, logfp = Nil, io = NoFiles,
         twice = FALSE, late = FALSE
  PROVE  SettingsInv
<1>1. ValuesInv
  <2>1. conf \in [Sections -> Seq(Lines)] /\ \A s \in Sections : Len(conf[s]) <= CfgMax
    BY SettingsAssumption DEF EmptyStore
  <2>2. /\ {"debug", "cfgdir"} \subseteq DOMAIN kept
        /\ kept.debug \in Int /\ kept.cfgdir \in Files
    BY SettingsAssumption DEF AtStart
  <2>3. stack \in Seq(Calls) /\ todo \in Seq(Lines)
    OBVIOUS
  <2>4. twice \in BOOLEAN /\ late \in BOOLEAN
    OBVIOUS
  <2>5. QED BY <2>1, <2>2, <2>3, <2>4 DEF ValuesInv
<1>2. /\ io \in FileStates /\ io.open = {} /\ io.stray = FALSE
      /\ \A n \in 1 .. Slots : io.files[n] = Nil
  BY DEF NoFiles, FileStates
<1>3. Held = {Nil}
  BY DEF Held
<1>4. OpenInv /\ HeldInv /\ ListInv
  BY <1>2, <1>3 DEF OpenInv, HeldInv, ListInv, ListOK
<1>5. QED BY <1>1, <1>4 DEF SettingsInv

-----------------------------------------------------------------------------
(* The invariant holds in every reachable state.                           *)
THEOREM SettingsInvariant == Spec => []SettingsInv
<1>1. Init => SettingsInv
  BY StartFacts DEF Init
<1>2. SettingsInv /\ [Next]_vars => SettingsInv'
  <2> SUFFICES ASSUME SettingsInv, [Next]_vars PROVE SettingsInv'
    OBVIOUS
  <2>1. CASE Pass
    BY <2>1, BeginStep, CheckStep, IncludeStep, LineStep, EndStep, DefaultsStep, KeptStep,
       LogStep, OtherStep DEF Pass
  <2>2. CASE Edit
    BY <2>2, OtherStep
  <2>3. CASE Restart
    <3>1. (/\ content \in Contents /\ pc = "begin" /\ stack = <<>> /\ conf = EmptyStore
           /\ todo = <<>> /\ set = Defaults /\ kept \in {AtStart(d) : d \in Debugs}
           /\ logfp = Nil /\ io = NoFiles /\ twice = FALSE /\ late = FALSE)'
      BY <2>3 DEF Restart, SettingsInv, ValuesInv
    <3>2. QED BY <3>1, StartFacts, PTL
  <2>4. CASE UNCHANGED vars
    <3>1. SameFiles(stack') /\ UNCHANGED <<io, logfp, kept, twice, late>>
      BY <2>4 DEF vars, SameFiles, SettingsInv, ValuesInv
    <3>2. OpenInv' /\ HeldInv' /\ ListInv'
      BY <3>1, FilesStay
    <3>3. QED BY <2>4, <3>2 DEF vars, SettingsInv, ValuesInv
  <2>5. QED BY <2>1, <2>2, <2>3, <2>4 DEF Next
<1>3. QED BY <1>1, <1>2, PTL DEF Spec

(* The open files, the list and the store are well formed.                 *)
THEOREM SettingsTypeOK == Spec => []TypeOK
<1>1. SettingsInv => TypeOK
  <2> SUFFICES ASSUME SettingsInv PROVE TypeOK
    OBVIOUS
  <2>1. \A n \in 1 .. Len(stack) : stack[n].category \in Sections
    <3>1. \A n \in 1 .. Len(stack) : stack[n] \in Calls
      BY DEF SettingsInv, ValuesInv
    <3>2. QED BY <3>1 DEF Calls
  <2>2. QED BY <2>1 DEF SettingsInv, ValuesInv, OpenInv, TypeOK
<1>2. QED BY <1>1, SettingsInvariant, PTL

(* Between two passes only the log file is open, unless a configuration    *)
(* had two of them.                                                        *)
THEOREM NoFileIsLost == Spec => []NoFileLost
<1>1. SettingsInv => NoFileLost
  BY DEF SettingsInv, ValuesInv, HeldInv, Held, NoFileLost
<1>2. QED BY <1>1, SettingsInvariant, PTL

(* The list agrees with the files as long as no configuration changed the  *)
(* debug level below its log file.                                         *)
THEOREM TableStaysTrue == Spec => []TableIsTrue
<1>1. SettingsInv => TableIsTrue
  <2> SUFFICES ASSUME SettingsInv, ~late
               PROVE  /\ ~io.stray /\ ListOK(io)
                      /\ kept.debug >= 2 /\ ~twice /\ ~io.exited =>
                           \A fp \in io.open : SlotsWith(io, fp) # {}
    BY DEF TableIsTrue, ListOK
  <2>1. ~io.stray /\ ListOK(io) /\ \A fp \in Held \ {Nil} : Listed(fp)
    BY DEF SettingsInv, ListInv
  <2>2. ~twice => io.open \subseteq Held \ {Nil}
    BY FileAssumption DEF SettingsInv, HeldInv, OpenInv, FileStates
  <2>3. QED BY <2>1, <2>2 DEF Listed
<1>2. QED BY <1>1, SettingsInvariant, PTL

-----------------------------------------------------------------------------
(* What readcfg has made of the lines above the one it has come to.        *)
Here == Len(conf["mrbig"]) - Len(todo) + 1

KeptKeys == {"debug", "report_size", "cfgdir"}

(* The displays of the lines above line n.                                 *)
DisplayLines(lines, n) == {m \in LinesOf(lines, "display") : m < n}

ShownAt(lines, m) ==
  [addr |-> lines[m].val.addr,
   port |-> IF lines[m].val.port # Nil THEN lines[m].val.port
            ELSE LastOf(lines, "port", m, 1984)]

Shown(lines, n) == {ShownAt(lines, m) : m \in DisplayLines(lines, n)}

(* The values of the option lines above line n.                            *)
OptionValues(lines, n) == {lines[m].val : m \in {k \in LinesOf(lines, "option") : k < n}}

(* The first entry of a list of grace times.                               *)
Grace(list, test) ==
  LET entries == {n \in 1 .. Len(list) : list[n].test = test}
  IN  IF entries = {} THEN 0 ELSE list[Least(entries)].grace

Graces(lines, n, list) ==
  \A m \in LinesOf(lines, "gracetime") :
    /\ m < n
    /\ \A k \in LinesOf(lines, "gracetime") :
         k > m /\ k < n => lines[k].val.test # lines[m].val.test
    => Grace(list, lines[m].val.test) = lines[m].val.grace

TodoInv ==
  pc = "readcfg" =>
    /\ Len(todo) <= Len(conf["mrbig"])
    /\ \A j \in 1 .. Len(todo) : todo[j] = conf["mrbig"][Here - 1 + j]

SetInv ==
  pc = "readcfg" =>
    \A k \in DOMAIN Defaults : set[k] = LastOf(conf["mrbig"], k, Here, Defaults[k])

KeptInv ==
  /\ KeptKeys \subseteq DOMAIN kept
  /\ pc \in {"begin", "main"} => \A k \in KeptKeys : kept[k] = before.kept[k]
  /\ pc = "readcfg" =>
       \A k \in KeptKeys : kept[k] = LastOf(conf["mrbig"], k, Here, before.kept[k])

DisplaysInv ==
  pc = "readcfg" =>
    /\ displays \in Seq(Shown(conf["mrbig"], Here))
    /\ Shown(conf["mrbig"], Here) \subseteq ToSet(displays)
    /\ Len(displays) = Cardinality(DisplayLines(conf["mrbig"], Here))

OptionsInv ==
  pc = "readcfg" =>
    /\ options \in Seq({line.val : line \in Lines})
    /\ ToSet(options) = OptionValues(conf["mrbig"], Here)

GraceInv ==
  pc = "readcfg" =>
    /\ gracetime \in Seq({line.val : line \in Lines})
    /\ Graces(conf["mrbig"], Here, gracetime)

DoneInv ==
  pc = "check" =>
    LET lines == conf["mrbig"]
        end == Len(lines) + 1
    IN  /\ \A k \in DOMAIN Defaults \ {"loop"} : set[k] = LastOf(lines, k, end, Defaults[k])
        /\ set.loop = Least({LastOf(lines, "loop", end, INT_MAX), set.sleep})
        /\ \A k \in KeptKeys : kept[k] = LastOf(lines, k, end, before.kept[k])
        /\ ToSet(options) = OptionValues(lines, end)
        /\ Len(displays) = Cardinality(DisplayLines(lines, end))
        /\ ToSet(displays) = Shown(lines, end)
        /\ Graces(lines, end, gracetime)

FollowInv == TodoInv /\ SetInv /\ KeptInv /\ OptionsInv /\ DisplaysInv /\ GraceInv /\ DoneInv

(* One line further, the last line with a key is that line, if it has the  *)
(* key, and the last one so far if it has not.                             *)
LEMMA LastOfNext ==
  ASSUME NEW lines, Len(lines) \in Nat, NEW n \in 1 .. Len(lines), NEW key, NEW d
  PROVE  LastOf(lines, key, n + 1, d) =
           IF lines[n].key = key THEN lines[n].val ELSE LastOf(lines, key, n, d)
<1> DEFINE at == {m \in LinesOf(lines, key) : m < n}
           next == {m \in LinesOf(lines, key) : m < n + 1}
<1>1. CASE lines[n].key = key
  <2>1. n \in next /\ \A m \in next : m <= n
    BY <1>1 DEF LinesOf
  <2>2. next \subseteq Nat
    BY DEF LinesOf
  <2> HIDE DEF next
  <2>3. (CHOOSE m \in next : \A k \in next : k <= m) = n
    <3> DEFINE top == CHOOSE m \in next : \A k \in next : k <= m
    <3>1. top \in next /\ \A k \in next : k <= top
      BY <2>1
    <3> HIDE DEF top
    <3>2. top <= n /\ n <= top
      BY <2>1, <3>1
    <3>3. top = n
      BY <2>2, <3>1, <3>2
    <3>4. QED BY <3>3 DEF top
  <2>4. LastOf(lines, key, n + 1, d) =
          IF next = {} THEN d ELSE lines[CHOOSE m \in next : \A k \in next : k <= m].val
    BY DEF LastOf, next
  <2>5. QED BY <1>1, <2>1, <2>3, <2>4
<1>2. CASE lines[n].key # key
  <2>1. next = at
    BY <1>2 DEF LinesOf
  <2>2. /\ LastOf(lines, key, n + 1, d) =
             IF next = {} THEN d ELSE lines[CHOOSE m \in next : \A k \in next : k <= m].val
        /\ LastOf(lines, key, n, d) =
             IF at = {} THEN d ELSE lines[CHOOSE m \in at : \A k \in at : k <= m].val
    BY Zenon DEF LastOf
  <2> HIDE DEF next, at
  <2>3. QED BY <1>2, <2>1, <2>2
<1>3. QED BY <1>1, <1>2

LEMMA LastOfNone ==
  ASSUME NEW lines, NEW key, NEW d PROVE LastOf(lines, key, 1, d) = d
<1>1. {m \in LinesOf(lines, key) : m < 1} = {}
  BY DEF LinesOf
<1>2. QED BY <1>1, Zenon DEF LastOf

(* An entry in front of a list hides the others for its test.              *)
LEMMA GraceOfFirst ==
  ASSUME NEW V, NEW list \in Seq(V), NEW v \in V, NEW test
  PROVE  Grace(<<v>> \o list, test) = IF v.test = test THEN v.grace ELSE Grace(list, test)
<1> DEFINE longer == <<v>> \o list
           entries == {n \in 1 .. Len(list) : list[n].test = test}
           more == {n \in 1 .. Len(longer) : longer[n].test = test}
<1>1. /\ Len(longer) = Len(list) + 1 /\ longer[1] = v
      /\ \A n \in 1 .. Len(list) : longer[n + 1] = list[n]
      /\ Len(list) \in Nat
  OBVIOUS
<1> HIDE DEF longer
<1>2. /\ Grace(list, test) = IF entries = {} THEN 0 ELSE list[Least(entries)].grace
      /\ Grace(longer, test) = IF more = {} THEN 0 ELSE longer[Least(more)].grace
  BY Zenon DEF Grace
<1>3. entries \in SUBSET Nat /\ more \in SUBSET Nat
  BY <1>1
<1>4. \A n \in 1 .. Len(list) : n + 1 \in more <=> n \in entries
  BY <1>1
<1>5. \A n \in more : n = 1 \/ (n - 1 \in 1 .. Len(list) /\ n - 1 + 1 = n)
  BY <1>1
<1>6. CASE v.test = test
  <2>1. 1 \in more /\ \A n \in more : 1 <= n
    BY <1>1, <1>6
  <2> HIDE DEF more
  <2>2. Least(more) = 1
    <3>1. more \in SUBSET Nat
      BY <1>3
    <3>2. QED BY <2>1, <3>1, LeastIs
  <2>3. QED BY <1>1, <1>2, <1>6, <2>1, <2>2 DEF longer
<1>7. CASE v.test # test
  <2>1. 1 \notin more
    BY <1>1, <1>7
  <2>2. CASE entries = {}
    <3>1. more = {}
      BY <1>4, <1>5, <2>1, <2>2
    <3>2. QED BY <1>2, <1>7, <2>2, <3>1 DEF longer
  <2>3. CASE entries # {}
    <3> DEFINE l == Least(entries)
    <3>1. l \in entries /\ \A n \in entries : l <= n
      <4> HIDE DEF entries
      <4>1. QED BY <1>3, <2>3, LeastOf
    <3>2. l \in 1 .. Len(list)
      BY <3>1
    <3> HIDE DEF l, entries, more
    <3>3. l + 1 \in more
      BY <1>4, <3>1, <3>2
    <3>4. \A n \in more : l + 1 <= n
      <4>1. TAKE n \in more
      <4>2. n - 1 \in 1 .. Len(list) /\ n - 1 + 1 = n
        BY <1>5, <2>1
      <4>3. n - 1 \in entries
        BY <1>4, <4>2
      <4>4. l <= n - 1
        BY <3>1, <4>3
      <4>5. QED BY <3>2, <4>2, <4>4
    <3>5. Least(more) = l + 1
      BY <1>3, <3>3, <3>4, LeastIs
    <3>6. longer[l + 1] = list[l]
      BY <1>1, <3>2
    <3>7. QED BY <1>2, <1>7, <2>3, <3>3, <3>5, <3>6 DEF l, longer
  <2>4. QED BY <2>2, <2>3
<1>8. QED BY <1>6, <1>7 DEF longer

(* readcfg takes a line.                                                   *)
TakesLine ==
  /\ pc = "readcfg" /\ todo # <<>> /\ todo' = Tail(todo)
  /\ UNCHANGED <<pc, conf, before>>

LEMMA TakesLineFacts ==
  ASSUME SettingsInv, TodoInv, TakesLine
  PROVE  /\ conf["mrbig"] \in Seq(Lines) /\ Here \in 1 .. Len(conf["mrbig"])
         /\ Here' = Here + 1 /\ Head(todo) = conf["mrbig"][Here]
         /\ Head(todo) \in Lines
         /\ TodoInv' /\ DoneInv'
<1> DEFINE lines == conf["mrbig"]
<1>1. lines \in Seq(Lines) /\ todo \in Seq(Lines) /\ Len(todo) \in Nat \ {0}
  BY SettingsAssumption DEF SettingsInv, ValuesInv, TakesLine
<1>2. /\ Len(todo) <= Len(lines)
      /\ \A j \in 1 .. Len(todo) : todo[j] = lines[Here - 1 + j]
  BY DEF TodoInv, TakesLine
<1>3. Here = Len(lines) - Len(todo) + 1 /\ Here' = Len(lines) - Len(todo') + 1
  BY DEF Here, TakesLine
<1>4. /\ todo' = Tail(todo) /\ todo' \in Seq(Lines) /\ Len(todo') = Len(todo) - 1
      /\ \A j \in 1 .. Len(todo') : todo'[j] = todo[j + 1]
      /\ Head(todo) = todo[1]
  BY <1>1 DEF TakesLine
<1> HIDE DEF lines
<1>5. Here \in 1 .. Len(lines) /\ Here' = Here + 1
  BY <1>1, <1>2, <1>3, <1>4
<1>6. Head(todo) = lines[Here]
  <2>1. 1 \in 1 .. Len(todo) /\ Here - 1 + 1 = Here
    BY <1>1, <1>5
  <2>2. QED BY <1>2, <1>4, <2>1
<1>7. ASSUME NEW j \in 1 .. Len(todo') PROVE todo'[j] = lines[Here' - 1 + j]
  <2>1. j + 1 \in 1 .. Len(todo) /\ Here - 1 + (j + 1) = Here' - 1 + j
    BY <1>1, <1>4, <1>5
  <2>2. QED BY <1>2, <1>4, <2>1
<1>8. lines' = lines
  BY DEF lines, TakesLine
<1>9. TodoInv'
  <2>1. Len(todo') <= Len(lines)
    BY <1>1, <1>2, <1>4
  <2>2. QED BY <1>7, <1>8, <2>1 DEF TodoInv, lines
<1>10. DoneInv'
  BY DEF DoneInv, TakesLine
<1>11. Head(todo) \in Lines
  BY <1>1
<1>12. QED BY <1>1, <1>5, <1>6, <1>9, <1>10, <1>11 DEF lines

(* A line of another kind leaves each of the four parts as it was.         *)
LEMMA SetStays ==
  ASSUME SettingsInv, TodoInv, TakesLine, SetInv, UNCHANGED set,
         Head(todo).key \notin DOMAIN Defaults
  PROVE  SetInv'
<1>1. ASSUME NEW k \in DOMAIN Defaults
      PROVE  LastOf(conf["mrbig"], k, Here + 1, Defaults[k]) =
               LastOf(conf["mrbig"], k, Here, Defaults[k])
  BY TakesLineFacts, LastOfNext
<1>2. /\ Here' = Here + 1 /\ conf' = conf
      /\ \A k \in DOMAIN Defaults : set[k] = LastOf(conf["mrbig"], k, Here, Defaults[k])
  BY TakesLineFacts DEF TakesLine, SetInv
<1>3. QED BY <1>1, <1>2 DEF SetInv

LEMMA KeptStays ==
  ASSUME SettingsInv, TodoInv, TakesLine, KeptInv, UNCHANGED kept,
         Head(todo).key \notin KeptKeys
  PROVE  KeptInv'
<1>1. ASSUME NEW k \in KeptKeys
      PROVE  LastOf(conf["mrbig"], k, Here + 1, before.kept[k]) =
               LastOf(conf["mrbig"], k, Here, before.kept[k])
  BY TakesLineFacts, LastOfNext
<1>2. /\ Here' = Here + 1 /\ conf' = conf /\ before' = before /\ pc' = "readcfg"
      /\ KeptKeys \subseteq DOMAIN kept
      /\ \A k \in KeptKeys : kept[k] = LastOf(conf["mrbig"], k, Here, before.kept[k])
  BY TakesLineFacts DEF TakesLine, KeptInv
<1>3. QED BY <1>1, <1>2 DEF KeptInv

LEMMA OptionsStay ==
  ASSUME SettingsInv, TodoInv, TakesLine, OptionsInv, UNCHANGED options,
         Head(todo).key # "option"
  PROVE  OptionsInv'
<1> DEFINE lines == conf["mrbig"]
<1>1. /\ Here \in Nat /\ Here' = Here + 1 /\ conf' = conf /\ pc = "readcfg"
      /\ lines[Here].key # "option"
  BY TakesLineFacts DEF TakesLine
<1>2. OptionValues(lines, Here + 1) = OptionValues(lines, Here)
  <2>1. \A m \in LinesOf(lines, "option") : m # Here /\ m \in Nat
    BY <1>1 DEF LinesOf
  <2>2. \A m \in LinesOf(lines, "option") : m < Here + 1 <=> m < Here
    BY <1>1, <2>1
  <2>3. QED BY <2>2 DEF OptionValues
<1>3. QED BY <1>1, <1>2 DEF OptionsInv

LEMMA DisplayLinesNext ==
  ASSUME NEW lines, Len(lines) \in Nat, NEW n \in 1 .. Len(lines)
  PROVE  /\ DisplayLines(lines, n + 1) =
              IF lines[n].key = "display" THEN DisplayLines(lines, n) \union {n}
              ELSE DisplayLines(lines, n)
         /\ n \notin DisplayLines(lines, n)
         /\ IsFiniteSet(DisplayLines(lines, n))
<1>1. DisplayLines(lines, n) \subseteq 1 .. Len(lines)
  BY DEF DisplayLines, LinesOf
<1>2. IsFiniteSet(DisplayLines(lines, n))
  <2>1. IsFiniteSet(1 .. Len(lines))
    BY FS_Interval
  <2>2. QED BY <1>1, <2>1, FS_Subset
<1>3. QED BY <1>2 DEF DisplayLines, LinesOf

LEMMA DisplaysStay ==
  ASSUME SettingsInv, TodoInv, TakesLine, DisplaysInv, UNCHANGED displays,
         Head(todo).key # "display"
  PROVE  DisplaysInv'
<1>1. DisplayLines(conf["mrbig"], Here + 1) = DisplayLines(conf["mrbig"], Here)
  <2>1. /\ Head(todo) = conf["mrbig"][Here] /\ Here \in 1 .. Len(conf["mrbig"])
        /\ Len(conf["mrbig"]) \in Nat
    BY TakesLineFacts
  <2>2. QED BY <2>1, DisplayLinesNext
<1>2. Here' = Here + 1 /\ conf' = conf /\ pc = "readcfg"
  BY TakesLineFacts DEF TakesLine
<1>3. QED BY <1>1, <1>2 DEF DisplaysInv, Shown

LEMMA GraceStays ==
  ASSUME SettingsInv, TodoInv, TakesLine, GraceInv, UNCHANGED gracetime,
         Head(todo).key # "gracetime"
  PROVE  GraceInv'
<1> DEFINE lines == conf["mrbig"]
<1>1. /\ Here \in Nat /\ Here' = Here + 1 /\ conf' = conf /\ pc = "readcfg"
      /\ lines[Here].key # "gracetime"
  BY TakesLineFacts DEF TakesLine
<1>2. Graces(lines, Here, gracetime) /\ gracetime \in Seq({line.val : line \in Lines})
  BY <1>1 DEF GraceInv
<1>3. Graces(lines, Here + 1, gracetime)
  <2>1. \A m \in LinesOf(lines, "gracetime") : m # Here /\ m \in Nat
    BY <1>1 DEF LinesOf
  <2>2. \A m \in LinesOf(lines, "gracetime") : m < Here + 1 <=> m < Here
    BY <1>1, <2>1
  <2>3. QED BY <1>2, <2>2 DEF Graces
<1>4. QED BY <1>1, <1>2, <1>3 DEF GraceInv

(* A line takes effect.                                                    *)
LEMMA SetFollows ==
  ASSUME SettingsInv, TodoInv, TakesLine, SetInv, Head(todo).key \in DOMAIN Defaults,
         set' = [set EXCEPT ![Head(todo).key] = value]
  PROVE  SetInv'
<1>1. ASSUME NEW k \in DOMAIN Defaults
      PROVE  set'[k] = LastOf(conf["mrbig"], k, Here + 1, Defaults[k])
  <2>1. LastOf(conf["mrbig"], k, Here + 1, Defaults[k]) =
          IF Head(todo).key = k THEN Head(todo).val
          ELSE LastOf(conf["mrbig"], k, Here, Defaults[k])
    <3>1. /\ Head(todo) = conf["mrbig"][Here] /\ Here \in 1 .. Len(conf["mrbig"])
          /\ Len(conf["mrbig"]) \in Nat
      BY TakesLineFacts
    <3>2. QED BY <3>1, LastOfNext
  <2>2. set[k] = LastOf(conf["mrbig"], k, Here, Defaults[k]) /\ DOMAIN set = DOMAIN Defaults
    BY DEF SetInv, TakesLine, SettingsInv, ValuesInv
  <2>3. QED BY <2>1, <2>2 DEF value
<1>2. Here' = Here + 1 /\ conf' = conf
  BY TakesLineFacts DEF TakesLine
<1>3. QED BY <1>1, <1>2 DEF SetInv

LEMMA KeptFollows ==
  ASSUME SettingsInv, TodoInv, TakesLine, KeptInv, Head(todo).key \in KeptKeys,
         kept' = [kept EXCEPT ![Head(todo).key] = value]
  PROVE  KeptInv'
<1>1. ASSUME NEW k \in KeptKeys
      PROVE  kept'[k] = LastOf(conf["mrbig"], k, Here + 1, before.kept[k])
  <2>1. LastOf(conf["mrbig"], k, Here + 1, before.kept[k]) =
          IF Head(todo).key = k THEN Head(todo).val
          ELSE LastOf(conf["mrbig"], k, Here, before.kept[k])
    <3>1. /\ Head(todo) = conf["mrbig"][Here] /\ Here \in 1 .. Len(conf["mrbig"])
          /\ Len(conf["mrbig"]) \in Nat
      BY TakesLineFacts
    <3>2. QED BY <3>1, LastOfNext
  <2>2. /\ kept[k] = LastOf(conf["mrbig"], k, Here, before.kept[k])
        /\ KeptKeys \subseteq DOMAIN kept
    BY DEF KeptInv, TakesLine
  <2>3. QED BY <2>1, <2>2 DEF value
<1>2. /\ Here' = Here + 1 /\ conf' = conf /\ before' = before /\ pc' = "readcfg"
      /\ KeptKeys \subseteq DOMAIN kept'
  BY TakesLineFacts DEF TakesLine, KeptInv
<1>3. QED BY <1>1, <1>2 DEF KeptInv

LEMMA OptionsFollow ==
  ASSUME SettingsInv, TodoInv, TakesLine, OptionsInv, Head(todo).key = "option",
         options' = <<value>> \o options
  PROVE  OptionsInv'
<1> DEFINE lines == conf["mrbig"]
           V == {line.val : line \in Lines}
<1>1. /\ Here' = Here + 1 /\ conf' = conf /\ pc = "readcfg" /\ value = lines[Here].val
      /\ Here \in 1 .. Len(lines) /\ Len(lines) \in Nat /\ lines[Here].key = "option"
      /\ value \in V
  BY TakesLineFacts DEF TakesLine, value
<1>2. options \in Seq(V) /\ ToSet(options) = OptionValues(lines, Here)
  BY <1>1 DEF OptionsInv
<1> HIDE DEF V, lines
<1>3. /\ options' \in Seq(V) /\ Len(options') = Len(options) + 1 /\ options'[1] = value
      /\ \A j \in 1 .. Len(options) : options'[j + 1] = options[j]
      /\ Len(options) \in Nat
  BY <1>1, <1>2
<1>4. ToSet(options') = ToSet(options) \cup {value}
  <2>1. /\ ToSet(options) = {options[j] : j \in 1 .. Len(options)}
        /\ ToSet(options') = {options'[j] : j \in 1 .. Len(options')}
    <3>1. DOMAIN options = 1 .. Len(options) /\ DOMAIN options' = 1 .. Len(options')
      BY <1>2, <1>3
    <3>2. QED BY <3>1, Zenon DEF ToSet
  <2>2. /\ 1 \in 1 .. Len(options')
        /\ \A j \in 1 .. Len(options) : j + 1 \in 1 .. Len(options')
    BY <1>3
  <2>3. ToSet(options) \cup {value} \subseteq ToSet(options')
    BY <1>3, <2>1, <2>2
  <2>4. \A j \in 1 .. Len(options') : j = 1 \/ (j - 1 \in 1 .. Len(options) /\ j - 1 + 1 = j)
    BY <1>3
  <2>5. ToSet(options') \subseteq ToSet(options) \cup {value}
    BY <1>3, <2>1, <2>4
  <2>6. QED BY <2>3, <2>5
<1>5. OptionValues(lines, Here + 1) = OptionValues(lines, Here) \cup {value}
  <2>1. \A m \in LinesOf(lines, "option") : m < Here + 1 <=> m < Here \/ m = Here
    BY <1>1 DEF LinesOf
  <2>2. Here \in LinesOf(lines, "option")
    BY <1>1 DEF LinesOf
  <2>3. QED BY <1>1, <2>1, <2>2 DEF OptionValues
<1>6. QED BY <1>1, <1>2, <1>3, <1>4, <1>5 DEF OptionsInv, lines, V

LEMMA DisplaysFollow ==
  ASSUME SettingsInv, TodoInv, TakesLine, SetInv, DisplaysInv, Head(todo).key = "display",
         LET port == IF value.port = Nil THEN set.port ELSE value.port
         IN  displays' = <<[addr |-> value.addr, port |-> port]>> \o displays
  PROVE  DisplaysInv'
<1> DEFINE lines == conf["mrbig"]
           new == ShownAt(lines, Here)
<1>1. /\ Here' = Here + 1 /\ conf' = conf /\ pc = "readcfg" /\ value = lines[Here].val
      /\ Here \in 1 .. Len(lines) /\ Len(lines) \in Nat /\ lines[Here].key = "display"
  BY TakesLineFacts DEF TakesLine, value
<1>2. set.port = LastOf(lines, "port", Here, 1984)
  <2>1. "port" \in DOMAIN Defaults /\ Defaults["port"] = 1984
    BY DEF Defaults
  <2>2. QED BY <1>1, <2>1 DEF SetInv
<1>3. displays' = <<new>> \o displays
  BY <1>1, <1>2 DEF ShownAt
<1>4. /\ DisplayLines(lines, Here + 1) = DisplayLines(lines, Here) \union {Here}
      /\ Here \notin DisplayLines(lines, Here) /\ IsFiniteSet(DisplayLines(lines, Here))
  BY <1>1, DisplayLinesNext
<1> HIDE DEF new
<1>5. Shown(lines, Here + 1) = Shown(lines, Here) \union {new}
  BY <1>4 DEF Shown, new
<1>6. /\ displays \in Seq(Shown(lines, Here)) /\ Shown(lines, Here) \subseteq ToSet(displays)
      /\ Len(displays) = Cardinality(DisplayLines(lines, Here))
  BY <1>1 DEF DisplaysInv
<1> HIDE DEF lines
<1>7. /\ displays' \in Seq(Shown(lines, Here + 1)) /\ Len(displays') = Len(displays) + 1
      /\ displays'[1] = new /\ \A j \in 1 .. Len(displays) : displays'[j + 1] = displays[j]
      /\ Len(displays) \in Nat
  <2>1. displays \in Seq(Shown(lines, Here + 1)) /\ new \in Shown(lines, Here + 1)
    BY <1>5, <1>6
  <2>2. QED BY <1>3, <2>1
<1>8. Shown(lines, Here + 1) \subseteq ToSet(displays')
  <2>1. DOMAIN displays = 1 .. Len(displays) /\ DOMAIN displays' = 1 .. Len(displays')
    BY <1>6, <1>7
  <2>2. ToSet(displays') = {displays'[j] : j \in 1 .. Len(displays')}
    BY <2>1 DEF ToSet
  <2>3. new \in ToSet(displays')
    <3>1. 1 \in 1 .. Len(displays')
      BY <1>7
    <3>2. QED BY <1>7, <2>2, <3>1
  <2>4. ASSUME NEW shown \in Shown(lines, Here) PROVE shown \in ToSet(displays')
    <3>1. PICK j \in 1 .. Len(displays) : displays[j] = shown
      BY <1>6, <2>1, <2>4 DEF ToSet
    <3>2. j + 1 \in 1 .. Len(displays') /\ displays'[j + 1] = shown
      BY <1>7, <3>1
    <3>3. QED BY <2>2, <3>2
  <2>5. QED BY <1>5, <2>3, <2>4
<1>9. Len(displays') = Cardinality(DisplayLines(lines, Here + 1))
  BY <1>4, <1>6, <1>7, FS_AddElement
<1>10. QED BY <1>1, <1>7, <1>8, <1>9 DEF DisplaysInv, lines

LEMMA GraceFollows ==
  ASSUME SettingsInv, TodoInv, TakesLine, GraceInv, Head(todo).key = "gracetime",
         gracetime' = <<value>> \o gracetime
  PROVE  GraceInv'
<1> DEFINE lines == conf["mrbig"]
           V == {line.val : line \in Lines}
<1>1. /\ Here' = Here + 1 /\ conf' = conf /\ pc = "readcfg" /\ value = lines[Here].val
      /\ Here \in 1 .. Len(lines) /\ Len(lines) \in Nat /\ lines[Here].key = "gracetime"
      /\ value \in V
  BY TakesLineFacts DEF TakesLine, value
<1>2. Graces(lines, Here, gracetime) /\ gracetime \in Seq(V)
  BY <1>1 DEF GraceInv
<1> HIDE DEF V, lines
<1>3. gracetime' \in Seq(V)
  BY <1>1, <1>2
<1>4. \A test : Grace(gracetime', test) =
                  IF value.test = test THEN value.grace ELSE Grace(gracetime, test)
  BY <1>1, <1>2, GraceOfFirst
<1>5. ASSUME NEW m \in LinesOf(lines, "gracetime"), m < Here + 1,
             \A k \in LinesOf(lines, "gracetime") :
               k > m /\ k < Here + 1 => lines[k].val.test # lines[m].val.test
      PROVE  Grace(gracetime', lines[m].val.test) = lines[m].val.grace
  <2>1. m \in Nat /\ Here \in Nat /\ Here \in LinesOf(lines, "gracetime")
    BY <1>1 DEF LinesOf
  <2>2. CASE m = Here
    BY <1>1, <1>4, <2>2
  <2>3. CASE m < Here
    <3>1. lines[Here].val.test # lines[m].val.test
      BY <1>5, <2>1, <2>3
    <3>2. \A k \in LinesOf(lines, "gracetime") :
            k > m /\ k < Here => lines[k].val.test # lines[m].val.test
      <4>1. \A k \in LinesOf(lines, "gracetime") : k < Here => k < Here + 1
        BY <2>1 DEF LinesOf
      <4>2. QED BY <1>5, <4>1
    <3>3. Grace(gracetime, lines[m].val.test) = lines[m].val.grace
      BY <1>2, <2>3, <3>2 DEF Graces
    <3>4. QED BY <1>1, <1>4, <3>1, <3>3
  <2>4. QED BY <1>5, <2>1, <2>2, <2>3
<1>6. Graces(lines, Here + 1, gracetime')
  BY <1>5 DEF Graces
<1>7. QED BY <1>1, <1>3, <1>6 DEF GraceInv, lines, V

LEMMA LineFollows ==
  ASSUME SettingsInv, FollowInv,
         \/ SetLine \/ KeptLine \/ DisplayLine \/ GraceLine \/ OptionLine \/ LogLine
         \/ IgnoredLine
  PROVE  FollowInv'
<1> DEFINE key == Head(todo).key
<1>1. TodoInv /\ SetInv /\ KeptInv /\ OptionsInv /\ DisplaysInv /\ GraceInv
  BY DEF FollowInv
<1>2. TakesLine
  BY DEF TakesLine, SetLine, KeptLine, DisplayLine, GraceLine, OptionLine, LogLine,
     IgnoredLine, Directive, settings, hist
<1>3. TodoInv' /\ DoneInv'
  BY <1>1, <1>2, TakesLineFacts
<1>4. /\ DOMAIN Defaults \intersect
           (KeptKeys \union {"display", "gracetime", "option", "logfile"}) = {}
      /\ KeptKeys \intersect {"display", "gracetime", "option", "logfile"} = {}
  BY DEF Defaults, KeptKeys
<1>5. SetInv'
  <2>1. CASE SetLine
    <3>1. key \in DOMAIN Defaults /\ set' = [set EXCEPT ![key] = value]
      BY <2>1 DEF SetLine, Directive
    <3>2. QED BY <1>1, <1>2, <3>1, SetFollows
  <2>2. CASE ~SetLine
    <3>1. UNCHANGED set /\ key \notin DOMAIN Defaults
      BY <1>4, <2>2
      DEF KeptLine, DisplayLine, GraceLine, OptionLine, LogLine, IgnoredLine, Directive, Keys,
          settings, KeptKeys
    <3>2. QED BY <1>1, <1>2, <3>1, SetStays
  <2>3. QED BY <2>1, <2>2
<1>6. KeptInv'
  <2>1. CASE KeptLine
    <3>1. key \in KeptKeys /\ kept' = [kept EXCEPT ![key] = value]
      BY <2>1 DEF KeptLine, Directive, KeptKeys
    <3>2. QED BY <1>1, <1>2, <3>1, KeptFollows
  <2>2. CASE ~KeptLine
    <3>1. UNCHANGED kept /\ key \notin KeptKeys
      BY <1>4, <2>2
      DEF SetLine, DisplayLine, GraceLine, OptionLine, LogLine, IgnoredLine, Directive, Keys,
          settings, KeptKeys
    <3>2. QED BY <1>1, <1>2, <3>1, KeptStays
  <2>3. QED BY <2>1, <2>2
<1>7. DisplaysInv'
  <2>1. CASE DisplayLine
    <3>1. /\ key = "display"
          /\ LET port == IF value.port = Nil THEN set.port ELSE value.port
             IN  displays' = <<[addr |-> value.addr, port |-> port]>> \o displays
      BY <2>1 DEF DisplayLine, Directive
    <3>2. QED BY <1>1, <1>2, <3>1, DisplaysFollow
  <2>2. CASE ~DisplayLine
    <3>1. UNCHANGED displays /\ key # "display"
      BY <1>4, <2>2
      DEF SetLine, KeptLine, GraceLine, OptionLine, LogLine, IgnoredLine, Directive, Keys,
          settings, KeptKeys
    <3>2. QED BY <1>1, <1>2, <3>1, DisplaysStay
  <2>3. QED BY <2>1, <2>2
<1>8. GraceInv'
  <2>1. CASE GraceLine
    <3>1. key = "gracetime" /\ gracetime' = <<value>> \o gracetime
      BY <2>1 DEF GraceLine, Directive
    <3>2. QED BY <1>1, <1>2, <3>1, GraceFollows
  <2>2. CASE ~GraceLine
    <3>1. UNCHANGED gracetime /\ key # "gracetime"
      BY <1>4, <2>2
      DEF SetLine, KeptLine, DisplayLine, OptionLine, LogLine, IgnoredLine, Directive, Keys,
          settings, KeptKeys
    <3>2. QED BY <1>1, <1>2, <3>1, GraceStays
  <2>3. QED BY <2>1, <2>2
<1>9. OptionsInv'
  <2>1. CASE OptionLine
    <3>1. key = "option" /\ options' = <<value>> \o options
      BY <2>1 DEF OptionLine, Directive
    <3>2. QED BY <1>1, <1>2, <3>1, OptionsFollow
  <2>2. CASE ~OptionLine
    <3>1. UNCHANGED options /\ key # "option"
      BY <1>4, <2>2
      DEF SetLine, KeptLine, DisplayLine, GraceLine, LogLine, IgnoredLine, Directive, Keys,
          settings, KeptKeys
    <3>2. QED BY <1>1, <1>2, <3>1, OptionsStay
  <2>3. QED BY <2>1, <2>2
<1>10. QED BY <1>3, <1>5, <1>6, <1>7, <1>8, <1>9 DEF FollowInv

(* Before its first line readcfg has the defaults, and what is kept.       *)
LEMMA DefaultsFollow == ASSUME SettingsInv, FollowInv, SetDefaults PROVE FollowInv'
<1> DEFINE lines == conf["mrbig"]
<1>1. /\ lines \in Seq(Lines) /\ Len(lines) \in Nat
      /\ pc = "main" /\ pc' = "readcfg" /\ todo' = lines /\ conf' = conf
      /\ set' = Defaults /\ displays' = <<>> /\ gracetime' = <<>> /\ options' = <<>>
      /\ kept' = kept /\ before' = before
  BY SettingsAssumption DEF SetDefaults, hist, SettingsInv, ValuesInv
<1>2. Here' = 1
  BY <1>1 DEF Here
<1>3. TodoInv'
  BY <1>1, <1>2 DEF TodoInv
<1>4. SetInv'
  BY <1>1, <1>2, LastOfNone DEF SetInv
<1>5. KeptInv'
  BY <1>1, <1>2, LastOfNone DEF KeptInv, FollowInv
<1>6. DisplayLines(lines, 1) = {}
  BY DEF DisplayLines, LinesOf
<1>7. DisplaysInv'
  <2>1. Cardinality(DisplayLines(lines, 1)) = 0 /\ Shown(lines, 1) = {}
    BY <1>6, FS_EmptySet DEF Shown
  <2>2. <<>> \in Seq(Shown(lines, 1)) /\ Len(<<>>) = 0
    OBVIOUS
  <2>3. QED BY <1>1, <1>2, <2>1, <2>2 DEF DisplaysInv
<1>8. GraceInv'
  <2>1. Graces(lines, 1, <<>>)
    BY DEF Graces, LinesOf
  <2>2. QED BY <1>1, <1>2, <2>1 DEF GraceInv
<1>9. DoneInv'
  BY <1>1 DEF DoneInv
<1>10. OptionsInv'
  <2>1. OptionValues(lines, 1) = {}
    BY DEF OptionValues, LinesOf
  <2>2. <<>> \in Seq({line.val : line \in Lines}) /\ ToSet(<<>>) = {}
    BY DEF ToSet
  <2>3. QED BY <1>1, <1>2, <2>1, <2>2 DEF OptionsInv
<1>11. QED BY <1>3, <1>4, <1>5, <1>7, <1>8, <1>9, <1>10 DEF FollowInv

(* After its last line only the loop is still to be limited.               *)
LEMMA ReturnFollows == ASSUME SettingsInv, FollowInv, readcfg_returns PROVE FollowInv'
<1> DEFINE lines == conf["mrbig"]
           end == Len(lines) + 1
<1>1. /\ pc = "readcfg" /\ pc' = "check" /\ todo = <<>>
      /\ set' = [set EXCEPT !.loop = Least({@, set.sleep})]
      /\ UNCHANGED <<conf, kept, displays, gracetime, options, before>>
  BY DEF readcfg_returns, hist
<1>2. lines \in Seq(Lines) /\ Len(lines) \in Nat /\ Here = end
  BY <1>1, SettingsAssumption DEF Here, SettingsInv, ValuesInv
<1>3. /\ DOMAIN set = DOMAIN Defaults
      /\ \A k \in DOMAIN Defaults : set[k] = LastOf(lines, k, end, Defaults[k])
  BY <1>1, <1>2 DEF FollowInv, SetInv, SettingsInv, ValuesInv
<1>4. /\ {"loop", "sleep"} \subseteq DOMAIN Defaults /\ Defaults["loop"] = INT_MAX
  BY DEF Defaults
<1>5. /\ \A k \in DOMAIN Defaults \ {"loop"} : set'[k] = set[k]
      /\ set'.loop = Least({set.loop, set.sleep}) /\ set'.sleep = set.sleep
  BY <1>1, <1>3, <1>4
<1>6. \A k \in KeptKeys : kept[k] = LastOf(lines, k, end, before.kept[k])
  BY <1>1, <1>2 DEF FollowInv, KeptInv
<1>7. /\ Len(displays) = Cardinality(DisplayLines(lines, end))
      /\ displays \in Seq(Shown(lines, end)) /\ Shown(lines, end) \subseteq ToSet(displays)
  BY <1>1, <1>2 DEF FollowInv, DisplaysInv
<1>8. ToSet(displays) = Shown(lines, end)
  BY <1>7 DEF ToSet
<1>9. Graces(lines, end, gracetime) /\ ToSet(options) = OptionValues(lines, end)
  BY <1>1, <1>2 DEF FollowInv, GraceInv, OptionsInv
<1>10. DoneInv'
  <2>1. set'.loop = Least({LastOf(lines, "loop", end, INT_MAX), set'.sleep})
    BY <1>3, <1>4, <1>5
  <2>2. \A k \in DOMAIN Defaults \ {"loop"} : set'[k] = LastOf(lines, k, end, Defaults[k])
    BY <1>3, <1>5
  <2>3. lines' = lines /\ end' = end
    BY <1>1
  <2> HIDE DEF lines, end
  <2>4. DoneInv' <=>
          LET l == lines'
              e == end'
          IN  /\ \A k \in DOMAIN Defaults \ {"loop"} : set'[k] = LastOf(l, k, e, Defaults[k])
              /\ set'.loop = Least({LastOf(l, "loop", e, INT_MAX), set'.sleep})
              /\ \A k \in KeptKeys : kept'[k] = LastOf(l, k, e, before'.kept[k])
              /\ ToSet(options') = OptionValues(l, e)
              /\ Len(displays') = Cardinality(DisplayLines(l, e))
              /\ ToSet(displays') = Shown(l, e)
              /\ Graces(l, e, gracetime')
    BY <1>1, Zenon DEF DoneInv, lines, end
  <2>5. QED BY <1>1, <1>6, <1>7, <1>8, <1>9, <2>1, <2>2, <2>3, <2>4
<1>11. KeptInv'
  BY <1>1 DEF FollowInv, KeptInv
<1>12. QED BY <1>1, <1>10, <1>11 DEF FollowInv, TodoInv, SetInv, OptionsInv, DisplaysInv, GraceInv

(* The steps before and after readcfg.                                     *)
LEMMA OtherFollows ==
  ASSUME SettingsInv, FollowInv,
         \/ Begin \/ ReadSection \/ ReadInclude \/ ReadBind \/ ReadLine \/ EndOfFile
         \/ Check \/ clear_cfg \/ Edit \/ Restart \/ UNCHANGED vars
  PROVE  FollowInv'
<1>1. CASE ReadSection \/ ReadInclude \/ ReadBind \/ ReadLine \/ EndOfFile
  <2>1. stack # <<>> /\ UNCHANGED <<pc, before>>
    BY <1>1 DEF ReadSection, ReadInclude, ReadBind, ReadLine, EndOfFile, Line, hist
  <2>2. pc \in {"main", "disk"}
    BY <2>1 DEF SettingsInv, ValuesInv
  <2>3. KeptKeys \subseteq DOMAIN kept' /\ \A k \in KeptKeys : kept'[k] = kept[k]
    BY <1>1
    DEF ReadSection, ReadInclude, ReadBind, ReadLine, EndOfFile, settings, KeptKeys, FollowInv,
        KeptInv
  <2>4. KeptInv'
    BY <2>1, <2>2, <2>3 DEF FollowInv, KeptInv
  <2>5. QED BY <2>1, <2>2, <2>4
            DEF FollowInv, TodoInv, SetInv, OptionsInv, DisplaysInv, GraceInv, DoneInv
<1>2. CASE Begin \/ Check
  <2>1. /\ pc' \in {"main", "disk"} /\ UNCHANGED <<kept, before>>
        /\ pc' = "main" => pc = "begin"
    BY <1>2 DEF Begin, Check, settings, hist
  <2>2. QED BY <2>1
            DEF FollowInv, TodoInv, SetInv, KeptInv, OptionsInv, DisplaysInv, GraceInv, DoneInv
<1>3. CASE clear_cfg
  <2>1. pc' = "begin" /\ kept' = kept /\ before'.kept = kept
    BY <1>3 DEF clear_cfg, settings
  <2>2. QED BY <2>1
            DEF FollowInv, TodoInv, SetInv, KeptInv, OptionsInv, DisplaysInv, GraceInv, DoneInv
<1>4. CASE Edit \/ UNCHANGED vars
  <2>1. UNCHANGED <<pc, conf, todo, set, kept, displays, gracetime, options, before>>
    BY <1>4 DEF Edit, vars, settings
  <2>2. Here' = Here
    BY <2>1 DEF Here
  <2>3. QED BY <2>1, <2>2
            DEF FollowInv, TodoInv, SetInv, KeptInv, OptionsInv, DisplaysInv, GraceInv, DoneInv
<1>5. CASE Restart
  <2>1. pc' = "begin" /\ before'.kept = kept' /\ \E d \in Debugs : kept' = AtStart(d)
    BY <1>5 DEF Restart
  <2>2. KeptInv'
    BY <2>1 DEF KeptInv, KeptKeys, AtStart
  <2>3. QED BY <2>1, <2>2 DEF FollowInv, TodoInv, SetInv, OptionsInv, DisplaysInv, GraceInv, DoneInv
<1>6. QED BY <1>1, <1>2, <1>3, <1>4, <1>5

(* The settings are those of the last lines, and the lists hold what the   *)
(* lines say, in every reachable state.                                    *)
THEOREM SettingsFollow == Spec => []SettingsFollowLines
<1>1. Init => FollowInv
  <2> SUFFICES ASSUME Init PROVE FollowInv
    OBVIOUS
  <2>1. pc = "begin" /\ before.kept = kept /\ \E d \in Debugs : kept = AtStart(d)
    BY DEF Init
  <2>2. KeptInv
    BY <2>1 DEF KeptInv, KeptKeys, AtStart
  <2>3. QED BY <2>1, <2>2 DEF FollowInv, TodoInv, SetInv, OptionsInv, DisplaysInv, GraceInv, DoneInv
<1>2. SettingsInv /\ FollowInv /\ [Next]_vars => FollowInv'
  BY LineFollows, DefaultsFollow, ReturnFollows, OtherFollows DEF Next, Pass
<1>3. SettingsInv /\ FollowInv => SettingsFollowLines
  <2> SUFFICES ASSUME SettingsInv, FollowInv, pc = "check"
               PROVE  SettingsFollowLines
    BY DEF SettingsFollowLines
  <2> DEFINE lines == conf["mrbig"]
             end == Len(lines) + 1
             shown == LinesOf(lines, "display")
             Last1(key, d) == LastOf(lines, key, end, d)
  <2>1. /\ \A k \in DOMAIN Defaults \ {"loop"} : set[k] = Last1(k, Defaults[k])
        /\ set.loop = Least({Last1("loop", INT_MAX), set.sleep})
        /\ \A k \in KeptKeys : kept[k] = Last1(k, before.kept[k])
        /\ Len(displays) = Cardinality(DisplayLines(lines, end))
        /\ ToSet(displays) = Shown(lines, end)
        /\ Graces(lines, end, gracetime)
        /\ ToSet(options) = OptionValues(lines, end)
    BY DEF FollowInv, DoneInv
  <2>2. lines \in Seq(Lines) /\ Len(lines) \in Nat
    BY SettingsAssumption DEF SettingsInv, ValuesInv
  <2>3. DisplayLines(lines, end) = shown
    BY <2>2 DEF DisplayLines, LinesOf
  <2>4. ToSet(displays) =
          {[addr |-> lines[n].val.addr,
            port |-> IF lines[n].val.port # Nil THEN lines[n].val.port
                     ELSE LastOf(lines, "port", n, 1984)] : n \in shown}
    BY <2>1, <2>3 DEF Shown, ShownAt
  <2>5. ASSUME NEW n \in LinesOf(lines, "gracetime"),
               \A m \in LinesOf(lines, "gracetime") :
                 m > n => lines[m].val.test # lines[n].val.test
        PROVE  lookup_grace(lines[n].val.test) = lines[n].val.grace
    <3>1. n < end
      BY <2>2 DEF LinesOf
    <3>2. Grace(gracetime, lines[n].val.test) = lines[n].val.grace
      BY <2>1, <2>5, <3>1 DEF Graces
    <3>3. QED BY <3>2, Zenon DEF Grace, lookup_grace
  <2> HIDE DEF end
  <2>6. /\ \A k \in DOMAIN Defaults \ {"loop"} : set[k] = Last1(k, Defaults[k])
        /\ set.loop = Least({Last1("loop", INT_MAX), set.sleep})
        /\ \A k \in {"debug", "report_size", "cfgdir"} :
             k # "cfgdir" \/ LinesOf(lines, k) # {} => kept[k] = Last1(k, before.kept[k])
        /\ ToSet(options) = {lines[n].val : n \in LinesOf(lines, "option")}
        /\ Len(displays) = Cardinality(shown)
    <3>1. {n \in LinesOf(lines, "option") : n < Len(lines) + 1} = LinesOf(lines, "option")
      BY <2>2 DEF LinesOf
    <3>2. QED BY <2>1, <2>3, <3>1, Zenon DEF KeptKeys, OptionValues, end
  <2>7. QED BY <2>4, <2>5, <2>6, Zenon DEF SettingsFollowLines, end
<1>4. QED BY <1>1, <1>2, <1>3, SettingsInvariant, PTL DEF Spec

-----------------------------------------------------------------------------
(* Parts of the configuration.                                             *)
Stores == [Sections -> Seq(Lines)]

(* What files stand for that are included in a section.                    *)
Levels == [Files -> [Sections -> Stores]]

LEMMA JoinedFacts ==
  ASSUME NEW a \in Stores, NEW b \in Stores, NEW c \in Stores
  PROVE  /\ EmptyStore \in Stores /\ Joined(a, b) \in Stores
         /\ Joined(EmptyStore, a) = a /\ Joined(a, EmptyStore) = a
         /\ Joined(Joined(a, b), c) = Joined(a, Joined(b, c))
<1>1. EmptyStore \in Stores /\ Joined(a, b) \in Stores
  BY DEF EmptyStore, Joined, Stores
<1>2. \A s \in Sections : <<>> \o a[s] = a[s] /\ a[s] \o <<>> = a[s]
  BY DEF Stores
<1>3. Joined(EmptyStore, a) = a /\ Joined(a, EmptyStore) = a
  BY <1>2 DEF EmptyStore, Joined, Stores
<1>4. \A s \in Sections : (a[s] \o b[s]) \o c[s] = a[s] \o (b[s] \o c[s])
  <2>1. TAKE s \in Sections
  <2>2. a[s] \in Seq(Lines) /\ b[s] \in Seq(Lines) /\ c[s] \in Seq(Lines)
    BY DEF Stores
  <2> DEFINE x == a[s]
             y == b[s]
             z == c[s]
  <2>3. x \in Seq(Lines) /\ y \in Seq(Lines) /\ z \in Seq(Lines)
    BY <2>2
  <2> HIDE DEF x, y, z
  <2>4. (x \o y) \o z = x \o (y \o z)
    BY <2>3, ConcatAssociative
  <2>5. QED BY <2>4 DEF x, y, z
<1>5. Joined(Joined(a, b), c) = Joined(a, Joined(b, c))
  BY <1>4 DEF Joined
<1>6. QED BY <1>1, <1>3, <1>5

(* A line that comes behind a part goes into the store when it fits.       *)
LEMMA CappedNext ==
  ASSUME NEW part \in Stores, NEW s \in Sections, NEW line \in Lines
  PROVE  InStore(Joined(part, [EmptyStore EXCEPT ![s] = <<line>>])) =
           IF Len(InStore(part)[s]) < CfgMax
           THEN [InStore(part) EXCEPT ![s] = Append(@, line)]
           ELSE InStore(part)
<1> DEFINE more == Joined(part, [EmptyStore EXCEPT ![s] = <<line>>])
           seq == part[s]
<1>1. /\ \A t \in Sections \ {s} : more[t] = part[t]
      /\ more[s] = Append(seq, line)
  BY DEF Joined, EmptyStore, Stores
<1>2. seq \in Seq(Lines) /\ Len(seq) \in Nat /\ CfgMax \in Nat
  BY SettingsAssumption DEF Stores
<1> HIDE DEF seq
<1>3. /\ Len(Append(seq, line)) = Len(seq) + 1
      /\ Append(seq, line)[Len(seq) + 1] = line
      /\ \A n \in 1 .. Len(seq) : Append(seq, line)[n] = seq[n]
  BY <1>2
<1>4. CASE Len(seq) < CfgMax
  <2>1. Capped(seq) \in Seq(Lines) /\ Len(Capped(seq)) = Len(seq)
    BY <1>2, <1>4 DEF Capped
  <2>2. Capped(Append(seq, line)) = Append(Capped(seq), line)
    <3>1. Capped(Append(seq, line)) = [n \in 1 .. Len(seq) + 1 |-> Append(seq, line)[n]]
      BY <1>2, <1>3, <1>4 DEF Capped
    <3>2. Capped(seq) = [n \in 1 .. Len(seq) |-> seq[n]]
      BY <1>4 DEF Capped
    <3>3. QED BY <1>2, <1>3, <2>1, <3>1, <3>2
  <2>3. InStore(part)[s] = Capped(seq)
    BY DEF InStore, seq
  <2> HIDE DEF more
  <2>4. InStore(more) = [InStore(part) EXCEPT ![s] = Append(@, line)]
    BY <1>1, <2>2, <2>3 DEF InStore
  <2>5. QED BY <1>4, <2>1, <2>3, <2>4 DEF more
<1>5. CASE ~(Len(seq) < CfgMax)
  <2>1. Capped(seq) \in Seq(Lines) /\ Len(Capped(seq)) = CfgMax
    BY <1>2, <1>5 DEF Capped
  <2>2. Capped(Append(seq, line)) = Capped(seq)
    <3>1. Capped(Append(seq, line)) = [n \in 1 .. CfgMax |-> Append(seq, line)[n]]
      BY <1>2, <1>3, <1>5 DEF Capped
    <3>2. Capped(seq) = [n \in 1 .. CfgMax |-> seq[n]]
      BY <1>5 DEF Capped
    <3>3. QED BY <1>2, <1>3, <1>5, <3>1, <3>2
  <2>3. InStore(part)[s] = Capped(seq)
    BY DEF InStore, seq
  <2> HIDE DEF more
  <2>4. InStore(more) = InStore(part)
    BY <1>1, <2>2, <2>3 DEF InStore, seq
  <2>5. QED BY <1>2, <2>1, <2>3, <2>4 DEF more
<1>6. QED BY <1>4, <1>5

LEMMA EmptyInStore == InStore(EmptyStore) = EmptyStore
<1>1. Capped(<<>>) = <<>>
  BY SettingsAssumption DEF Capped
<1>2. QED BY <1>1 DEF InStore, EmptyStore

(* The section of a line.                                                  *)
LEMMA SectionAtFacts ==
  ASSUME NEW c \in Seq(Lines), NEW cat \in Sections
  PROVE  \A n \in 1 .. Len(c) + 1 : SectionAt(c, n, cat) \in Sections
<1> DEFINE Bad == {n \in 1 .. Len(c) + 1 : SectionAt(c, n, cat) \notin Sections}
<1>1. SUFFICES ASSUME Bad # {} PROVE FALSE
  OBVIOUS
<1>2. PICK n \in Bad : \A m \in Bad : n <= m
  <2>1. Bad \in SUBSET Nat
    OBVIOUS
  <2> HIDE DEF Bad
  <2>2. Least(Bad) \in Bad /\ \A m \in Bad : Least(Bad) <= m
    BY <1>1, <2>1, LeastOf
  <2>3. QED BY <2>2
<1>3. n # 1
  BY <1>2, LastOfNone DEF SectionAt
<1>4. n - 1 \in 1 .. Len(c) /\ n - 1 + 1 = n /\ n - 1 \notin Bad /\ Len(c) \in Nat
  BY <1>2, <1>3
<1>5. SectionAt(c, n - 1, cat) \in Sections
  BY <1>4
<1>6. c[n - 1] \in Lines
  BY <1>4
<1>7. SectionAt(c, n - 1 + 1, cat) =
        IF c[n - 1].key = "section" THEN c[n - 1].val ELSE SectionAt(c, n - 1, cat)
  BY <1>4, LastOfNext DEF SectionAt
<1>8. SectionAt(c, n, cat) \in Sections
  BY <1>4, <1>5, <1>6, <1>7, SettingsAssumption
<1>9. QED BY <1>2, <1>8

(* The section after a line.                                               *)
After(line, cat) == IF line.key = "section" THEN line.val ELSE cat

(* Below the first line of a file its section is that of a file that       *)
(* begins there.                                                           *)
LEMMA SectionBelow ==
  ASSUME NEW c \in Seq(Lines), c # <<>>, NEW cat \in Sections
  PROVE  \A n \in 1 .. Len(c) :
           SectionAt(c, n + 1, cat) = SectionAt(Tail(c), n, After(Head(c), cat))
<1> DEFINE t == Tail(c)
           next == After(Head(c), cat)
           Bad == {n \in 1 .. Len(c) : SectionAt(c, n + 1, cat) # SectionAt(t, n, next)}
<1>1. SUFFICES ASSUME Bad # {} PROVE FALSE
  OBVIOUS
<1>2. PICK n \in Bad : \A m \in Bad : n <= m
  <2>1. Bad \in SUBSET Nat
    OBVIOUS
  <2> HIDE DEF Bad
  <2>2. Least(Bad) \in Bad /\ \A m \in Bad : Least(Bad) <= m
    BY <1>1, <2>1, LeastOf
  <2>3. QED BY <2>2
<1>3. /\ Len(c) \in Nat \ {0} /\ t \in Seq(Lines) /\ Len(t) = Len(c) - 1
      /\ \A m \in 1 .. Len(t) : t[m] = c[m + 1]
      /\ Head(c) = c[1]
  OBVIOUS
<1> HIDE DEF t
<1>4. SectionAt(c, n + 1, cat) =
        IF c[n].key = "section" THEN c[n].val ELSE SectionAt(c, n, cat)
  <2>1. n \in 1 .. Len(c) /\ Len(c) \in Nat
    BY <1>2, <1>3
  <2>2. QED BY <2>1, LastOfNext, Zenon DEF SectionAt
<1>5. CASE n = 1
  <2>1. SectionAt(c, 1, cat) = cat /\ SectionAt(t, 1, next) = next
    BY LastOfNone DEF SectionAt
  <2>2. SectionAt(c, n + 1, cat) = next
    BY <1>3, <1>4, <1>5, <2>1 DEF After
  <2>3. QED BY <1>2, <1>5, <2>1, <2>2
<1>6. CASE n # 1
  <2> DEFINE m == n - 1
  <2>1. m \in 1 .. Len(t) /\ m \in 1 .. Len(c) /\ m + 1 = n /\ m \notin Bad
    BY <1>2, <1>3, <1>6
  <2>2. SectionAt(c, n, cat) = SectionAt(t, m, next)
    BY <2>1
  <2> HIDE DEF m, Bad, next
  <2>3. SectionAt(t, m + 1, next) =
          IF t[m].key = "section" THEN t[m].val ELSE SectionAt(t, m, next)
    <3>1. m \in 1 .. Len(t) /\ Len(t) \in Nat
      BY <1>3, <2>1
    <3>2. QED BY <3>1, LastOfNext, Zenon DEF SectionAt
  <2>4. SectionAt(t, n, next) = SectionAt(c, n + 1, cat)
    BY <1>3, <1>4, <2>1, <2>2, <2>3
  <2>5. QED BY <1>2, <2>4 DEF Bad
<1>7. QED BY <1>5, <1>6

(* A function that is defined from step to step is there.                  *)
Steps(n, c, G, f) == f[0] = c /\ \A k \in 1 .. n : f[k] = G[k][f[k - 1]]

LEMMA StepsExist ==
  ASSUME NEW N \in Nat, NEW S, NEW c \in S, NEW G \in [1 .. N -> [S -> S]]
  PROVE  \E f \in [0 .. N -> S] : Steps(N, c, G, f)
<1> DEFINE Without == {n \in 0 .. N : ~\E f \in [0 .. n -> S] : Steps(n, c, G, f)}
<1>1. SUFFICES ASSUME Without # {} PROVE FALSE
  OBVIOUS
<1>2. PICK n \in Without : \A m \in Without : n <= m
  <2>1. Without \in SUBSET Nat
    BY SMT
  <2> HIDE DEF Without
  <2>2. Least(Without) \in Without /\ \A m \in Without : Least(Without) <= m
    BY <1>1, <2>1, LeastOf
  <2>3. QED BY <2>2
<1>3. CASE n = 0
  <2>1. [k \in 0 .. 0 |-> c] \in [0 .. 0 -> S] /\ Steps(0, c, G, [k \in 0 .. 0 |-> c])
    BY DEF Steps
  <2>2. QED BY <1>2, <1>3, <2>1
<1>4. CASE n # 0
  <2>1. n \in 1 .. N /\ n - 1 \in 0 .. N /\ n - 1 \notin Without
    BY <1>2, <1>4
  <2>2. PICK f \in [0 .. n - 1 -> S] : Steps(n - 1, c, G, f)
    BY <2>1
  <2> DEFINE h == [k \in 0 .. n |-> IF k = n THEN G[n][f[n - 1]] ELSE f[k]]
  <2>3. h \in [0 .. n -> S]
    BY <2>1
  <2>4. h[0] = c
    BY <1>4, <2>1, <2>2 DEF Steps
  <2>5. ASSUME NEW k \in 1 .. n PROVE h[k] = G[k][h[k - 1]]
    <3>1. h[k - 1] = f[k - 1]
      BY <2>1
    <3>2. CASE k = n
      BY <2>1, <3>1, <3>2
    <3>3. CASE k # n
      <4>1. k \in 1 .. n - 1 /\ h[k] = f[k]
        BY <2>1, <3>3
      <4>2. f[k] = G[k][f[k - 1]]
        BY <2>2, <4>1 DEF Steps
      <4>3. QED BY <3>1, <4>1, <4>2
    <3>4. QED BY <3>2, <3>3
  <2> HIDE DEF h
  <2>6. Steps(n, c, G, h)
    BY <2>4, <2>5 DEF Steps
  <2>7. QED BY <1>2, <2>3, <2>6
<1>5. QED BY <1>3, <1>4

LEMMA PartFacts ==
  ASSUME NEW lines \in Seq(Lines), NEW cat \in Sections, NEW inc \in Levels,
         NEW m \in 1 .. Len(lines)
  PROVE  Part(lines, m, cat, inc) \in Stores
<1>1. SectionAt(lines, m, cat) \in Sections /\ lines[m] \in Lines
  <2>1. m \in 1 .. Len(lines) + 1
    OBVIOUS
  <2>2. QED BY <2>1, SectionAtFacts
<1>2. CASE lines[m].key = "include"
  <2>1. Part(lines, m, cat, inc) = inc[lines[m].val][SectionAt(lines, m, cat)]
    BY <1>2, Zenon DEF Part
  <2>2. lines[m].val \in Files
    BY <1>1, <1>2, SettingsAssumption
  <2>3. QED BY <1>1, <2>1, <2>2 DEF Levels
<1>3. CASE lines[m].key \in {"section", "bind"}
  <2>1. Part(lines, m, cat, inc) = EmptyStore
    BY <1>3 DEF Part
  <2>2. QED BY <2>1 DEF Stores, EmptyStore
<1>4. CASE lines[m].key \notin {"include", "section", "bind"}
  <2>1. Part(lines, m, cat, inc) =
          [EmptyStore EXCEPT ![SectionAt(lines, m, cat)] = <<lines[m]>>]
    BY <1>4 DEF Part
  <2>2. <<lines[m]>> \in Seq(Lines) /\ EmptyStore \in Stores
    BY <1>1 DEF EmptyStore, Stores
  <2>3. QED BY <1>1, <2>1, <2>2 DEF Stores
<1>5. QED BY <1>2, <1>3, <1>4

LEMMA UptoFacts ==
  ASSUME NEW lines \in Seq(Lines), NEW cat \in Sections, NEW inc \in Levels
  PROVE  /\ Upto(lines, 0, cat, inc) = EmptyStore
         /\ \A m \in 1 .. Len(lines) :
              Upto(lines, m, cat, inc) =
                Joined(Upto(lines, m - 1, cat, inc), Part(lines, m, cat, inc))
         /\ \A m \in 0 .. Len(lines) : Upto(lines, m, cat, inc) \in Stores
<1> DEFINE N == Len(lines)
           part(m) == Part(lines, m, cat, inc)
           upto == CHOOSE f : f = [m \in 0 .. N |->
                     IF m = 0 THEN EmptyStore ELSE Joined(f[m - 1], part(m))]
           G == [m \in 1 .. N |-> [x \in Stores |-> Joined(x, part(m))]]
<1>1. \A m : Upto(lines, m, cat, inc) = upto[m]
  BY Zenon DEF Upto
<1>2. \A m \in 1 .. N : part(m) \in Stores
  BY PartFacts
<1> HIDE DEF part
<1>3. N \in Nat /\ EmptyStore \in Stores /\ G \in [1 .. N -> [Stores -> Stores]]
  <2>1. \A m \in 1 .. N, x \in Stores : Joined(x, part(m)) \in Stores
    BY <1>2, JoinedFacts
  <2>2. QED BY <2>1 DEF EmptyStore, Stores
<1>4. PICK f \in [0 .. N -> Stores] : Steps(N, EmptyStore, G, f)
  <2> HIDE DEF G, N
  <2>1. QED BY <1>3, StepsExist
<1>5. \A m \in 0 .. N : f[m] = IF m = 0 THEN EmptyStore ELSE Joined(f[m - 1], part(m))
  <2>1. TAKE m \in 0 .. N
  <2>2. CASE m = 0
    BY <1>4, <2>2 DEF Steps
  <2>3. CASE m # 0
    <3>1. m \in 1 .. N /\ m - 1 \in 0 .. N
      BY <1>3, <2>3
    <3>2. f[m] = G[m][f[m - 1]] /\ f[m - 1] \in Stores
      BY <1>4, <3>1 DEF Steps
    <3>3. QED BY <2>3, <3>1, <3>2
  <2>4. QED BY <2>2, <2>3
<1> HIDE DEF N, G
<1>6. f = [m \in 0 .. N |-> IF m = 0 THEN EmptyStore ELSE Joined(f[m - 1], part(m))]
  BY <1>4, <1>5, Zenon
<1>7. upto = [m \in 0 .. N |-> IF m = 0 THEN EmptyStore ELSE Joined(upto[m - 1], part(m))]
  BY <1>6, Zenon
<1> HIDE DEF upto
<1>8. \A m \in 0 .. N : upto[m] = IF m = 0 THEN EmptyStore ELSE Joined(upto[m - 1], part(m))
  BY <1>7, Zenon
<1>9. 0 \in 0 .. N /\ \A m \in 1 .. N : m \in 0 .. N /\ m # 0
  BY <1>3
<1>10. upto[0] = EmptyStore /\ \A m \in 1 .. N : upto[m] = Joined(upto[m - 1], part(m))
  BY <1>8, <1>9, Zenon
<1>11. \A m \in 0 .. N : upto[m] \in Stores
  <2> DEFINE Bad == {m \in 0 .. N : upto[m] \notin Stores}
  <2>1. SUFFICES ASSUME Bad # {} PROVE FALSE
    OBVIOUS
  <2>2. PICK m \in Bad : \A k \in Bad : m <= k
    <3>1. Bad \in SUBSET Nat
      BY SMT
    <3> HIDE DEF Bad
    <3>2. Least(Bad) \in Bad /\ \A k \in Bad : Least(Bad) <= k
      BY <2>1, <3>1, LeastOf
    <3>3. QED BY <3>2
  <2>3. m # 0
    BY <1>3, <1>10, <2>2
  <2>4. m \in 1 .. N /\ m - 1 \in 0 .. N /\ m - 1 \notin Bad
    BY <1>3, <2>2, <2>3
  <2>5. upto[m - 1] \in Stores /\ upto[m] = Joined(upto[m - 1], part(m)) /\ part(m) \in Stores
    BY <1>2, <1>10, <2>4
  <2>6. upto[m] \in Stores
    BY <2>5, JoinedFacts
  <2>7. QED BY <2>2, <2>6
<1>12. QED BY <1>1, <1>10, <1>11, Zenon DEF N, part

(* What lines stand for that a call has yet to read.                       *)
Whole(lines, cat, inc) == Upto(lines, Len(lines), cat, inc)

(* What the first line of a file stands for.                               *)
First(line, cat, inc) ==
  CASE line.key = "include" -> inc[line.val][cat]
    [] line.key \in {"section", "bind"} -> EmptyStore
    [] OTHER -> [EmptyStore EXCEPT ![cat] = <<line>>]

LEMMA WholeFacts ==
  ASSUME NEW lines \in Seq(Lines), NEW cat \in Sections, NEW inc \in Levels
  PROVE  /\ Whole(lines, cat, inc) \in Stores
         /\ lines = <<>> => Whole(lines, cat, inc) = EmptyStore
         /\ lines # <<>> =>
              /\ First(Head(lines), cat, inc) \in Stores
              /\ Whole(lines, cat, inc) =
                   Joined(First(Head(lines), cat, inc),
                          Whole(Tail(lines), After(Head(lines), cat), inc))
<1>1. Whole(lines, cat, inc) \in Stores /\ (lines = <<>> => Whole(lines, cat, inc) = EmptyStore)
  <2>1. Len(lines) \in 0 .. Len(lines) /\ (lines = <<>> => Len(lines) = 0)
    OBVIOUS
  <2>2. QED BY <2>1, UptoFacts, Zenon DEF Whole
<1>2. ASSUME lines # <<>>
      PROVE  /\ First(Head(lines), cat, inc) \in Stores
             /\ Whole(lines, cat, inc) =
                  Joined(First(Head(lines), cat, inc),
                         Whole(Tail(lines), After(Head(lines), cat), inc))
  <2> DEFINE t == Tail(lines)
             next == After(Head(lines), cat)
             head == First(Head(lines), cat, inc)
  <2>1. /\ Len(lines) \in Nat \ {0} /\ t \in Seq(Lines) /\ Len(t) = Len(lines) - 1
        /\ \A m \in 1 .. Len(t) : t[m] = lines[m + 1]
        /\ Head(lines) = lines[1] /\ Head(lines) \in Lines
    BY <1>2
  <2>2. next \in Sections
    BY <2>1, SettingsAssumption DEF After
  <2>3. head = Part(lines, 1, cat, inc) /\ head \in Stores
    <3>1. SectionAt(lines, 1, cat) = cat
      BY LastOfNone DEF SectionAt
    <3>2. head = Part(lines, 1, cat, inc)
      BY <2>1, <3>1, Zenon DEF Part, First
    <3>3. 1 \in 1 .. Len(lines)
      BY <2>1
    <3> HIDE DEF head
    <3>4. QED BY <3>2, <3>3, PartFacts
  <2> HIDE DEF t, next, head
  <2>4. ASSUME NEW m \in 1 .. Len(t)
        PROVE  Part(lines, m + 1, cat, inc) = Part(t, m, next, inc)
    <3>1. SectionAt(lines, m + 1, cat) = SectionAt(t, m, next)
      <4>1. m \in 1 .. Len(lines)
        BY <2>1
      <4>2. QED BY <1>2, <4>1, SectionBelow DEF t, next
    <3>2. lines[m + 1] = t[m]
      BY <2>1
    <3>3. QED BY <3>1, <3>2, Zenon DEF Part
  <2> DEFINE u(m) == Upto(lines, m, cat, inc)
             v(m) == Upto(t, m, next, inc)
             Bad == {m \in 0 .. Len(t) : u(m + 1) # Joined(head, v(m))}
  <2>5. /\ u(0) = EmptyStore
        /\ \A m \in 1 .. Len(lines) : u(m) = Joined(u(m - 1), Part(lines, m, cat, inc))
        /\ \A m \in 0 .. Len(lines) : u(m) \in Stores
    BY UptoFacts
  <2>6. /\ v(0) = EmptyStore
        /\ \A m \in 1 .. Len(t) : v(m) = Joined(v(m - 1), Part(t, m, next, inc))
        /\ \A m \in 0 .. Len(t) : v(m) \in Stores
    BY <2>1, <2>2, UptoFacts
  <2> HIDE DEF u, v
  <2>7. Bad = {}
    <3>1. SUFFICES ASSUME Bad # {} PROVE FALSE
      OBVIOUS
    <3>2. PICK m \in Bad : \A k \in Bad : m <= k
      <4>1. Bad \in SUBSET Nat
        BY SMT
      <4> HIDE DEF Bad
      <4>2. Least(Bad) \in Bad /\ \A k \in Bad : Least(Bad) <= k
        BY <3>1, <4>1, LeastOf
      <4>3. QED BY <4>2
    <3>3. m # 0
      <4>1. u(1) = Joined(u(0), Part(lines, 1, cat, inc))
        <5>1. 1 \in 1 .. Len(lines) /\ 1 - 1 = 0
          BY <2>1
        <5>2. QED BY <2>5, <5>1
      <4>2. u(1) = Joined(head, v(0))
        BY <2>3, <2>5, <2>6, <4>1, JoinedFacts
      <4>3. QED BY <3>2, <4>2
    <3>4. m \in 1 .. Len(t) /\ m - 1 \in 0 .. Len(t) /\ m - 1 + 1 = m /\ m - 1 \notin Bad
          /\ m + 1 \in 1 .. Len(lines) /\ m + 1 - 1 = m
      BY <2>1, <3>2, <3>3
    <3>5. /\ u(m) = Joined(head, v(m - 1))
          /\ u(m + 1) = Joined(u(m), Part(t, m, next, inc))
          /\ v(m) = Joined(v(m - 1), Part(t, m, next, inc))
      BY <2>4, <2>5, <2>6, <3>4
    <3>6. v(m - 1) \in Stores /\ Part(t, m, next, inc) \in Stores
      BY <2>1, <2>2, <2>6, <3>4, PartFacts
    <3>7. u(m + 1) = Joined(head, v(m))
      BY <2>3, <3>5, <3>6, JoinedFacts
    <3>8. QED BY <3>2, <3>7
  <2>8. Len(t) \in 0 .. Len(t) /\ Len(t) + 1 = Len(lines)
    BY <2>1
  <2>9. u(Len(lines)) = Joined(head, v(Len(t)))
    BY <2>7, <2>8
  <2>10. QED BY <2>3, <2>9, Zenon DEF Whole, u, v, t, next, head
<1>3. QED BY <1>1, <1>2

(* What a file stands for, when n more files can be open.                  *)
LEMMA ExpansionFacts ==
  ASSUME NEW files \in Contents
  PROVE  /\ \A n \in 0 .. MaxOpen : Expansion(files, n) \in Levels
         /\ \A n \in 0 .. MaxOpen, f \in Files, cat \in Sections :
              Expansion(files, n)[f][cat] =
                IF n = 0 \/ files[f] = Nil THEN EmptyStore
                ELSE Whole(files[f], cat, Expansion(files, n - 1))
<1> DEFINE level(k, x) ==
             [f \in Files |-> [cat \in Sections |->
                IF k = 0 \/ files[f] = Nil THEN EmptyStore
                ELSE Upto(files[f], Len(files[f]), cat, x)]]
           deep == CHOOSE g : g = [k \in 0 .. MaxOpen |->
                     [f \in Files |-> [cat \in Sections |->
                        IF k = 0 \/ files[f] = Nil THEN EmptyStore
                        ELSE Upto(files[f], Len(files[f]), cat, g[k - 1])]]]
           c == [f \in Files |-> [cat \in Sections |-> EmptyStore]]
           G == [k \in 1 .. MaxOpen |-> [x \in Levels |-> level(k, x)]]
<1>1. \A n : Expansion(files, n) = deep[n]
  BY Zenon DEF Expansion
<1>2. ASSUME NEW k \in Nat, NEW x \in Levels PROVE level(k, x) \in Levels
  <2>1. ASSUME NEW f \in Files, files[f] # Nil, NEW cat \in Sections
        PROVE  Upto(files[f], Len(files[f]), cat, x) \in Stores
    <3>1. files[f] \in Seq(Lines)
      BY <2>1, SettingsAssumption
    <3>2. QED BY <3>1, WholeFacts DEF Whole
  <2>2. EmptyStore \in Stores
    BY DEF EmptyStore, Stores
  <2>3. QED BY <2>1, <2>2 DEF Levels
<1>3. MaxOpen \in Nat /\ c \in Levels
  BY FileAssumption DEF Levels, EmptyStore, Stores
<1>4. level(0, 0) = c /\ \A x : level(0, x) = c
  OBVIOUS
<1>5. G \in [1 .. MaxOpen -> [Levels -> Levels]]
  <2> HIDE DEF level
  <2>1. QED BY <1>2
<1>6. PICK g \in [0 .. MaxOpen -> Levels] : Steps(MaxOpen, c, G, g)
  <2> HIDE DEF G, c
  <2>1. QED BY <1>3, <1>5, StepsExist
<1>7. \A k \in 0 .. MaxOpen : g[k] = level(k, g[k - 1])
  <2>1. TAKE k \in 0 .. MaxOpen
  <2>2. CASE k = 0
    <3>1. g[k] = c
      BY <1>6, <2>2 DEF Steps
    <3> HIDE DEF level, c
    <3>2. QED BY <1>4, <2>2, <3>1
  <2>3. CASE k # 0
    <3>1. k \in 1 .. MaxOpen /\ k - 1 \in 0 .. MaxOpen
      BY <1>3, <2>3
    <3>2. g[k] = G[k][g[k - 1]] /\ g[k - 1] \in Levels
      BY <1>6, <3>1 DEF Steps
    <3> HIDE DEF level
    <3>3. QED BY <3>1, <3>2
  <2>4. QED BY <2>2, <2>3
<1>8. g = [k \in 0 .. MaxOpen |-> level(k, g[k - 1])]
  <2> HIDE DEF level
  <2>1. QED BY <1>6, <1>7, Zenon
<1>9. deep = [k \in 0 .. MaxOpen |-> level(k, deep[k - 1])]
  BY <1>8, Zenon
<1> HIDE DEF deep
<1>10. \A k \in 0 .. MaxOpen : deep[k] = level(k, deep[k - 1])
  <2> HIDE DEF level
  <2>1. QED BY <1>9, Zenon
<1>11. \A k \in 0 .. MaxOpen : deep[k] \in Levels
  <2> DEFINE Bad == {k \in 0 .. MaxOpen : deep[k] \notin Levels}
  <2>1. SUFFICES ASSUME Bad # {} PROVE FALSE
    OBVIOUS
  <2>2. PICK k \in Bad : \A m \in Bad : k <= m
    <3>1. Bad \in SUBSET Nat
      BY SMT
    <3> HIDE DEF Bad
    <3>2. Least(Bad) \in Bad /\ \A m \in Bad : Least(Bad) <= m
      BY <2>1, <3>1, LeastOf
    <3>3. QED BY <3>2
  <2> HIDE DEF level, c
  <2>3. k # 0
    BY <1>3, <1>4, <1>10, <2>2
  <2>4. k \in 1 .. MaxOpen /\ k - 1 \in 0 .. MaxOpen /\ k - 1 \notin Bad
    BY <1>3, <2>2, <2>3
  <2>5. deep[k - 1] \in Levels /\ deep[k] = level(k, deep[k - 1]) /\ k \in Nat
    BY <1>10, <2>4
  <2>6. deep[k] \in Levels
    BY <1>2, <2>5
  <2>7. QED BY <2>2, <2>6
<1>12. ASSUME NEW n \in 0 .. MaxOpen, NEW f \in Files, NEW cat \in Sections
       PROVE  deep[n][f][cat] =
                IF n = 0 \/ files[f] = Nil THEN EmptyStore
                ELSE Whole(files[f], cat, deep[n - 1])
  <2>1. deep[n] = level(n, deep[n - 1])
    BY <1>10
  <2>2. QED BY <2>1, Zenon DEF Whole
<1> HIDE DEF level, c, G
<1>13. QED BY <1>1, <1>11, <1>12

-----------------------------------------------------------------------------
(* What the calls of read_cfg under way make of the store.                 *)

(* Files that are open for other reasons.                                  *)
Outside == Cardinality(io.open) - Len(stack)

(* done[n] is what the store is to hold when n calls are left, ...         *)
Chain(files, calls, out, done) ==
  \A n \in 1 .. Len(calls) :
    done[n - 1] = Joined(done[n], Whole(calls[n].lines, calls[n].category,
                                        Expansion(files, MaxOpen - out - n)))

(* ... and holds what it should when they have all come to their end.      *)
Leads(files, calls, out, store, target) ==
  \E done \in [0 .. Len(calls) -> Stores] :
    /\ done[0] = target
    /\ Chain(files, calls, out, done)
    /\ store = InStore(done[Len(calls)])

LEMMA OpenCount ==
  ASSUME SettingsInv
  PROVE  /\ IsFiniteSet(io.open) /\ Cardinality(io.open) \in 0 .. MaxOpen
         /\ fopen(io) = Nil => Cardinality(io.open) = MaxOpen
         /\ fopen(io) # Nil => Cardinality(io.open) < MaxOpen
<1>1. io \in FileStates /\ io.open \subseteq Handles
  BY DEF SettingsInv, OpenInv, FileStates
<1>2. IsFiniteSet(Handles) /\ Cardinality(Handles) = MaxOpen /\ MaxOpen \in Nat
  BY FS_Interval, FileAssumption DEF Handles
<1>3. /\ IsFiniteSet(io.open) /\ Cardinality(io.open) \in Nat
      /\ Cardinality(io.open) <= MaxOpen
  BY <1>1, <1>2, FS_Subset, FS_CardinalityType
<1>4. ASSUME fopen(io) = Nil PROVE Cardinality(io.open) = MaxOpen
  <2>1. Handles \ io.open = {}
    <3>1. SUFFICES ASSUME Handles \ io.open # {} PROVE FALSE
      OBVIOUS
    <3>2. Handles \ io.open \in SUBSET Nat
      BY DEF Handles
    <3>3. fopen(io) \in Handles
      BY <3>1, <3>2, LeastOf DEF fopen
    <3>4. QED BY <1>4, <3>3, FileAssumption
  <2>2. io.open = Handles
    BY <1>1, <2>1
  <2>3. QED BY <1>2, <2>2
<1>5. ASSUME fopen(io) # Nil PROVE Cardinality(io.open) < MaxOpen
  <2>1. fopen(io) \in Handles \ io.open
    BY <1>1, <1>5, FopenFacts
  <2>2. Cardinality(io.open \union {fopen(io)}) = Cardinality(io.open) + 1
    BY <1>3, <2>1, FS_AddElement
  <2>3. io.open \union {fopen(io)} \subseteq Handles
    BY <1>1, <2>1
  <2>4. Cardinality(io.open) + 1 <= MaxOpen
    BY <1>2, <2>2, <2>3, FS_Subset
  <2>5. QED BY <1>2, <1>3, <2>4
<1>6. QED BY <1>2, <1>3, <1>4, <1>5

(* The level of what the nth call includes.                                *)
LEMMA LevelFacts ==
  ASSUME SettingsInv, Outside \in Nat, NEW n \in 0 .. Len(stack)
  PROVE  /\ MaxOpen - Outside - n \in 0 .. MaxOpen
         /\ Expansion(content, MaxOpen - Outside - n) \in Levels
<1>1. Cardinality(io.open) \in 0 .. MaxOpen /\ Len(stack) \in Nat /\ MaxOpen \in Nat
  BY OpenCount, FileAssumption DEF SettingsInv, ValuesInv
<1>2. MaxOpen - Outside - n \in 0 .. MaxOpen
  <2>1. Outside = Cardinality(io.open) - Len(stack)
    BY DEF Outside
  <2>2. QED BY <1>1, <2>1
<1>3. content \in Contents
  BY DEF SettingsInv, ValuesInv
<1>4. QED BY <1>2, <1>3, ExpansionFacts

(* read_cfg reads what the file stands for, behind what was read.          *)
LEMMA CallLeads ==
  ASSUME SettingsInv, ~io.exited, Outside \in Nat, UNCHANGED <<kept, late>>,
         NEW cat \in Sections, NEW file \in Files,
         NEW below \in Seq(Calls), Len(below) = Len(stack),
         read_cfg(cat, file, below),
         NEW done \in [0 .. Len(below) -> Stores], Chain(content, below, Outside, done),
         NEW part \in Stores, conf = InStore(part),
         done[Len(below)] =
           Joined(part, Expansion(content, MaxOpen - Outside - Len(stack))[file][cat])
  PROVE  Outside' = Outside /\ Leads(content, stack', Outside, conf, done[0])
<1> DEFINE k == Len(stack)
           n == MaxOpen - Outside - k
<1>1. /\ k \in Nat /\ content \in Contents /\ Len(below) = k /\ MaxOpen \in Nat
      /\ Cardinality(io.open) \in 0 .. MaxOpen /\ IsFiniteSet(io.open)
      /\ Outside = Cardinality(io.open) - k
  BY OpenCount, FileAssumption DEF SettingsInv, ValuesInv, Outside
<1>2. n \in 0 .. MaxOpen /\ n = MaxOpen - Cardinality(io.open)
  BY <1>1
<1>3. Expansion(content, n)[file][cat] =
        IF n = 0 \/ content[file] = Nil THEN EmptyStore
        ELSE Whole(content[file], cat, Expansion(content, n - 1))
  <2> HIDE DEF n
  <2>1. QED BY <1>1, <1>2, ExpansionFacts
<1>4. CASE content[file] = Nil \/ fopen(io) = Nil
  <2>1. stack' = below /\ io' = io
    BY <1>4 DEF read_cfg
  <2>2. Expansion(content, n)[file][cat] = EmptyStore
    <3>1. n = 0 \/ content[file] = Nil
      BY <1>2, <1>4, OpenCount
    <3>2. QED BY <1>3, <3>1
  <2>3. done[k] = part
    BY <1>1, <2>2, JoinedFacts
  <2>4. Outside' = Outside
    BY <1>1, <2>1 DEF Outside
  <2>5. Leads(content, stack', Outside, conf, done[0])
    BY <1>1, <2>1, <2>3 DEF Leads
  <2>6. QED BY <2>4, <2>5
<1>5. CASE ~(content[file] = Nil \/ fopen(io) = Nil)
  <2> DEFINE call == [lines |-> content[file], category |-> cat, fp |-> fopen(io)]
             more == [m \in 0 .. k + 1 |-> IF m = k + 1 THEN part ELSE done[m]]
  <2>1. stack' = Append(below, call) /\ io' = big_fopen(io, fopen(io), kept.debug)
    BY <1>5 DEF read_cfg
  <2>2. fopen(io) \in Handles \ io.open /\ io'.open = io.open \cup {fopen(io)}
    BY <1>5, <2>1, FilesOpen
  <2>3. Cardinality(io'.open) = Cardinality(io.open) + 1
    BY <1>1, <2>2, FS_AddElement
  <2>4. /\ Len(stack') = k + 1 /\ stack'[k + 1] = call
        /\ \A m \in 1 .. k : stack'[m] = below[m]
    <3>1. content[file] \in Seq(Lines)
      BY <1>1, <1>5, SettingsAssumption
    <3>2. call \in Calls
      BY <2>2, <3>1 DEF Calls
    <3> HIDE DEF call
    <3>3. QED BY <1>1, <2>1, <3>2
  <2>5. Outside' = Outside
    <3>1. Outside' = Cardinality(io'.open) - Len(stack')
      BY DEF Outside
    <3>2. Len(stack') = k + 1
      BY <2>4
    <3> HIDE DEF k
    <3>3. QED BY <1>1, <2>3, <3>1, <3>2
  <2>6. n # 0 /\ n - 1 = MaxOpen - Outside - (k + 1)
    BY <1>1, <1>2, <1>5, OpenCount
  <2>7. done[k] = Joined(part, Whole(content[file], cat, Expansion(content, n - 1)))
    BY <1>1, <1>3, <1>5, <2>6
  <2>8. /\ more \in [0 .. k + 1 -> Stores]
        /\ more[0] = done[0] /\ more[k + 1] = part /\ \A m \in 0 .. k : more[m] = done[m]
    <3>1. done \in [0 .. k -> Stores]
      BY <1>1
    <3> HIDE DEF k, n, call
    <3>2. k + 1 \in 0 .. k + 1 /\ 0 \in 0 .. k /\ k + 1 \notin 0 .. k
      BY <1>1
    <3>3. \A m \in 0 .. k + 1 : m = k + 1 \/ m \in 0 .. k
      BY <1>1
    <3>4. \A m \in 0 .. k : m \in 0 .. k + 1 /\ m # k + 1
      BY <1>1
    <3>5. \A m \in 0 .. k : more[m] = done[m]
      BY <3>4
    <3>6. QED BY <3>1, <3>2, <3>3, <3>5
  <2>9. ASSUME NEW m \in 1 .. k + 1
        PROVE  more[m - 1] = Joined(more[m], Whole(stack'[m].lines, stack'[m].category,
                                                   Expansion(content, MaxOpen - Outside - m)))
    <3> HIDE DEF more, n, k
    <3>1. CASE m = k + 1
      <4>1. m - 1 = k /\ k \in 0 .. k
        BY <1>1, <3>1
      <4>2. more[m - 1] = done[k] /\ more[m] = part
        BY <2>8, <3>1, <4>1
      <4>3. stack'[m].lines = content[file] /\ stack'[m].category = cat
        BY <2>4, <3>1
      <4>4. Expansion(content, n - 1) = Expansion(content, MaxOpen - Outside - m)
        BY <2>6, <3>1
      <4>5. QED BY <2>7, <4>2, <4>3, <4>4
    <3>2. CASE m # k + 1
      <4>1. m \in 1 .. k /\ m \in 0 .. k /\ m - 1 \in 0 .. k
        BY <1>1, <3>2
      <4>2. more[m - 1] = done[m - 1] /\ more[m] = done[m] /\ stack'[m] = below[m]
        BY <2>4, <2>8, <4>1
      <4>3. QED BY <1>1, <4>1, <4>2 DEF Chain
    <3>3. QED BY <3>1, <3>2
  <2> HIDE DEF more, n, k, call
  <2>10. Chain(content, stack', Outside, more)
    BY <2>4, <2>9 DEF Chain
  <2>11. Leads(content, stack', Outside, conf, done[0])
    BY <2>4, <2>8, <2>10 DEF Leads
  <2>12. QED BY <2>5, <2>11
<1>6. QED BY <1>4, <1>5

(* A line is taken: what it stands for goes from what is left to what was  *)
(* read.                                                                   *)
LEMMA LineLeads ==
  ASSUME SettingsInv, Outside \in Nat, stack # <<>>, Top.lines # <<>>,
         NEW calls \in Seq(Calls), Len(calls) = Len(stack),
         \A n \in 1 .. Len(stack) - 1 : calls[n] = stack[n],
         calls[Len(stack)].lines = Tail(Top.lines),
         calls[Len(stack)].category = After(Head(Top.lines), Top.category),
         NEW done \in [0 .. Len(stack) -> Stores], Chain(content, stack, Outside, done)
  PROVE  LET first == First(Head(Top.lines), Top.category,
                            Expansion(content, MaxOpen - Outside - Len(stack)))
         IN  /\ first \in Stores
             /\ \E more \in [0 .. Len(calls) -> Stores] :
                  /\ more[0] = done[0] /\ Chain(content, calls, Outside, more)
                  /\ more[Len(calls)] = Joined(done[Len(stack)], first)
<1> DEFINE k == Len(stack)
           inc == Expansion(content, MaxOpen - Outside - k)
           first == First(Head(Top.lines), Top.category, inc)
           rest == Whole(Tail(Top.lines), After(Head(Top.lines), Top.category), inc)
           more == [done EXCEPT ![k] = Joined(done[k], first)]
<1>1. k \in Nat \ {0} /\ Top = stack[k] /\ Top \in Calls
  BY TopFacts DEF SettingsInv
<1>2. /\ Top.lines \in Seq(Lines) /\ Top.category \in Sections
      /\ Tail(Top.lines) \in Seq(Lines) /\ Head(Top.lines) \in Lines
  BY <1>1 DEF Calls
<1>3. After(Head(Top.lines), Top.category) \in Sections
  BY <1>2, SettingsAssumption DEF After
<1>4. inc \in Levels
  <2>1. k \in 0 .. Len(stack)
    BY <1>1
  <2>2. QED BY <2>1, LevelFacts
<1> HIDE DEF inc
<1>5. /\ first \in Stores /\ rest \in Stores
      /\ Whole(Top.lines, Top.category, inc) = Joined(first, rest)
  BY <1>2, <1>3, <1>4, WholeFacts
<1> HIDE DEF first, rest
<1>6. done[k - 1] = Joined(done[k], Whole(Top.lines, Top.category, inc))
  <2>1. k \in 1 .. Len(stack)
    BY <1>1
  <2>2. QED BY <1>1, <2>1 DEF Chain, inc
<1>7. done[k] \in Stores /\ Joined(done[k], first) \in Stores
  <2>1. done[k] \in Stores
    BY <1>1
  <2>2. QED BY <1>5, <2>1, JoinedFacts
<1>8. done[k - 1] = Joined(Joined(done[k], first), rest)
  BY <1>5, <1>6, <1>7, JoinedFacts
<1>9. /\ more \in [0 .. k -> Stores] /\ more[k] = Joined(done[k], first)
      /\ \A m \in 0 .. k - 1 : more[m] = done[m]
  BY <1>1, <1>7
<1> HIDE DEF more
<1>10. ASSUME NEW m \in 1 .. k
       PROVE  more[m - 1] = Joined(more[m], Whole(calls[m].lines, calls[m].category,
                                                  Expansion(content, MaxOpen - Outside - m)))
  <2>1. CASE m = k
    <3>1. m - 1 \in 0 .. k - 1
      BY <1>1
    <3>2. more[m - 1] = Joined(more[m], rest)
      BY <1>8, <1>9, <2>1, <3>1
    <3>3. QED BY <2>1, <3>2 DEF rest, inc
  <2>2. CASE m # k
    <3>1. m \in 1 .. k - 1 /\ m \in 0 .. k - 1 /\ m - 1 \in 0 .. k - 1
      BY <1>1, <2>2
    <3>2. more[m - 1] = done[m - 1] /\ more[m] = done[m] /\ calls[m] = stack[m]
      BY <1>9, <3>1
    <3>3. QED BY <3>1, <3>2 DEF Chain
  <2>3. QED BY <2>1, <2>2
<1>11. Chain(content, calls, Outside, more)
  <2> HIDE DEF k
  <2>1. Len(calls) = k
    BY DEF k
  <2>2. QED BY <1>10, <2>1 DEF Chain
<1>12. more[0] = done[0]
  BY <1>1, <1>9
<1>13. QED BY <1>5, <1>9, <1>11, <1>12 DEF first, inc

(* The calls with a line taken, in a section that it may have begun.       *)
LEMMA TakenIs ==
  ASSUME ValuesInv, stack # <<>>, Top.lines # <<>>
  PROVE  /\ \A n \in 1 .. Len(stack) - 1 : Taken[n] = stack[n]
         /\ Taken[Len(stack)].lines = Tail(Top.lines)
         /\ Taken[Len(stack)].category = Top.category
         /\ \A cat \in Sections :
              LET calls == [Taken EXCEPT ![Len(stack)].category = cat]
              IN  /\ \A n \in 1 .. Len(stack) - 1 : calls[n] = stack[n]
                  /\ calls[Len(stack)].lines = Tail(Top.lines)
                  /\ calls[Len(stack)].category = cat
<1> DEFINE k == Len(stack)
           t == [Top EXCEPT !.lines = Tail(@)]
<1>1. /\ stack \in Seq(Calls) /\ k \in Nat \ {0} /\ Top = stack[k] /\ Top \in Calls
      /\ DOMAIN stack = 1 .. k
  BY TopFacts DEF ValuesInv
<1>2. t.lines = Tail(Top.lines) /\ t.category = Top.category
      /\ \A cat : LET u == [t EXCEPT !.category = cat]
                  IN  u.lines = Tail(Top.lines) /\ u.category = cat
  BY <1>1 DEF Calls
<1>3. Taken = [stack EXCEPT ![k] = t]
  BY <1>1 DEF Taken
<1> HIDE DEF t
<1>4. /\ Taken[k] = t /\ DOMAIN Taken = 1 .. k
      /\ \A n \in 1 .. k - 1 : Taken[n] = stack[n]
  <2> HIDE DEF k
  <2>1. QED BY <1>1, <1>3
<1>5. ASSUME NEW cat \in Sections
      PROVE  LET calls == [Taken EXCEPT ![k].category = cat]
             IN  /\ \A n \in 1 .. k - 1 : calls[n] = stack[n]
                 /\ calls[k].lines = Tail(Top.lines)
                 /\ calls[k].category = cat
  <2> DEFINE u == [t EXCEPT !.category = cat]
             calls == [Taken EXCEPT ![k].category = cat]
  <2>1. calls = [Taken EXCEPT ![k] = u]
    BY <1>4
  <2>2. u.lines = Tail(Top.lines) /\ u.category = cat
    BY <1>2
  <2> HIDE DEF u, calls, k
  <2>3. calls[k] = u /\ \A n \in 1 .. k - 1 : calls[n] = Taken[n]
    BY <1>1, <1>4, <2>1
  <2>4. QED BY <1>4, <2>2, <2>3 DEF calls
<1>6. QED BY <1>2, <1>4, <1>5

(* Every step of read_cfg keeps the store on its way.                      *)
LEMMA ReadLeads ==
  ASSUME SettingsInv, ~io.exited, Outside \in Nat,
         NEW target, Leads(content, stack, Outside, conf, target),
         ReadSection \/ ReadInclude \/ ReadBind \/ ReadLine \/ EndOfFile
  PROVE  Outside' = Outside /\ Leads(content, stack', Outside, conf', target)
<1> DEFINE k == Len(stack)
           inc == Expansion(content, MaxOpen - Outside - k)
           line == Head(Top.lines)
           first == First(line, Top.category, inc)
<1>1. PICK done \in [0 .. k -> Stores] :
        /\ done[0] = target /\ Chain(content, stack, Outside, done)
        /\ conf = InStore(done[k])
  BY DEF Leads
<1>2. stack # <<>>
  BY DEF ReadSection, ReadInclude, ReadBind, ReadLine, EndOfFile, Line
<1>3. /\ stack \in Seq(Calls) /\ k \in Nat \ {0} /\ Top = stack[k] /\ Top \in Calls
      /\ Top.category \in Sections /\ Top.lines \in Seq(Lines)
      /\ done[k] \in Stores
  <2>1. stack \in Seq(Calls) /\ k \in Nat \ {0} /\ Top = stack[k] /\ Top \in Calls
    BY <1>2, TopFacts DEF SettingsInv, ValuesInv
  <2>2. k \in 0 .. k
    BY <2>1
  <2>3. QED BY <1>1, <2>1, <2>2 DEF Calls
<1>4. CASE Top.lines # <<>>
  <2>1. /\ line \in Lines
        /\ Taken \in Seq(Calls) /\ Len(Taken) = k
        /\ \A n \in 1 .. k - 1 : Taken[n] = stack[n]
        /\ Taken[k].lines = Tail(Top.lines) /\ Taken[k].category = Top.category
    BY <1>2, <1>4, TakenFacts, TakenIs DEF SettingsInv, SameFiles
  <2>2. ASSUME line.key # "section"
        PROVE  /\ first \in Stores
               /\ \E more \in [0 .. k -> Stores] :
                    /\ more[0] = target /\ Chain(content, Taken, Outside, more)
                    /\ more[k] = Joined(done[k], first)
    <3>1. Taken[k].category = After(line, Top.category)
      BY <2>1, <2>2 DEF After
    <3>2. /\ first \in Stores
          /\ \E more \in [0 .. Len(Taken) -> Stores] :
               /\ more[0] = done[0] /\ Chain(content, Taken, Outside, more)
               /\ more[Len(Taken)] = Joined(done[k], first)
      <4> HIDE DEF first, line, inc
      <4>1. first = First(line, Top.category, Expansion(content, MaxOpen - Outside - k))
        BY DEF first, inc
      <4>2. QED BY <1>1, <1>2, <1>4, <2>1, <3>1, <4>1, LineLeads DEF line
    <3>3. QED BY <1>1, <2>1, <3>2
  <2>3. CASE ReadSection
    <3>1. line.key = "section" /\ line.val \in Sections
          /\ stack' = [Taken EXCEPT ![k].category = line.val]
          /\ UNCHANGED <<conf, io>>
      BY <2>1, <2>3, SettingsAssumption DEF ReadSection, Line
    <3>2. /\ stack' \in Seq(Calls) /\ Len(stack') = k
          /\ \A n \in 1 .. k - 1 : stack'[n] = stack[n]
          /\ stack'[k].lines = Tail(Top.lines) /\ stack'[k].category = After(line, Top.category)
      <4>1. After(line, Top.category) = line.val
        BY <3>1 DEF After
      <4>2. SameFiles(stack')
        BY <1>2, <1>4, <3>1, TakenFacts DEF SettingsInv
      <4>3. /\ \A n \in 1 .. k - 1 : stack'[n] = stack[n]
            /\ stack'[k].lines = Tail(Top.lines) /\ stack'[k].category = line.val
        BY <1>2, <1>4, <3>1, TakenIs DEF SettingsInv
      <4>4. QED BY <4>1, <4>2, <4>3 DEF SameFiles
    <3>3. first = EmptyStore
      BY <3>1 DEF First
    <3>4. PICK more \in [0 .. Len(stack') -> Stores] :
             /\ more[0] = done[0] /\ Chain(content, stack', Outside, more)
             /\ more[Len(stack')] = Joined(done[k], first)
      <4> HIDE DEF first, line, inc
      <4>1. first = First(line, Top.category, Expansion(content, MaxOpen - Outside - k))
        BY DEF first, inc
      <4>2. QED BY <1>1, <1>2, <1>4, <3>2, <4>1, LineLeads DEF line
    <3>5. more[Len(stack')] = done[k]
      BY <1>3, <3>3, <3>4, JoinedFacts
    <3>6. Leads(content, stack', Outside, conf', target)
      BY <1>1, <3>1, <3>4, <3>5 DEF Leads
    <3>7. QED BY <3>1, <3>2, <3>6 DEF Outside
  <2>4. CASE ReadBind
    <3>1. line.key = "bind" /\ stack' = Taken /\ UNCHANGED <<conf, io>>
      BY <2>4 DEF ReadBind, Line
    <3>2. first = EmptyStore
      BY <3>1 DEF First
    <3>3. PICK more \in [0 .. k -> Stores] :
             /\ more[0] = target /\ Chain(content, Taken, Outside, more)
             /\ more[k] = Joined(done[k], first)
      BY <2>2, <3>1
    <3>4. more[k] = done[k]
      BY <1>3, <3>2, <3>3, JoinedFacts
    <3>5. Leads(content, stack', Outside, conf', target)
      BY <1>1, <2>1, <3>1, <3>3, <3>4 DEF Leads
    <3>6. QED BY <2>1, <3>1, <3>5 DEF Outside
  <2>5. CASE ReadLine
    <3>1. /\ line.key \notin {"section", "include", "bind"} /\ stack' = Taken /\ UNCHANGED io
          /\ conf' = IF Len(conf[Top.category]) < CfgMax
                     THEN [conf EXCEPT ![Top.category] = Append(@, line)] ELSE conf
      BY <1>2, <1>4, <2>5 DEF ReadLine, Line
    <3>2. first = [EmptyStore EXCEPT ![Top.category] = <<line>>]
      BY <3>1 DEF First
    <3>3. PICK more \in [0 .. k -> Stores] :
             /\ more[0] = target /\ Chain(content, Taken, Outside, more)
             /\ more[k] = Joined(done[k], first)
      BY <2>2, <3>1
    <3>4. conf' = InStore(more[k])
      <4> HIDE DEF line, first
      <4>1. InStore(Joined(done[k], first)) =
              IF Len(InStore(done[k])[Top.category]) < CfgMax
              THEN [InStore(done[k]) EXCEPT ![Top.category] = Append(@, line)]
              ELSE InStore(done[k])
        BY <1>3, <2>1, <3>2, CappedNext
      <4>2. QED BY <1>1, <3>1, <3>3, <4>1
    <3>5. Leads(content, stack', Outside, conf', target)
      BY <2>1, <3>1, <3>3, <3>4 DEF Leads
    <3>6. QED BY <2>1, <3>1, <3>5 DEF Outside
  <2>6. CASE ReadInclude
    <3>1. /\ line.key = "include" /\ line.val \in Files
          /\ read_cfg(Top.category, line.val, Taken)
          /\ UNCHANGED <<conf, kept, late>>
      BY <2>1, <2>6, SettingsAssumption DEF ReadInclude, Line, settings, hist
    <3>2. first = inc[line.val][Top.category]
      BY <3>1, Zenon DEF First
    <3>3. PICK more \in [0 .. k -> Stores] :
             /\ more[0] = target /\ Chain(content, Taken, Outside, more)
             /\ more[k] = Joined(done[k], first)
      BY <2>2, <3>1
    <3>4. /\ more \in [0 .. Len(Taken) -> Stores]
          /\ more[Len(Taken)] =
               Joined(done[k], Expansion(content, MaxOpen - Outside - Len(stack))
                                 [line.val][Top.category])
      BY <2>1, <3>2, <3>3
    <3> HIDE DEF line, first, inc, k
    <3>5. Outside' = Outside /\ Leads(content, stack', Outside, conf, more[0])
      BY <1>1, <1>3, <2>1, <3>1, <3>3, <3>4, CallLeads DEF k
    <3>6. QED BY <3>1, <3>3, <3>5
  <2>7. CASE EndOfFile
    BY <1>4, <2>7 DEF EndOfFile
  <2>8. QED BY <2>3, <2>4, <2>5, <2>6, <2>7
<1>5. CASE Top.lines = <<>>
  <2>1. /\ stack' = Front(stack) /\ io' = big_fclose(io, Top.fp, kept.debug)
        /\ UNCHANGED conf
    BY <1>5 DEF ReadSection, ReadInclude, ReadBind, ReadLine, EndOfFile, Line
  <2>2. Len(stack') = k - 1 /\ \A n \in 1 .. k - 1 : stack'[n] = stack[n]
    <3> DEFINE last == k - 1
    <3>1. stack' = SubSeq(stack, 1, last) /\ last \in Nat
      BY <1>3, <2>1 DEF Front
    <3>2. \A n \in 1 .. last : stack[n] \in Calls
      BY <1>3
    <3>3. /\ Len(SubSeq(stack, 1, last)) = IF 1 <= last THEN last - 1 + 1 ELSE 0
          /\ \A n \in 1 .. last - 1 + 1 : SubSeq(stack, 1, last)[n] = stack[1 + n - 1]
      BY <3>1, <3>2, SubSeqProperties
    <3> HIDE DEF last
    <3>4. /\ last - 1 + 1 = last /\ (1 <= last \/ last = 0)
          /\ \A n \in 1 .. last : 1 + n - 1 = n
      BY <3>1
    <3>5. Len(stack') = last /\ \A n \in 1 .. last : stack'[n] = stack[n]
      BY <3>1, <3>3, <3>4
    <3>6. QED BY <3>5 DEF last
  <2>3. Outside' = Outside
    <3>1. Top.fp \in io.open
      <4>1. k \in 1 .. Len(stack)
        BY <1>3
      <4>2. QED BY <1>3, <4>1 DEF SettingsInv, OpenInv
    <3>2. io'.open = io.open \ {Top.fp}
      BY <2>1, <3>1, CloseFacts DEF SettingsInv, OpenInv, ValuesInv
    <3>3. Cardinality(io'.open) = Cardinality(io.open) - 1
      BY <3>1, <3>2, OpenCount, FS_RemoveElement
    <3>4. Cardinality(io.open) \in Nat
      BY OpenCount
    <3>5. Outside' = Cardinality(io'.open) - Len(stack') /\ Outside = Cardinality(io.open) - k
      BY DEF Outside
    <3> HIDE DEF k
    <3>6. QED BY <1>3, <2>2, <3>3, <3>4, <3>5
  <2>4. done[k - 1] = done[k]
    <3>1. inc \in Levels
      <4>1. k \in 0 .. Len(stack)
        BY <1>3
      <4>2. QED BY <4>1, LevelFacts
    <3>2. Whole(Top.lines, Top.category, inc) = EmptyStore
      <4> HIDE DEF inc
      <4>1. QED BY <1>3, <1>5, <3>1, WholeFacts
    <3>3. done[k - 1] = Joined(done[k], Whole(Top.lines, Top.category, inc))
      <4>1. k \in 1 .. Len(stack)
        BY <1>3
      <4>2. QED BY <1>1, <1>3, <4>1 DEF Chain
    <3>4. QED BY <1>3, <3>2, <3>3, JoinedFacts
  <2> DEFINE less == [n \in 0 .. k - 1 |-> done[n]]
  <2>5. /\ less \in [0 .. k - 1 -> Stores] /\ less[0] = target /\ less[k - 1] = done[k]
        /\ \A n \in 0 .. k - 1 : less[n] = done[n]
    BY <1>1, <1>3, <2>4
  <2> HIDE DEF less
  <2>6. Chain(content, stack', Outside, less)
    <3>1. ASSUME NEW n \in 1 .. k - 1
          PROVE  less[n - 1] = Joined(less[n], Whole(stack'[n].lines, stack'[n].category,
                                                     Expansion(content, MaxOpen - Outside - n)))
      <4>1. n \in 1 .. k /\ n \in 0 .. k - 1 /\ n - 1 \in 0 .. k - 1
        BY <1>3
      <4>2. done[n - 1] = Joined(done[n], Whole(stack[n].lines, stack[n].category,
                                                Expansion(content, MaxOpen - Outside - n)))
        BY <1>1, <4>1 DEF Chain
      <4>3. QED BY <2>2, <2>5, <4>1, <4>2
    <3> HIDE DEF k
    <3>2. QED BY <2>2, <3>1 DEF Chain
  <2>7. Leads(content, stack', Outside, conf', target)
    BY <1>1, <2>1, <2>2, <2>5, <2>6 DEF Leads
  <2>8. QED BY <2>3, <2>7
<1>6. QED BY <1>4, <1>5

-----------------------------------------------------------------------------
(* The store during a pass.                                                *)

(* What the check's file adds, and what is in the store in the end.        *)
CheckPart == Expansion(content, MaxOpen - Outside)[kept.cfgdir]["disk"]

Target == IF CheckIsOff THEN MainPart ELSE Joined(MainPart, CheckPart)

StoreInv ==
  /\ before.open \in 0 .. MaxOpen
  /\ pc = "begin" => conf = EmptyStore /\ before.open = Outside
  /\ stable =>
       /\ pc = "main" =>
            Outside = before.open /\ Leads(content, stack, Outside, conf, MainPart)
       /\ pc \in {"readcfg", "check"} => conf = InStore(MainPart)
       /\ pc = "disk" =>
            Outside \in Nat /\ Leads(content, stack, Outside, conf, Target)

LEMMA MainPartFacts ==
  ASSUME SettingsInv, before.open \in 0 .. MaxOpen
  PROVE  MainPart \in Stores
<1>1. MaxOpen - before.open \in 0 .. MaxOpen
  BY FileAssumption
<1>2. Expansion(content, MaxOpen - before.open) \in Levels
  BY <1>1, ExpansionFacts DEF SettingsInv, ValuesInv
<1>3. QED BY <1>2, SettingsAssumption DEF MainPart, Levels

(* With no call under way everything open is open for other reasons, and   *)
(* the store holds what it should.                                         *)
LEMMA NoCalls ==
  ASSUME SettingsInv, stack = <<>>
  PROVE  /\ Outside = Cardinality(io.open) /\ Outside \in 0 .. MaxOpen
         /\ \A target : Leads(content, stack, Outside, conf, target) => conf = InStore(target)
         /\ \A target \in Stores :
              conf = InStore(target) => Leads(content, stack, Outside, conf, target)
<1>1. Outside = Cardinality(io.open) /\ Outside \in 0 .. MaxOpen
  BY OpenCount DEF Outside
<1>2. Len(stack) = 0
  OBVIOUS
<1>3. ASSUME NEW target, Leads(content, stack, Outside, conf, target) PROVE conf = InStore(target)
  BY <1>2, <1>3 DEF Leads
<1>4. ASSUME NEW target \in Stores, conf = InStore(target)
      PROVE  Leads(content, stack, Outside, conf, target)
  <2> DEFINE done == [n \in 0 .. 0 |-> target]
  <2>1. done \in [0 .. 0 -> Stores] /\ done[0] = target
    OBVIOUS
  <2> HIDE DEF done
  <2>2. Chain(content, stack, Outside, done)
    BY <1>2 DEF Chain
  <2>3. QED BY <1>2, <1>4, <2>1, <2>2 DEF Leads
<1>5. QED BY <1>1, <1>3, <1>4

(* The first call of read_cfg for a file, with no other under way.         *)
LEMMA FirstCallLeads ==
  ASSUME SettingsInv, ~io.exited, stack = <<>>, UNCHANGED <<kept, late>>,
         NEW cat \in Sections, NEW file \in Files, read_cfg(cat, file, <<>>),
         NEW part \in Stores, conf = InStore(part)
  PROVE  LET target == Joined(part, Expansion(content, MaxOpen - Outside)[file][cat])
         IN  Outside' = Outside /\ Leads(content, stack', Outside, conf, target)
<1> DEFINE added == Expansion(content, MaxOpen - Outside)[file][cat]
           target == Joined(part, added)
           done == [n \in 0 .. 0 |-> target]
<1>1. /\ Outside \in 0 .. MaxOpen /\ Outside \in Nat /\ MaxOpen \in Nat
      /\ Len(stack) = 0 /\ Len(<<>>) = 0 /\ <<>> \in Seq(Calls)
  BY NoCalls, FileAssumption
<1>2. MaxOpen - Outside \in 0 .. MaxOpen /\ MaxOpen - Outside - Len(stack) = MaxOpen - Outside
  BY <1>1
<1>3. added \in Stores
  <2>1. Expansion(content, MaxOpen - Outside) \in Levels
    BY <1>2, ExpansionFacts DEF SettingsInv, ValuesInv
  <2>2. QED BY <2>1 DEF Levels
<1> HIDE DEF added
<1>4. target \in Stores
  BY <1>3, JoinedFacts
<1> HIDE DEF target
<1>5. done \in [0 .. 0 -> Stores] /\ done[0] = target
  BY <1>4
<1> HIDE DEF done
<1>6. Chain(content, <<>>, Outside, done)
  BY <1>1 DEF Chain
<1>7. done[Len(<<>>)] = Joined(part, Expansion(content, MaxOpen - Outside - Len(stack))[file][cat])
  BY <1>1, <1>2, <1>5 DEF target, added
<1>8. Outside' = Outside /\ Leads(content, stack', Outside, conf, done[0])
  <2>1. done \in [0 .. Len(<<>>) -> Stores]
    BY <1>1, <1>5
  <2>2. QED BY <1>1, <1>6, <1>7, <2>1, CallLeads
<1>9. QED BY <1>5, <1>8 DEF target, added

LEMMA BeginStore == ASSUME SettingsInv, ~io.exited, StoreInv, Begin PROVE StoreInv'
<1>1. /\ stack = <<>> /\ pc = "begin" /\ pc' = "main" /\ read_cfg("mrbig", mrbig_cfg, <<>>)
      /\ UNCHANGED <<content, conf, kept, late, before>>
  BY DEF Begin, settings, SettingsInv, ValuesInv
<1>2. conf = EmptyStore /\ before.open = Outside /\ before.open \in 0 .. MaxOpen
  BY <1>1 DEF StoreInv
<1>3. EmptyStore \in Stores /\ conf = InStore(EmptyStore)
  BY <1>2, EmptyInStore DEF EmptyStore, Stores
<1>4. /\ Outside' = Outside
      /\ Leads(content, stack', Outside, conf,
               Joined(EmptyStore, Expansion(content, MaxOpen - Outside)[mrbig_cfg]["mrbig"]))
  BY <1>1, <1>3, FirstCallLeads, SettingsAssumption
<1>5. Joined(EmptyStore, MainPart) = MainPart
  BY <1>2, MainPartFacts, JoinedFacts
<1>6. Leads(content, stack', Outside, conf, MainPart)
  BY <1>2, <1>4, <1>5 DEF MainPart
<1>7. MainPart' = MainPart
  BY <1>1 DEF MainPart
<1>8. QED BY <1>1, <1>2, <1>4, <1>6, <1>7 DEF StoreInv

LEMMA ReadStore ==
  ASSUME SettingsInv, ~io.exited, StoreInv,
         ReadSection \/ ReadInclude \/ ReadBind \/ ReadLine \/ EndOfFile
  PROVE  StoreInv'
<1>1. stack # <<>> /\ UNCHANGED <<content, pc, before, stable>>
  BY DEF ReadSection, ReadInclude, ReadBind, ReadLine, EndOfFile, Line, hist
<1>2. pc \in {"main", "disk"}
  BY <1>1 DEF SettingsInv, ValuesInv
<1>3. kept'.cfgdir = kept.cfgdir
  <2>1. kept' = kept \/ \E val : kept' = [kept EXCEPT !.bind_addr = val]
    BY DEF ReadSection, ReadInclude, ReadBind, ReadLine, EndOfFile, settings
  <2>2. QED BY <2>1 DEF SettingsInv, ValuesInv
<1>4. MainPart' = MainPart /\ (CheckIsOff' <=> CheckIsOff)
  BY <1>1 DEF MainPart, CheckIsOff
<1>5. CASE ~stable
  BY <1>1, <1>2, <1>5 DEF StoreInv
<1>6. CASE stable /\ pc = "main"
  <2>1. /\ Outside = before.open /\ Outside \in Nat
        /\ Leads(content, stack, Outside, conf, MainPart)
    BY <1>6 DEF StoreInv
  <2>2. Outside' = Outside /\ Leads(content, stack', Outside, conf', MainPart)
    BY <2>1, ReadLeads
  <2>3. QED BY <1>1, <1>4, <1>6, <2>1, <2>2 DEF StoreInv
<1>7. CASE stable /\ pc = "disk"
  <2>1. Outside \in Nat /\ Leads(content, stack, Outside, conf, Target)
    BY <1>7 DEF StoreInv
  <2>2. Outside' = Outside /\ Leads(content, stack', Outside, conf', Target)
    BY <2>1, ReadLeads
  <2>3. Target' = Target
    <3>1. CheckPart' = CheckPart
      BY <1>1, <1>3, <2>2 DEF CheckPart
    <3>2. QED BY <1>4, <3>1, Zenon DEF Target
  <2>4. QED BY <1>1, <1>7, <2>1, <2>2, <2>3 DEF StoreInv
<1>8. QED BY <1>2, <1>5, <1>6, <1>7

(* An option says that the check is not to run when a line of the files    *)
(* does.                                                                   *)
LEMMA OptionIsLine ==
  ASSUME SettingsInv, ~io.exited, SettingsFollowLines, pc = "check", conf = InStore(MainPart)
  PROVE  get_option("no_disk") <=> CheckIsOff
<1> DEFINE lines == conf["mrbig"]
<1>1. ToSet(options) = {lines[n].val : n \in LinesOf(lines, "option")}
  BY Zenon DEF SettingsFollowLines
<1>2. lines = Capped(MainPart["mrbig"])
  BY SettingsAssumption DEF InStore
<1>3. ASSUME NEW n \in LinesOf(lines, "option") PROVE lines[n] = MainPart["mrbig"][n]
  <2>1. lines \in Seq(Lines)
    BY SettingsAssumption DEF SettingsInv, ValuesInv
  <2>2. n \in DOMAIN lines
    <3> HIDE DEF lines
    <3>1. QED BY <1>3, <2>1 DEF LinesOf
  <2> HIDE DEF lines
  <2>3. QED BY <1>2, <2>2 DEF Capped
<1> HIDE DEF lines
<1>4. get_option("no_disk") <=> \E n \in LinesOf(lines, "option") : lines[n].val = "no_disk"
  BY <1>1 DEF get_option
<1>5. CheckIsOff <=> \E n \in LinesOf(lines, "option") : MainPart["mrbig"][n].val = "no_disk"
  BY <1>2, Zenon DEF CheckIsOff
<1>6. QED BY <1>3, <1>4, <1>5

LEMMA CheckStore ==
  ASSUME SettingsInv, ~io.exited, StoreInv, SettingsFollowLines, Check PROVE StoreInv'
<1>1. /\ stack = <<>> /\ pc = "check" /\ pc' = "disk"
      /\ IF get_option("no_disk") THEN UNCHANGED <<stack, io>>
         ELSE read_cfg("disk", kept.cfgdir, <<>>)
      /\ UNCHANGED <<content, conf, kept, late, before, stable>>
  BY DEF Check, settings, hist, SettingsInv, ValuesInv
<1>2. CASE ~stable
  BY <1>1, <1>2 DEF StoreInv
<1>3. CASE stable
  <2>1. conf = InStore(MainPart) /\ MainPart \in Stores
    BY <1>1, <1>3, MainPartFacts DEF StoreInv
  <2>2. get_option("no_disk") <=> CheckIsOff
    BY <1>1, <2>1, OptionIsLine
  <2>3. Outside \in Nat
    BY <1>1, NoCalls
  <2>4. MainPart' = MainPart /\ (CheckIsOff' <=> CheckIsOff)
    BY <1>1 DEF MainPart, CheckIsOff
  <2>5. CASE CheckIsOff
    <3>1. UNCHANGED <<stack, io>>
      BY <1>1, <2>2, <2>5
    <3>2. Leads(content, stack, Outside, conf, MainPart)
      BY <1>1, <2>1, NoCalls
    <3>3. Outside' = Outside
      BY <3>1 DEF Outside
    <3>4. Target' = MainPart
      BY <2>4, <2>5 DEF Target
    <3>5. QED BY <1>1, <2>3, <3>1, <3>2, <3>3, <3>4 DEF StoreInv
  <2>6. CASE ~CheckIsOff
    <3>1. read_cfg("disk", kept.cfgdir, <<>>) /\ kept.cfgdir \in Files
      BY <1>1, <2>2, <2>6 DEF SettingsInv, ValuesInv
    <3>2. Outside' = Outside /\ Leads(content, stack', Outside, conf, Joined(MainPart, CheckPart))
      BY <1>1, <2>1, <3>1, FirstCallLeads, SettingsAssumption DEF CheckPart
    <3>3. CheckPart' = CheckPart
      BY <1>1, <3>2 DEF CheckPart
    <3>4. Target' = Joined(MainPart, CheckPart)
      BY <2>4, <2>6, <3>3 DEF Target
    <3>5. QED BY <1>1, <2>3, <3>2, <3>4 DEF StoreInv
  <2>7. QED BY <2>5, <2>6
<1>4. QED BY <1>2, <1>3

(* readcfg begins when the calls have come to their end, and leaves the    *)
(* store alone.                                                            *)
LEMMA ReadcfgStore ==
  ASSUME SettingsInv, StoreInv,
         \/ SetDefaults \/ SetLine \/ KeptLine \/ DisplayLine \/ GraceLine \/ OptionLine
         \/ LogLine \/ IgnoredLine \/ readcfg_returns
  PROVE  StoreInv'
<1>1. UNCHANGED <<content, conf, before, stable>> /\ pc' \in {"readcfg", "check"}
  BY DEF SetDefaults, SetLine, KeptLine, DisplayLine, GraceLine, OptionLine, LogLine,
     IgnoredLine, readcfg_returns, Directive, hist
<1>2. MainPart' = MainPart
  BY <1>1 DEF MainPart
<1>3. stable => conf = InStore(MainPart)
  <2>1. CASE SetDefaults
    <3>1. pc = "main" /\ stack = <<>>
      BY <2>1 DEF SetDefaults
    <3>2. QED BY <3>1, NoCalls DEF StoreInv
  <2>2. CASE ~SetDefaults
    <3>1. pc = "readcfg"
      BY <2>2 DEF SetLine, KeptLine, DisplayLine, GraceLine, OptionLine, LogLine, IgnoredLine,
         readcfg_returns, Directive
    <3>2. QED BY <3>1 DEF StoreInv
  <2>3. QED BY <2>1, <2>2
<1>4. QED BY <1>1, <1>2, <1>3 DEF StoreInv

(* The end of a pass, a change of the files and a restart.                 *)
LEMMA OtherStore ==
  ASSUME SettingsInv, StoreInv, clear_cfg \/ Edit \/ Restart \/ UNCHANGED vars
  PROVE  StoreInv'
<1>1. CASE clear_cfg
  <2>1. /\ stack = <<>> /\ UNCHANGED <<stack, io>> /\ pc' = "begin" /\ conf' = EmptyStore
        /\ before'.open = Cardinality(io.open)
    BY <1>1 DEF clear_cfg
  <2>2. Outside = Cardinality(io.open) /\ Outside \in 0 .. MaxOpen
    BY <2>1, NoCalls
  <2>3. Outside' = Outside
    BY <2>1 DEF Outside
  <2>4. QED BY <2>1, <2>2, <2>3 DEF StoreInv, EmptyStore
<1>2. CASE Edit
  <2>1. UNCHANGED <<pc, stack, conf, io, before>> /\ ~stable'
    BY <1>2 DEF Edit
  <2>2. Outside' = Outside
    BY <2>1 DEF Outside
  <2>3. QED BY <2>1, <2>2 DEF StoreInv, EmptyStore
<1>3. CASE Restart
  <2>1. /\ pc' = "begin" /\ stack' = <<>> /\ conf' = EmptyStore /\ io'.open = {}
        /\ before'.open = 0
    BY <1>3 DEF Restart, NoFiles
  <2>2. Outside' = 0
    BY <2>1, FS_EmptySet DEF Outside
  <2>3. 0 \in 0 .. MaxOpen
    BY FileAssumption
  <2>4. QED BY <2>1, <2>2, <2>3 DEF StoreInv, EmptyStore
<1>4. CASE UNCHANGED vars
  <2>1. UNCHANGED <<content, pc, stack, conf, io, before, stable, kept>>
    BY <1>4 DEF vars
  <2>2. Outside' = Outside /\ MainPart' = MainPart /\ (CheckIsOff' <=> CheckIsOff)
    BY <2>1 DEF Outside, MainPart, CheckIsOff
  <2>3. Target' = Target
    <3>1. CheckPart' = CheckPart
      BY <2>1, <2>2 DEF CheckPart
    <3>2. QED BY <2>2, <3>1, Zenon DEF Target
  <2>4. QED BY <2>1, <2>2, <2>3 DEF StoreInv, EmptyStore
<1>5. QED BY <1>1, <1>2, <1>3, <1>4

(* After a pass during which no file was written, the store holds what the *)
(* files say, however they include each other: every line in its section   *)
(* and in order, nothing else, and nothing missing but what was full or    *)
(* could not be opened.                                                    *)
THEOREM StoreHoldsFiles == Spec => []StoreIsFiles
<1>1. Init => StoreInv
  <2> SUFFICES ASSUME Init PROVE StoreInv
    OBVIOUS
  <2>1. pc = "begin" /\ stack = <<>> /\ conf = EmptyStore /\ io.open = {} /\ before.open = 0
    BY DEF Init, NoFiles
  <2>2. Outside = 0
    BY <2>1, FS_EmptySet DEF Outside
  <2>3. 0 \in 0 .. MaxOpen
    BY FileAssumption
  <2>4. QED BY <2>1, <2>2, <2>3 DEF StoreInv
<1>2. SettingsInv /\ SettingsFollowLines /\ StoreInv /\ [Next]_vars => StoreInv'
  BY BeginStore, ReadStore, CheckStore, ReadcfgStore, OtherStore DEF Next, Pass
<1>3. SettingsInv /\ StoreInv => StoreIsFiles
  <2> SUFFICES ASSUME SettingsInv, StoreInv, pc = "disk", stack = <<>>, stable
               PROVE  conf = InStore(
                        IF CheckIsOff THEN MainPart
                        ELSE Joined(MainPart,
                                    Expansion(content, MaxOpen - Cardinality(io.open))
                                      [kept.cfgdir]["disk"]))
    BY DEF StoreIsFiles
  <2>1. Leads(content, stack, Outside, conf, Target)
    BY DEF StoreInv
  <2>2. conf = InStore(Target) /\ Outside = Cardinality(io.open)
    BY <2>1, NoCalls
  <2>3. QED BY <2>2, Zenon DEF Target, CheckPart
<1>4. QED BY <1>1, <1>2, <1>3, SettingsInvariant, SettingsFollow, PTL DEF Spec

=============================================================================
