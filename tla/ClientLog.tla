----------------------------- MODULE ClientLog ------------------------------
(***************************************************************************)
(* One call of clientlog.  The collectors append to a text that grows from *)
(* the left of an arena and allocate what they need in passing from its    *)
(* right; a full arena is left by a long jump to the error handler of      *)
(* clientlog, and a stack of deferred handles says what is then to be      *)
(* closed.  Every collector gets a copy of the arena: what it allocates is *)
(* given up when it returns, and what it appends is not.                   *)
(***************************************************************************)
EXTENDS Collectors, FiniteSets

CONSTANTS
  Capacities,  \* sizes the arena is tried with; 0: malloc failed
  Sizes,       \* sizes of a text or an allocation
  Nil

(* The first allocation and the first text fit: the arena is never so      *)
(* small that the error note has no text to overwrite.                     *)
ASSUME CapacityAssumption ==
  /\ Nil \notin [steps : Nat, note : BOOLEAN]
  /\ Sizes \subseteq Nat \ {0}
  /\ Capacities \subseteq Nat
  /\ \A c \in Capacities \ {0} : \A m, n \in Sizes : m + n < c

MaxHandles == 8  \* ARENA_MAXNUM_HANDLES

(* The calls of clientlog in their order; "text" is an append of its own.  *)
Program == <<
  "StartQuery", "text", "date", "text", "osversion", "text", "winuptime", "text", "bios", "who",
  "text", "diskinfo", "text", "winmemory", "text", "ipconfig", "text", "winroute", "text",
  "winports", "text", "EndAppendQuery", "runningservices", "eventlog", "eventlog", "eventlog",
  "text", "applications", "text", "certificates", "reboots", "text", "clientversion", "text",
  "clock">>

Steps == Len(Program)

Paths == [
  StartQuery |-> StartQuery, text |-> Append_, date |-> date, osversion |-> osversion,
  winuptime |-> winuptime, bios |-> bios, who |-> who, diskinfo |-> diskinfo,
  winmemory |-> winmemory, ipconfig |-> ipconfig, winroute |-> winroute, winports |-> winports,
  EndAppendQuery |-> EndAppendQuery, runningservices |-> runningservices, eventlog |-> eventlog,
  applications |-> applications, certificates |-> certificates, reboots |-> reboots,
  clientversion |-> clientversion, clock |-> clock]

(* These are given the arena itself, and what they allocate stays.         *)
ByReference == {"StartQuery", "EndAppendQuery"}

VARIABLES
  step,     \* steps of Program that are done
  ops,      \* operations the running step still has to do
  capacity, \* of the arena
  current,  \* State->CurrentStart, as an offset
  end,      \* End of the copy of the arena in use
  base,     \* End of clientlog's own arena
  full,     \* the last character of the last append is the terminating one
  cut,      \* the steps whose text is readable, when text was appended
            \* behind a terminating character; Nil while there is none
  stack,    \* State->HandleStack
  open,     \* handles that are open
  misuse,   \* handles closed by mistake
  queried,  \* StartQuery ended well
  err,      \* code of the long jump
  message   \* what mrsend was given

arena == <<capacity, current, end, base, full, cut>>
handles == <<stack, open, misuse>>
vars == <<step, ops, arena, handles, queried, err, message>>

Message == [steps : Nat, note : BOOLEAN]

(* The type of the state; the text, the transient allocations and the      *)
(* permanent ones share the arena without meeting.                         *)
TypeOK ==
  /\ step \in 0..Steps
  /\ ops \in Seq([op : Operations, handle : Handles])
  /\ capacity \in Capacities
  /\ current \in 0..end /\ end \in 0..base /\ base \in 0..capacity
  /\ full \in BOOLEAN
  /\ cut \in 0..Steps \cup {Nil}
  /\ stack \in Seq(Handles) /\ Len(stack) <= MaxHandles
  /\ open \subseteq Handles /\ misuse \subseteq Handles
  /\ queried \in BOOLEAN
  /\ err \in 0..2
  /\ message \in Message \cup {Nil}

(* clog_ArenaMake, and the first call.                                     *)
Init ==
  /\ step = 0
  /\ ops \in Paths[Program[1]]
  /\ capacity \in Capacities
  /\ current = 0
  /\ end = capacity
  /\ base = capacity
  /\ full = FALSE
  /\ cut = Nil
  /\ stack = <<>>
  /\ open = {}
  /\ misuse = {}
  /\ queried = FALSE
  /\ err = 0
  /\ message = Nil

-----------------------------------------------------------------------------
(* The next operation of the running step is op.                           *)
Does(op) ==
  /\ message = Nil /\ err = 0
  /\ ops # <<>> /\ Head(ops).op = op
  /\ ops' = Tail(ops)
  /\ UNCHANGED <<step, queried, message>>

handle == Head(ops).handle

ThrowError(code) == err' = code

(* An append may fill what is free to the last byte: its last character is *)
(* then lost to the terminating one, and the jump is not taken.            *)
ArenaAppend ==
  /\ Does("append")
  /\ \E written \in Sizes :
       IF written > end - current
       THEN ThrowError(1) /\ UNCHANGED <<current, full, cut>>
       ELSE /\ current' = current + written
            /\ full' = (current + written = end)
            /\ cut' = IF full /\ cut = Nil THEN step ELSE cut
            /\ UNCHANGED err
  /\ UNCHANGED <<capacity, end, base, handles>>

ArenaAllocateUnchecked ==
  /\ Does("alloc")
  /\ \E size \in Sizes : end' = end - size
  /\ UNCHANGED <<capacity, current, base, full, cut, handles, err>>

ArenaAllocate ==
  /\ Does("alloc")
  /\ \E size \in Sizes :
       IF size > end - current
       THEN ThrowError(1) /\ UNCHANGED end
       ELSE end' = end - size /\ UNCHANGED err
  /\ UNCHANGED <<capacity, current, base, full, cut, handles>>

(* The function returns to a copy of the arena made before it allocated.   *)
RewindArena ==
  /\ Does("rewind")
  /\ end' = base
  /\ UNCHANGED <<capacity, current, base, full, cut, handles, err>>

-----------------------------------------------------------------------------
(* h is closed; want is the handle the code means to close.                *)
CloseHandle(h, want) ==
  /\ open' = open \ {h}
  /\ misuse' = misuse \cup
       {g \in {h, want} : g # None /\ (h # want \/ h \notin open)}

OpenHandle ==
  /\ Does("open")
  /\ open' = open \cup {handle}
  /\ UNCHANGED <<arena, stack, misuse, err>>

CloseDirectly ==
  /\ Does("close")
  /\ CloseHandle(handle, handle)
  /\ UNCHANGED <<arena, stack, err>>

DeferHandle ==
  /\ Does("defer")
  /\ IF Len(stack) >= MaxHandles
     THEN ThrowError(2) /\ UNCHANGED stack
     ELSE stack' = Append(stack, handle) /\ UNCHANGED err
  /\ UNCHANGED <<arena, open, misuse>>

IgnorePopDefer ==
  /\ Does("ignore")
  /\ stack' = IF stack = <<>> THEN stack ELSE SubSeq(stack, 1, Len(stack) - 1)
  /\ UNCHANGED <<arena, open, misuse, err>>

PopDefer ==
  /\ Does("pop")
  /\ stack' = SubSeq(stack, 1, Len(stack) - 1)
  /\ CloseHandle(stack[Len(stack)], handle)
  /\ UNCHANGED <<arena, err>>

(* Everything deferred is closed; a handle that stands on the stack twice, *)
(* or is closed already, is closed by mistake.                             *)
CloseAll ==
  LET deferred == {stack[i] : i \in 1..Len(stack)} \ {None}
      twice == {h \in deferred : Cardinality({i \in 1..Len(stack) : stack[i] = h}) > 1}
  IN /\ stack' = <<>>
     /\ open' = open \ deferred
     /\ misuse' = misuse \cup twice \cup (deferred \ open)

PopDeferAll ==
  /\ Does("popall")
  /\ CloseAll
  /\ UNCHANGED <<arena, err>>

-----------------------------------------------------------------------------
(* The steps that can be read, and whether the note can, when done steps   *)
(* were written in full.                                                   *)
Reads(done, note) ==
  IF cut = Nil THEN [steps |-> done, note |-> note] ELSE [steps |-> cut, note |-> FALSE]

(* The running step returns and the next one begins.  With a query that    *)
(* StartQuery could not start, EndAppendQuery only appends the error.      *)
Begins(name) ==
  IF name = "EndAppendQuery" /\ ~queried THEN EndFailedQuery ELSE Paths[name]

QueryStarted == queried' = (queried \/ (step = 0 /\ "query" \in open))

ReturnCopiesAlways ==
  /\ message = Nil /\ err = 0 /\ ops = <<>>
  /\ step < Steps
  /\ step' = step + 1
  /\ ops' \in IF step + 1 < Steps THEN Begins(Program[step + 2]) ELSE {<<>>}
  /\ end' = base
  /\ QueryStarted
  /\ UNCHANGED <<capacity, current, base, full, cut, handles, err, message>>

Return ==
  /\ message = Nil /\ err = 0 /\ ops = <<>>
  /\ step < Steps
  /\ step' = step + 1
  /\ ops' \in IF step + 1 < Steps THEN Begins(Program[step + 2]) ELSE {<<>>}
  /\ base' = IF Program[step + 1] \in ByReference THEN end ELSE base
  /\ end' = base'
  /\ QueryStarted
  /\ UNCHANGED <<capacity, current, full, cut, handles, err, message>>

(* The last step returned: the text is sent and everything freed.          *)
Finish ==
  /\ message = Nil /\ err = 0 /\ ops = <<>>
  /\ step = Steps
  /\ message' = Reads(Steps, FALSE)
  /\ CloseAll
  /\ UNCHANGED <<step, ops, arena, queried, err>>

HandlerKeepsHandles ==
  /\ message = Nil /\ err # 0 /\ capacity # 0
  /\ message' = Reads(step, TRUE)
  /\ UNCHANGED <<step, ops, arena, handles, queried, err>>

HandlerForgetsNote ==
  /\ message = Nil /\ err # 0 /\ capacity # 0
  /\ message' = Reads(step, FALSE)
  /\ CloseAll
  /\ UNCHANGED <<step, ops, arena, queried, err>>

(* The error handler writes its note over the end of the text, sends it    *)
(* and frees everything.  Without an arena it faults.  The note may cover  *)
(* a terminating character that stands close to the end of the text.       *)
ErrorHandler ==
  /\ message = Nil /\ err # 0 /\ capacity # 0
  /\ \/ message' = Reads(step, TRUE)
     \/ /\ cut # Nil /\ cut >= step - 1
        /\ message' = [steps |-> step, note |-> TRUE]
  /\ CloseAll
  /\ UNCHANGED <<step, ops, arena, queried, err>>

Next ==
  \/ ArenaAppend \/ ArenaAllocate \/ RewindArena
  \/ OpenHandle \/ CloseDirectly \/ DeferHandle \/ IgnorePopDefer \/ PopDefer \/ PopDeferAll
  \/ Return \/ Finish \/ ErrorHandler

Spec == Init /\ [][Next]_vars

-----------------------------------------------------------------------------
(* The comment on clog_Defer: "We can skip several layers of stack frames, *)
(* so we need to keep track of open handles apart from normal control      *)
(* flow".  Every handle is closed when its collector means to close it and *)
(* once only, although collectors return with handles still deferred, and  *)
(* although clog_PopDeferAll closes those of others as well; and the stack *)
(* is deep enough for every path.  The exception is a session of who whose *)
(* query failed: who_GetSessions does not look at the result, and frees    *)
(* what it freed in the round before, or a pointer nobody set.             *)
HandlesMatch == misuse \subseteq {"session"} /\ err # 2

(* What the running step holds without having deferred it.                 *)
Undeferred ==
  CASE step = Steps -> {}
    [] Program[step + 1] \in {"ipconfig", "winroute"} -> {"read", "write", "process", "thread"}
    [] Program[step + 1] = "eventlog" -> {"event1", "event2"}
    [] OTHER -> {}

(* When clientlog has returned nothing is left open, unless it was left by *)
(* the long jump: then only the process query, and what a running command  *)
(* or an event batch had not deferred, is lost.                            *)
NothingLeftOpen ==
  message # Nil =>
    open \subseteq IF err = 0 THEN {} ELSE {"query", "event"} \cup Undeferred

(* What these allocate is given up when they return.                       *)
Scratch == {"diskinfo", "runningservices", "applications", "certificates"}

(* Text is written behind a terminating character, and lost to the reader, *)
(* only behind a collector that gave up memory when it returned; behind    *)
(* any other, a text that fitted exactly makes the next append jump.       *)
CutOnlyBehindScratch == cut # Nil => Program[cut] \in Scratch

Display == INSTANCE ClientMessage WITH written <- step, lost <- cut

(* clientlog hands over one message per call, with the steps in their      *)
(* order, and says so when it had to give up.                              *)
OneMessage == Display!Spec

=============================================================================
