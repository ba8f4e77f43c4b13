----------------------------- MODULE Collectors -----------------------------
(***************************************************************************)
(* What the collectors of the client log do to the arena and to handles.   *)
(* A collector is the set of the operation sequences it may perform, one   *)
(* for each way through its code: which Windows calls succeed, and how     *)
(* often its loops go round.  Consecutive appends are one append, and      *)
(* consecutive allocations one allocation, of any size.  What the text     *)
(* says is left out.                                                       *)
(***************************************************************************)
EXTENDS Naturals, Sequences

None == "none"  \* a handle that was never opened: NULL or indeterminate

Operations ==
  {"append", "alloc", "rewind", "popall", "ignore", "open", "close", "defer", "pop"}

Handles == {None} \cup
  {"key", "sessions", "session", "phys", "pagefile", "read", "write", "process", "thread",
   "tcp4", "tcp6", "udp4", "udp6", "query", "event", "token", "manager", "service", "log",
   "event1", "event2", "context", "publisher", "certificate", "store", "syslog"}

(* One operation, as the set of the single sequence that consists of it.   *)
On(op, h) == {<<[op |-> op, handle |-> h]>>}

Append_ == On("append", None)  \* clog_ArenaAppend
Alloc   == On("alloc", None)   \* clog_ArenaAlloc
Rewind  == On("rewind", None)  \* a copy of the arena is given up
PopAll  == On("popall", None)  \* clog_PopDeferAll
Ignore  == On("ignore", None)  \* clog_IgnorePopDefer
Open(h)  == On("open", h)      \* a Windows call hands out a handle
Close(h) == On("close", h)     \* the collector closes it itself
Defer(h) == On("defer", h)     \* clog_Defer
Pop(h)   == On("pop", h)       \* clog_PopDefer, meant to close h

(* The sequences of A followed by those of B.                              *)
A ** B == {a \o b : a \in A, b \in B}

Opt(A) == {<<>>} \cup A

(* A loop goes round at most twice.                                        *)
Few(A) == Opt(A) \cup (A ** A)

(* Opened and at once deferred; what failed to open is deferred as well.   *)
Tracked(h) == Open(h) ** Defer(h)
Untracked(h) == Open(h) ** Close(h)

-----------------------------------------------------------------------------
osversion == Opt(Untracked("key")) ** Append_

bios ==
  (Append_ ** Defer(None) ** Append_) \cup (Append_ ** Tracked("key") ** Append_ ** PopAll)

(* The query of a session is not checked: when it fails, the pointer holds *)
(* what the round before left, and that is freed once more.                *)
Session == Untracked("session") \cup Close("session")

who == Opt(Open("sessions") ** Few(Session) ** Close("sessions")) ** Append_

AddVolumesToDisks == Few(Alloc ** Opt(Untracked("phys")))

diskinfo ==
  Opt(Untracked("key")) ** AddVolumesToDisks ** Append_
    ** Few(Tracked("phys") ** Alloc ** Opt(Append_) ** Pop("phys"))

winmemory == Opt(Untracked("pagefile")) ** Append_

RunCmdSynchronously ==
  LET Pipe == Open("read") ** Open("write")
      Child == Pipe ** Open("process") ** Open("thread") ** Close("write")
      CloseChild == Close("process") ** Close("thread") ** Close("read")
  IN Append_                                                   \* no pipe
       \cup (Pipe ** Append_ ** Close("read") ** Close("write"))
       \cup (Pipe ** Close("write") ** Append_ ** Close("read"))
       \cup (Child ** Append_ ** CloseChild)   \* its output, or too slow
       \cup (Child ** CloseChild ** Append_)   \* (No output)

ipconfig == Append_ ** RunCmdSynchronously

winroute == Append_ ** RunCmdSynchronously

(* A table that cannot be allocated is deferred as NULL.                   *)
GetConnectionTable(t) == {<<>>} \cup Defer(None) \cup Tracked(t)

winports ==
  GetConnectionTable("tcp4") ** GetConnectionTable("tcp6") ** GetConnectionTable("udp4")
    ** GetConnectionTable("udp6") ** Append_ ** PopAll ** Opt(Append_)

StartQueryFails ==
  LET NotAdded == Close("query") \cup (Open("event") ** Close("query") ** Close("event"))
  IN Alloc ** Opt(Open("query") ** NotAdded)

(* Neither the query nor its event is deferred: they outlive collectors    *)
(* that close everything deferred.                                         *)
StartQueryDefers == StartQueryFails \cup (Alloc ** Tracked("query") ** Open("event"))

StartQuery == StartQueryFails \cup (Alloc ** Open("query") ** Open("event"))

GetProcessUser ==
  Defer(None)
    \cup Tracked("process")
    \cup (Tracked("process") ** Tracked("token") ** Opt(Alloc))

AwaitSummarizeQuery ==
  Close("event") ** Opt(Alloc ** Few(Alloc ** GetProcessUser ** PopAll)) ** Close("query")

EndAppendQuery ==
  AwaitSummarizeQuery
    ** (Append_ \cup (Append_ ** Alloc ** Append_ ** Alloc ** Append_ ** Alloc ** Append_))

(* The same when StartQuery failed: only the error is appended.            *)
EndFailedQuery == Append_

runningservices ==
  LET Service == Tracked("service") ** Opt(Append_) ** Pop("service")
      Refused == Defer(None) ** Opt(Append_) ** Pop(None)
  IN (Defer(None) ** Alloc ** Append_)
       \cup (Tracked("manager") ** Alloc ** Append_ ** Few(Service \cup Refused))

GetEventData == Opt(Open("context") ** Opt(Untracked("publisher")) ** Close("context"))

(* One of the three channels.  EvtNext opens all the events of a batch;    *)
(* each is deferred when its turn comes.                                   *)
eventlog ==
  LET Event(e) == GetEventData ** Defer(e) ** Append_ ** Pop(e)
      Log == Append_ ** Tracked("log")
  IN (Append_ ** Defer(None) ** Append_ ** Pop(None))
       \cup (Log ** Append_ ** Pop("log"))
       \cup (Log ** Open("event1") ** Append_ ** Event("event1") ** Pop("log"))
       \cup (Log ** Open("event1") ** Open("event2") ** Append_
                 ** Event("event1") ** Event("event2") ** Pop("log"))

InsertApplications == Opt(Tracked("key") ** Few(Alloc))

applications == InsertApplications ** PopAll ** InsertApplications ** PopAll ** Append_

(* The next round of the enumeration frees the certificate of the last.    *)
Certificate == Tracked("certificate") ** Alloc ** Append_ ** Ignore ** Close("certificate")

certificates ==
  (Append_ ** Defer(None) ** Append_)
    \cup (Append_ ** Tracked("store")
              ** (Append_ \cup Certificate \cup (Certificate ** Certificate)))

LoadEvents == Alloc ** Opt(Alloc)

(* The copy of the arena is rewound after every batch and given up when    *)
(* the function returns.                                                   *)
RecentReboots == Opt(Tracked("syslog")) ** Few(LoadEvents ** Rewind) ** LoadEvents ** Rewind

reboots == RecentReboots ** PopAll ** Append_

date == Append_
winuptime == Append_
clientversion == Append_
clock == Append_

=============================================================================
