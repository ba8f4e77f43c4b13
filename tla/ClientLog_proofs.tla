-------------------------- MODULE ClientLog_proofs --------------------------
(***************************************************************************)
(* Proofs about the client log, for arenas, texts and allocations of any   *)
(* size: text and allocations never meet, a collector pops only what is on *)
(* the stack, every handle is closed once and at its time and none is left *)
(* open, text is lost to the reader only behind a collector that gave up   *)
(* memory, and a call hands over the one message ClientMessage promises.   *)
(* What a proof needs of a collector it gets from the way its set of paths *)
(* is put together, one lemma for each way.                                *)
(***************************************************************************)
EXTENDS ClientLog, SequenceTheorems, FiniteSetTheorems, TLAPS

(* The operations that leave the arena's right end alone.                  *)
Tame == Operations \ {"alloc", "rewind"}

(* Every path of A consists of operations of these kinds.                  *)
Uses(A, kinds) == A \subseteq Seq([op : kinds, handle : Handles])

LEMMA HandleNames ==
  /\ {None, "key", "sessions", "session", "phys", "pagefile"} \subseteq Handles
  /\ {"read", "write", "process", "thread", "tcp4", "tcp6", "udp4", "udp6"} \subseteq Handles
  /\ {"query", "event", "token", "manager", "service", "log", "event1"} \subseteq Handles
  /\ {"event2", "context", "publisher", "certificate", "store", "syslog"} \subseteq Handles
BY Zenon DEF Handles

LEMMA ElementIn ==
  ASSUME NEW S, NEW s \in Seq(S), NEW i \in 1..Len(s)
  PROVE  s[i] \in S
OBVIOUS

LEMMA LastOfThen ==
  ASSUME NEW S, NEW a \in Seq(S), NEW b \in Seq(S), Len(b) = 1
  PROVE  /\ Len(a \o b) = Len(a) + 1
         /\ (a \o b)[Len(a) + 1] = b[1]
         /\ \A i \in 1..Len(a) : (a \o b)[i] = a[i]
<1>1. Len(a \o b) = Len(a) + 1
  <2>1. Len(a \o b) = Len(a) + Len(b)
    BY ConcatProperties
  <2>2. QED BY <2>1
<1>2. Len(a) \in Nat
  OBVIOUS
<1>3. (a \o b)[Len(a) + 1] = b[1]
  BY <1>1, <1>2, ConcatProperties
<1>4. \A i \in 1..Len(a) : (a \o b)[i] = a[i]
  OBVIOUS
<1>5. QED BY <1>1, <1>3, <1>4

LEMMA UsesMore ==
  ASSUME NEW A, NEW J, NEW K, J \subseteq K, Uses(A, J)
  PROVE  Uses(A, K)
<1>1. [op : J, handle : Handles] \subseteq [op : K, handle : Handles]
  OBVIOUS
<1>2. ASSUME NEW S, NEW T, S \subseteq T PROVE Seq(S) \subseteq Seq(T)
  BY <1>2
<1>3. QED BY <1>1, <1>2 DEF Uses

LEMMA UsesOn ==
  ASSUME NEW op, NEW h \in Handles, NEW K, op \in K
  PROVE  Uses(On(op, h), K)
BY DEF Uses, On

LEMMA ThenParts ==
  ASSUME NEW A, NEW B, NEW c \in A ** B
  PROVE  \E a \in A, b \in B : c = a \o b
BY DEF **

LEMMA UsesThen ==
  ASSUME NEW A, NEW B, NEW K, Uses(A, K), Uses(B, K)
  PROVE  Uses(A ** B, K)
<1> SUFFICES ASSUME NEW c \in A ** B PROVE c \in Seq([op : K, handle : Handles])
  BY DEF Uses
<1>1. PICK a \in A, b \in B : c = a \o b
  BY ThenParts
<1>2. a \in Seq([op : K, handle : Handles]) /\ b \in Seq([op : K, handle : Handles])
  BY DEF Uses
<1>3. QED BY <1>1, <1>2

LEMMA UsesOr ==
  ASSUME NEW A, NEW B, NEW K, Uses(A, K), Uses(B, K)
  PROVE  Uses(A \cup B, K)
BY DEF Uses

LEMMA UsesNothing == ASSUME NEW K PROVE Uses({<<>>}, K)
<1>1. <<>> \in Seq([op : K, handle : Handles])
  OBVIOUS
<1>2. QED BY <1>1 DEF Uses

LEMMA UsesOpt ==
  ASSUME NEW A, NEW K, Uses(A, K)
  PROVE  Uses(Opt(A), K)
BY UsesNothing, UsesOr DEF Opt

LEMMA UsesFew ==
  ASSUME NEW A, NEW K, Uses(A, K)
  PROVE  Uses(Few(A), K)
<1>1. Uses(Opt(A), K) /\ Uses(A ** A, K)
  BY UsesOpt, UsesThen
<1>2. QED BY <1>1, UsesOr DEF Few

LEMMA UsesCombined ==
  ASSUME NEW K
  PROVE  /\ \A A, B : Uses(A, K) /\ Uses(B, K) => Uses(A ** B, K) /\ Uses(A \cup B, K)
         /\ \A A : Uses(A, K) => Uses(Opt(A), K) /\ Uses(Few(A), K)
BY UsesThen, UsesOr, UsesOpt, UsesFew

LEMMA UsesOps ==
  ASSUME NEW K, Tame \ {"pop"} \subseteq K
  PROVE  /\ Uses(Append_, K) /\ Uses(PopAll, K) /\ Uses(Ignore, K)
         /\ \A h \in Handles : Uses(Open(h), K) /\ Uses(Close(h), K) /\ Uses(Defer(h), K)
         /\ \A h \in Handles : Uses(Tracked(h), K) /\ Uses(Untracked(h), K)
         /\ "pop" \in K => \A h \in Handles : Uses(Pop(h), K)
         /\ "alloc" \in K => Uses(Alloc, K)
         /\ "rewind" \in K => Uses(Rewind, K)
<1>1. None \in Handles
  BY HandleNames
<1>2. {"append", "popall", "ignore", "open", "close", "defer"} \subseteq K
  BY DEF Tame, Operations
<1>3. Uses(Append_, K) /\ Uses(PopAll, K) /\ Uses(Ignore, K)
  BY <1>1, <1>2, UsesOn DEF Append_, PopAll, Ignore
<1>4. \A h \in Handles : Uses(Open(h), K) /\ Uses(Close(h), K) /\ Uses(Defer(h), K)
  BY <1>2, UsesOn DEF Open, Close, Defer
<1>5. "pop" \in K => \A h \in Handles : Uses(Pop(h), K)
  BY UsesOn DEF Pop
<1>6. \A h \in Handles : Uses(Tracked(h), K) /\ Uses(Untracked(h), K)
  BY <1>4, UsesThen DEF Tracked, Untracked
<1>7. ("alloc" \in K => Uses(Alloc, K)) /\ ("rewind" \in K => Uses(Rewind, K))
  BY <1>1, UsesOn DEF Alloc, Rewind
<1>8. QED BY <1>3, <1>4, <1>5, <1>6, <1>7

-----------------------------------------------------------------------------
(* What the collectors are built from.  Quiet ones leave the arena's right *)
(* end alone; those that allocate for a while never rewind.                *)
Allocating == Operations \ {"rewind"}
Mute == Operations \ {"append", "rewind"}

QuietNames ==
  {"text", "date", "osversion", "winuptime", "bios", "who", "winmemory", "ipconfig", "winroute",
   "winports", "eventlog", "clientversion", "clock"}

Names == QuietNames \cup ByReference \cup Scratch \cup {"reboots"}

(* The operations a step of this name may still do.                        *)
KindsOf(name) ==
  CASE name = "StartQuery" -> Mute
    [] name \in Scratch \cup {"EndAppendQuery"} -> Allocating
    [] name = "reboots" -> Operations
    [] OTHER -> Tame

(* Most collectors only append, and open and close handles.                *)
LEMMA PlainCollectors ==
  ASSUME NEW K, Tame \ {"pop"} \subseteq K
  PROVE  /\ Uses(Append_, K) /\ Uses(osversion, K) /\ Uses(bios, K) /\ Uses(who, K)
         /\ Uses(winmemory, K) /\ Uses(ipconfig, K) /\ Uses(winroute, K)
         /\ Uses(winports, K) /\ Uses(GetEventData, K) /\ Uses(EndFailedQuery, K)
<1>1. Uses(Append_, K) /\ Uses(osversion, K) /\ Uses(winmemory, K) /\ Uses(EndFailedQuery, K)
  BY UsesOps, HandleNames, UsesCombined DEF osversion, winmemory, EndFailedQuery
<1>2. Uses(bios, K)
  BY UsesOps, HandleNames, UsesCombined DEF bios
<1>3. Uses(who, K)
  BY UsesOps, HandleNames, UsesCombined DEF who, Session
<1>4. Uses(RunCmdSynchronously, K)
  BY UsesOps, HandleNames, UsesCombined DEF RunCmdSynchronously
<1>5. Uses(ipconfig, K) /\ Uses(winroute, K)
  BY <1>1, <1>4, UsesCombined DEF ipconfig, winroute
<1>6. \A t \in Handles : Uses(GetConnectionTable(t), K)
  BY UsesOps, HandleNames, UsesCombined, UsesNothing DEF GetConnectionTable
<1>7. Uses(winports, K)
  BY <1>6, UsesOps, HandleNames, UsesCombined DEF winports
<1>8. Uses(GetEventData, K)
  BY UsesOps, HandleNames, UsesCombined DEF GetEventData
<1>9. QED BY <1>1, <1>2, <1>3, <1>5, <1>7, <1>8

(* Others allocate as well.                                                *)
LEMMA AllocatingCollectors ==
  ASSUME NEW K, Tame \ {"pop"} \subseteq K, "alloc" \in K
  PROVE  /\ Uses(EndAppendQuery, K) /\ Uses(applications, K) /\ Uses(certificates, K)
         /\ Uses(AddVolumesToDisks, K) /\ Uses(LoadEvents, K)
<1>1. Uses(AddVolumesToDisks, K) /\ Uses(LoadEvents, K)
  BY UsesOps, HandleNames, UsesCombined DEF AddVolumesToDisks, LoadEvents
<1>2. Uses(GetProcessUser, K)
  BY UsesOps, HandleNames, UsesCombined DEF GetProcessUser
<1>3. Uses(AwaitSummarizeQuery, K)
  BY <1>2, UsesOps, HandleNames, UsesCombined DEF AwaitSummarizeQuery
<1>4. Uses(EndAppendQuery, K)
  BY <1>3, UsesOps, UsesCombined DEF EndAppendQuery
<1>5. Uses(applications, K)
  BY UsesOps, HandleNames, UsesCombined DEF applications, InsertApplications
<1>6. Uses(certificates, K)
  BY UsesOps, HandleNames, UsesCombined DEF certificates, Certificate
<1>7. QED BY <1>1, <1>4, <1>5, <1>6

(* The three that pop what they deferred.                                  *)
LEMMA PoppingOps ==
  /\ Uses(diskinfo, Allocating) /\ Uses(runningservices, Allocating)
  /\ Uses(eventlog, Tame)
<1>1. Uses(diskinfo, Allocating) /\ Uses(runningservices, Allocating)
  <2>1. Tame \ {"pop"} \subseteq Allocating /\ {"pop", "alloc"} \subseteq Allocating
    BY DEF Tame, Allocating, Operations
  <2>2. Uses(diskinfo, Allocating)
    BY <2>1, AllocatingCollectors, UsesOps, HandleNames, UsesCombined DEF diskinfo
  <2>3. Uses(runningservices, Allocating)
    BY <2>1, UsesOps, HandleNames, UsesCombined DEF runningservices
  <2>4. QED BY <2>2, <2>3
<1>2. Uses(eventlog, Tame)
  <2>1. "pop" \in Tame
    BY DEF Tame, Operations
  <2>2. QED
    BY <2>1, PlainCollectors, UsesOps, HandleNames, UsesCombined DEF eventlog
<1>3. QED BY <1>1, <1>2

LEMMA MuteCollector == Uses(StartQuery, Mute \ {"pop"})
<1>1. {"alloc", "open", "close", "defer"} \subseteq Mute \ {"pop"}
  BY DEF Mute, Operations
<1>2. Uses(Alloc, Mute \ {"pop"})
  BY <1>1, HandleNames, UsesOn DEF Alloc
<1>3. \A h \in Handles : Uses(Open(h), Mute \ {"pop"}) /\ Uses(Close(h), Mute \ {"pop"})
  BY <1>1, UsesOn DEF Open, Close
<1>4. QED BY <1>2, <1>3, HandleNames, UsesCombined DEF StartQuery, StartQueryFails

-----------------------------------------------------------------------------
(* The operation stands somewhere in s.                                    *)
Has(s, op) == \E i \in 1..Len(s) : s[i].op = op

(* Whatever is allocated is given up before the end of s.                  *)
Covered(s) ==
  \A i \in 1..Len(s) : s[i].op = "alloc" => \E j \in i+1..Len(s) : s[j].op = "rewind"

(* Such paths append nothing and leave nothing allocated.                  *)
Silent == Operations \ {"append"}
Recovers(A) == Uses(A, Silent) /\ \A s \in A : Covered(s)

LEMMA OneOperation ==
  ASSUME NEW op \in Operations, NEW h \in Handles, NEW s \in On(op, h)
  PROVE  Len(s) = 1 /\ s[1].op = op
BY DEF On

LEMMA RecoversThen ==
  ASSUME NEW A, NEW B, Recovers(A), Recovers(B)
  PROVE  Recovers(A ** B)
<1>1. Uses(A ** B, Silent)
  BY UsesThen DEF Recovers
<1>2. SUFFICES ASSUME NEW c \in A ** B PROVE Covered(c)
  BY <1>1 DEF Recovers
<1>3. PICK a \in A, b \in B : c = a \o b
  BY ThenParts
<1>4. a \in Seq([op : Silent, handle : Handles]) /\ b \in Seq([op : Silent, handle : Handles])
  BY DEF Recovers, Uses
<1>5. SUFFICES ASSUME NEW i \in 1..Len(c), c[i].op = "alloc"
               PROVE  \E j \in i+1..Len(c) : c[j].op = "rewind"
  BY DEF Covered
<1>6. CASE i \in 1..Len(a)
  <2>1. a[i].op = "alloc"
    BY <1>3, <1>4, <1>5, <1>6
  <2>2. PICK j \in i+1..Len(a) : a[j].op = "rewind"
    BY <1>6, <2>1 DEF Recovers, Covered
  <2>3. j \in i+1..Len(c) /\ c[j].op = "rewind"
    BY <1>3, <1>4, <1>6, <2>2
  <2>4. QED BY <2>3
<1>7. CASE i \in Len(a)+1..Len(c)
  <2> DEFINE k == i - Len(a)
  <2>1. k \in 1..Len(b) /\ b[k].op = "alloc"
    BY <1>3, <1>4, <1>5, <1>7
  <2>2. PICK j \in k+1..Len(b) : b[j].op = "rewind"
    BY <2>1 DEF Recovers, Covered
  <2>3. j + Len(a) \in i+1..Len(c) /\ c[j + Len(a)].op = "rewind"
    BY <1>3, <1>4, <1>7, <2>2
  <2>4. QED BY <2>3
<1>8. QED
  BY <1>3, <1>4, <1>6, <1>7

LEMMA RecoversChoice ==
  /\ \A A, B : Recovers(A) /\ Recovers(B) => Recovers(A \cup B)
  /\ \A A : Recovers(A) => Recovers(Opt(A)) /\ Recovers(Few(A))
<1>1. ASSUME NEW A, NEW B, Recovers(A), Recovers(B) PROVE Recovers(A \cup B)
  BY <1>1, UsesOr DEF Recovers
<1>2. Recovers({<<>>})
  <2>1. \A s \in {<<>>} : Covered(s)
    BY DEF Covered
  <2>2. QED BY <2>1, UsesNothing DEF Recovers
<1>3. ASSUME NEW A, Recovers(A) PROVE Recovers(Opt(A))
  BY <1>1, <1>2, <1>3 DEF Opt
<1>4. ASSUME NEW A, Recovers(A) PROVE Recovers(Few(A))
  BY <1>1, <1>3, <1>4, RecoversThen DEF Few
<1>5. QED BY <1>1, <1>3, <1>4

(* Operations that allocate nothing recover; so does anything silent that  *)
(* ends with a rewind.                                                     *)
LEMMA RecoversTame ==
  ASSUME NEW A, Uses(A, Silent \ {"alloc"})
  PROVE  Recovers(A)
<1>1. Uses(A, Silent)
  BY UsesMore
<1>2. ASSUME NEW s \in A, NEW i \in 1..Len(s) PROVE s[i].op # "alloc"
  <2>1. s \in Seq([op : Silent \ {"alloc"}, handle : Handles])
    BY DEF Uses
  <2>2. s[i] \in [op : Silent \ {"alloc"}, handle : Handles]
    BY <2>1, ElementIn
  <2>3. QED BY <2>2
<1>3. QED BY <1>1, <1>2 DEF Recovers, Covered

LEMMA RecoversRewind ==
  ASSUME NEW A, Uses(A, Silent)
  PROVE  Recovers(A ** Rewind)
<1>1. "rewind" \in Silent /\ "rewind" \in Operations
  BY DEF Silent, Operations
<1>2. Uses(Rewind, Silent)
  BY <1>1, HandleNames, UsesOn DEF Rewind
<1>3. Uses(A ** Rewind, Silent)
  BY <1>2, UsesThen
<1>4. SUFFICES ASSUME NEW c \in A ** Rewind PROVE Covered(c)
  BY <1>3 DEF Recovers
<1>5. PICK a \in A, b \in Rewind : c = a \o b
  BY ThenParts
<1>6. Len(b) = 1 /\ b[1].op = "rewind"
  BY <1>1, HandleNames, OneOperation DEF Rewind
<1>7. a \in Seq([op : Silent, handle : Handles]) /\ b \in Seq([op : Silent, handle : Handles])
  BY <1>2 DEF Uses
<1>8. Len(c) = Len(a) + 1 /\ c[Len(c)].op = "rewind"
  <2>1. Len(c) = Len(a) + 1 /\ c[Len(a) + 1] = b[1]
    BY <1>5, <1>6, <1>7, LastOfThen
  <2>2. QED BY <1>6, <2>1
<1>9. \A i \in 1..Len(c) : c[i].op = "alloc" => Len(c) \in i+1..Len(c)
  BY <1>7, <1>8
<1>10. QED BY <1>8, <1>9 DEF Covered

(* The only append of reboots is its last operation.                       *)
RebootShape(s) ==
  /\ Covered(s)
  /\ \A i \in 1..Len(s) : s[i].op = "append" => i = Len(s)

LEMMA SilentOps ==
  /\ {"alloc", "rewind", "open", "defer", "popall"} \subseteq Silent
  /\ {"open", "defer", "popall"} \subseteq Silent \ {"alloc"}
BY DEF Silent, Operations

LEMMA RebootPaths ==
  /\ Uses(reboots, Operations)
  /\ \A s \in reboots : RebootShape(s)
<1>1. Recovers(Opt(Tracked("syslog")))
  <2>1. \A h \in Handles : Recovers(Open(h)) /\ Recovers(Defer(h))
    BY SilentOps, UsesOn, RecoversTame DEF Open, Defer
  <2>2. QED BY <2>1, HandleNames, RecoversThen, RecoversChoice DEF Tracked
<1>2. Recovers(LoadEvents ** Rewind)
  <2>1. Uses(Alloc, Silent)
    BY SilentOps, HandleNames, UsesOn DEF Alloc
  <2>2. QED BY <2>1, UsesCombined, RecoversRewind DEF LoadEvents
<1>3. Recovers(RecentReboots ** PopAll)
  <2>1. Uses(LoadEvents, Silent)
    BY SilentOps, HandleNames, UsesOn, UsesCombined DEF Alloc, LoadEvents
  <2>2. Recovers(Opt(Tracked("syslog")) ** Few(LoadEvents ** Rewind))
    BY <1>1, <1>2, RecoversThen, RecoversChoice
  <2>3. Recovers(RecentReboots)
    BY <2>1, <2>2, UsesCombined, RecoversRewind DEF RecentReboots, Recovers
  <2>4. Recovers(PopAll)
    BY SilentOps, HandleNames, UsesOn, RecoversTame DEF PopAll
  <2>5. QED BY <2>3, <2>4, RecoversThen
<1>4. Uses(RecentReboots ** PopAll, Operations)
  BY <1>3, UsesMore DEF Recovers, Silent
<1>5. "append" \in Operations
  BY DEF Operations
<1>6. Uses(Append_, Operations)
  BY <1>5, HandleNames, UsesOn DEF Append_
<1>7. Uses(reboots, Operations)
  BY <1>4, <1>6, UsesThen DEF reboots
<1>8. ASSUME NEW s \in reboots PROVE RebootShape(s)
  <2>1. PICK a \in RecentReboots ** PopAll, b \in Append_ : s = a \o b
    BY ThenParts DEF reboots
  <2>2. Len(b) = 1 /\ b[1].op = "append"
    BY <1>5, HandleNames, OneOperation DEF Append_
  <2>3. /\ a \in Seq([op : Operations, handle : Handles])
        /\ b \in Seq([op : Operations, handle : Handles])
    BY <1>4, <1>6 DEF Uses
  <2>4. /\ Len(s) = Len(a) + 1 /\ s[Len(s)].op = "append"
        /\ \A i \in 1..Len(a) : s[i] = a[i]
    <3>1. Len(s) = Len(a) + 1 /\ s[Len(a) + 1] = b[1]
      BY <2>1, <2>2, <2>3, LastOfThen
    <3>2. \A i \in 1..Len(a) : s[i] = a[i]
      BY <2>1, <2>2, <2>3, LastOfThen
    <3>3. QED BY <2>2, <3>1, <3>2
  <2>5. a \in Seq([op : Silent, handle : Handles]) /\ Covered(a)
    BY <1>3 DEF Recovers, Uses
  <2>6. \A i \in 1..Len(a) : a[i].op # "append"
    <3>1. \A i \in 1..Len(a) : a[i] \in [op : Silent, handle : Handles]
      BY <2>5, ElementIn
    <3>2. QED BY <3>1 DEF Silent
  <2>7. Covered(s)
    <3>1. SUFFICES ASSUME NEW i \in 1..Len(s), s[i].op = "alloc"
                   PROVE  \E j \in i+1..Len(s) : s[j].op = "rewind"
      BY DEF Covered
    <3>2. i \in 1..Len(a) /\ a[i].op = "alloc"
      BY <2>3, <2>4, <3>1
    <3>3. PICK j \in i+1..Len(a) : a[j].op = "rewind"
      BY <2>5, <3>2 DEF Covered
    <3>4. j \in i+1..Len(s) /\ s[j].op = "rewind"
      BY <2>3, <2>4, <3>2, <3>3
    <3>5. QED BY <3>4
  <2>8. \A i \in 1..Len(s) : s[i].op = "append" => i = Len(s)
    BY <2>3, <2>4, <2>6
  <2>9. QED BY <2>7, <2>8 DEF RebootShape
<1>9. QED BY <1>7, <1>8

-----------------------------------------------------------------------------
(* Every path of A appends.                                                *)
Appends(A) == \A s \in A : Has(s, "append")

LEMMA AppendsThen ==
  ASSUME NEW A, NEW B, Uses(A, Operations), Uses(B, Operations),
         Appends(A) \/ Appends(B)
  PROVE  Appends(A ** B)
<1>1. SUFFICES ASSUME NEW c \in A ** B PROVE Has(c, "append")
  BY DEF Appends
<1>2. PICK a \in A, b \in B : c = a \o b
  BY ThenParts
<1>3. /\ a \in Seq([op : Operations, handle : Handles])
      /\ b \in Seq([op : Operations, handle : Handles])
  BY DEF Uses
<1>4. CASE Appends(A)
  <2>1. PICK i \in 1..Len(a) : a[i].op = "append"
    BY <1>4 DEF Appends, Has
  <2>2. i \in 1..Len(c) /\ c[i] = a[i]
    BY <1>2, <1>3
  <2>3. QED BY <2>1, <2>2 DEF Has
<1>5. CASE Appends(B)
  <2>1. PICK i \in 1..Len(b) : b[i].op = "append"
    BY <1>5 DEF Appends, Has
  <2>2. Len(a) + i \in 1..Len(c) /\ c[Len(a) + i] = b[i]
    BY <1>2, <1>3
  <2>3. QED BY <2>1, <2>2 DEF Has
<1>6. QED BY <1>4, <1>5

LEMMA AppendsAlways ==
  Appends(Append_) /\ Appends(eventlog) /\ Appends(reboots)
<1>1. {"append", "pop"} \subseteq Operations /\ Tame \subseteq Operations
  BY DEF Operations, Tame
<1>2. Appends(Append_)
  <2>1. ASSUME NEW s \in Append_ PROVE Len(s) = 1 /\ s[1].op = "append"
    BY <1>1, HandleNames, OneOperation DEF Append_
  <2>2. QED BY <2>1 DEF Appends, Has
<1>3. Uses(GetEventData, Operations)
  BY <1>1, PlainCollectors
<1>4. \A A, B : Appends(A) /\ Appends(B) => Appends(A \cup B)
  BY DEF Appends
<1>5. \A A, B : Uses(A, Operations) /\ Uses(B, Operations) /\ (Appends(A) \/ Appends(B))
        => Appends(A ** B) /\ Uses(A ** B, Operations)
  BY AppendsThen, UsesThen
<1>6. Appends(eventlog)
  BY <1>1, <1>2, <1>3, <1>4, <1>5, UsesOps, HandleNames, UsesCombined DEF eventlog
<1>7. Appends(reboots)
  <2>1. {"alloc", "rewind"} \subseteq Operations
    BY DEF Operations
  <2>2. Uses(RecentReboots ** PopAll, Operations) /\ Uses(Append_, Operations)
    BY <1>1, <2>1, AllocatingCollectors, UsesOps, HandleNames, UsesCombined DEF RecentReboots
  <2>3. QED BY <1>2, <1>5, <2>2 DEF reboots
<1>8. QED BY <1>2, <1>6, <1>7

-----------------------------------------------------------------------------
(* What follows from the program: its length, its names, and that a step   *)
(* that gives up memory is followed by one that appends.                   *)
LEMMA ProgramFacts ==
  /\ Steps = 35
  /\ Program[1] = "StartQuery"
  /\ \A k \in 1..35 : Program[k] \in Names /\ (Program[k] = "StartQuery" => k = 1)
  /\ \A k \in 1..35 :
       Program[k] \in Scratch => k < 35 /\ Program[k + 1] \in {"text", "eventlog", "reboots"}
<1>1. Steps = 35
  BY DEF Steps, Program
<1>2. Program[1] = "StartQuery"
  BY DEF Program
<1>3. ASSUME NEW k \in 1..35
      PROVE  Program[k] \in Names /\ (Program[k] = "StartQuery" => k = 1)
  BY DEF Program, Names, QuietNames, ByReference, Scratch
<1>4. ASSUME NEW k \in 1..35, Program[k] \in Scratch
      PROVE  k < 35 /\ Program[k + 1] \in {"text", "eventlog", "reboots"}
  BY <1>4 DEF Program, Scratch
<1>5. QED BY <1>1, <1>2, <1>3, <1>4

(* A step begins with a path of the operations it may do; and a step that  *)
(* comes after one that gave up memory appends.                            *)
LEMMA BeginsFacts ==
  ASSUME NEW name \in Names, NEW s \in Begins(name)
  PROVE  /\ s \in Seq([op : KindsOf(name), handle : Handles])
         /\ name = "reboots" => RebootShape(s)
         /\ name \in {"text", "eventlog", "reboots"} => Has(s, "append")
<1>1. ASSUME NEW A, NEW K, Uses(A, K), s \in A
      PROVE  s \in Seq([op : K, handle : Handles])
  BY <1>1 DEF Uses
<1>2. CASE name \in QuietNames
  <2>1. KindsOf(name) = Tame
    BY <1>2 DEF KindsOf, QuietNames, Scratch
  <2>2. Uses(Begins(name), Tame)
    BY <1>2, PlainCollectors, PoppingOps
       DEF QuietNames, Begins, Paths, date, winuptime, clientversion, clock
  <2>3. name \in {"text", "eventlog"} => Has(s, "append")
    BY AppendsAlways DEF Begins, Paths, Appends
  <2>4. QED BY <1>1, <1>2, <2>1, <2>2, <2>3 DEF QuietNames
<1>3. CASE name = "StartQuery"
  <2>1. KindsOf(name) = Mute
    BY <1>3 DEF KindsOf, Scratch
  <2>2. Begins(name) = StartQuery
    BY <1>3 DEF Begins, Paths
  <2>3. Uses(StartQuery, Mute)
    BY MuteCollector, UsesMore
  <2>4. QED BY <1>1, <1>3, <2>1, <2>2, <2>3
<1>4. CASE name \in Scratch \cup {"EndAppendQuery"}
  <2>1. KindsOf(name) = Allocating
    BY <1>4 DEF KindsOf, Scratch
  <2>2. Tame \ {"pop"} \subseteq Allocating /\ "alloc" \in Allocating
    BY DEF Tame, Allocating, Operations
  <2>3. Uses(Begins(name), Allocating)
    BY <1>4, <2>2, PlainCollectors, AllocatingCollectors, PoppingOps DEF Begins, Paths, Scratch
  <2>4. QED BY <1>1, <1>4, <2>1, <2>3 DEF Scratch
<1>5. CASE name = "reboots"
  <2>1. KindsOf(name) = Operations
    BY <1>5 DEF KindsOf, Scratch
  <2>2. Begins(name) = reboots
    BY <1>5 DEF Begins, Paths
  <2>3. QED BY <1>1, <2>1, <2>2, RebootPaths, AppendsAlways DEF Appends
<1>6. QED BY <1>2, <1>3, <1>4, <1>5 DEF Names, ByReference

-----------------------------------------------------------------------------
(* The inductive invariant.                                                *)
Name == Program[step + 1]

(* Text and allocations share the arena without meeting.                   *)
ArenaOK ==
  /\ capacity \in Nat
  /\ current \in Nat /\ end \in Nat /\ base \in Nat
  /\ current <= end /\ end <= base /\ base <= capacity

ProgramOK ==
  /\ step \in 0..Steps
  /\ step < Steps =>
       /\ ops \in Seq([op : KindsOf(Name), handle : Handles])
       /\ Name = "reboots" => RebootShape(ops)
  /\ step = Steps => ops = <<>>

(* Memory is in use at the right end only while a step that may leave some *)
(* there runs, or while reboots still has a rewind to do.                  *)
MayHold ==
  /\ step < Steps
  /\ Name \in Scratch \cup ByReference \/ (Name = "reboots" /\ Has(ops, "rewind"))

HeldInv == end < base => MayHold

(* A step that gave up memory was the last to return, and the next append  *)
(* is still to come.                                                       *)
Freed ==
  step >= 1 /\ step < Steps /\ Program[step] \in Scratch /\ Has(ops, "append")

(* When the last append was full, there is either no room at all, or room  *)
(* was given up since.                                                     *)
FullInv ==
  err = 0 /\ full =>
    /\ step >= 1
    /\ current = end \/ Freed
    /\ Name = "reboots" /\ step < Steps /\ Has(ops, "rewind") => end = base \/ Freed

CutInv == cut # Nil => cut \in 1..Steps /\ Program[cut] \in Scratch

ClientInv == ArenaOK /\ ProgramOK /\ HeldInv /\ FullInv /\ CutInv

LEMMA InitClient == Init => ClientInv
<1> SUFFICES ASSUME Init PROVE ClientInv
  OBVIOUS
<1>1. ArenaOK
  BY CapacityAssumption DEF Init, ArenaOK
<1>2. ProgramOK
  <2>1. ops \in Begins("StartQuery") /\ "StartQuery" \in Names
    BY ProgramFacts DEF Init, Begins, Names, ByReference
  <2>2. ops \in Seq([op : KindsOf("StartQuery"), handle : Handles])
    BY <2>1, BeginsFacts
  <2>3. step = 0 /\ Name = "StartQuery"
    BY ProgramFacts DEF Init, Name
  <2>4. QED BY <2>2, <2>3, ProgramFacts DEF ProgramOK
<1>3. HeldInv /\ FullInv /\ CutInv
  BY CapacityAssumption DEF Init, HeldInv, FullInv, CutInv
<1>4. QED BY <1>1, <1>2, <1>3 DEF ClientInv

(* What a step does to the rest of the operations.                         *)
LEMMA OpDone ==
  ASSUME ProgramOK, NEW op, Does(op)
  PROVE  /\ step < Steps /\ Name \in Names /\ op \in KindsOf(Name)
         /\ step' = step /\ Name' = Name
         /\ ProgramOK'
         /\ \A o : Has(ops', o) => Has(ops, o)
         /\ \A o : o # op /\ Has(ops, o) => Has(ops', o)
         /\ Name = "reboots" /\ op = "alloc" => Has(ops', "rewind")
         /\ Name = "reboots" /\ op = "append" => ops' = <<>>
         /\ Has(ops, op)
<1> DEFINE S == [op : KindsOf(Name), handle : Handles]
<1>1. step \in 0..Steps /\ step # Steps /\ Steps = 35
  BY ProgramFacts DEF ProgramOK, Does
<1>2. step < Steps
  BY <1>1
<1>3. Name \in Names
  BY <1>1, ProgramFacts DEF Name
<1>4. ops \in Seq(S) /\ ops # <<>> /\ ops' = Tail(ops) /\ Head(ops) = ops[1] /\ ops[1].op = op
  BY <1>2 DEF ProgramOK, Does
<1>5. step' = step /\ Name' = Name
  BY DEF Does, Name
<1> HIDE DEF S
<1>6. /\ Len(ops) >= 1 /\ Len(ops) \in Nat /\ Len(ops') = Len(ops) - 1
      /\ ops' \in Seq(S)
      /\ \A i \in 1..Len(ops') : ops'[i] = ops[i + 1]
  BY <1>4
<1>7. op \in KindsOf(Name)
  <2>1. ops[1] \in S
    BY <1>4, <1>6, ElementIn
  <2>2. QED BY <1>4, <2>1 DEF S
<1>8. \A o : Has(ops', o) => Has(ops, o)
  BY <1>6 DEF Has
<1>9. ASSUME NEW o, o # op, Has(ops, o) PROVE Has(ops', o)
  <2>1. PICK i \in 1..Len(ops) : ops[i].op = o
    BY <1>9 DEF Has
  <2>2. i # 1
    BY <1>4, <1>9, <2>1
  <2>3. i - 1 \in 1..Len(ops') /\ ops'[i - 1] = ops[i]
    BY <1>6, <2>2
  <2>4. QED BY <2>1, <2>3 DEF Has
<1>10. ASSUME Name = "reboots"
       PROVE  /\ RebootShape(ops')
              /\ op = "alloc" => Has(ops', "rewind")
              /\ op = "append" => ops' = <<>>
  <2>1. RebootShape(ops)
    BY <1>2, <1>10 DEF ProgramOK
  <2>2. \A i \in 1..Len(ops) : ops[i].op = "append" => i = Len(ops)
    BY <2>1 DEF RebootShape
  <2>3. \A i \in 1..Len(ops) :
          ops[i].op = "alloc" => \E j \in i+1..Len(ops) : ops[j].op = "rewind"
    BY <2>1 DEF RebootShape, Covered
  <2>4. ASSUME NEW i \in 1..Len(ops'), ops'[i].op = "alloc"
        PROVE  \E j \in i+1..Len(ops') : ops'[j].op = "rewind"
    <3>1. i + 1 \in 1..Len(ops) /\ ops[i + 1].op = "alloc"
      BY <1>6, <2>4
    <3>2. PICK j \in i+2..Len(ops) : ops[j].op = "rewind"
      BY <2>3, <3>1
    <3>3. j - 1 \in i+1..Len(ops') /\ ops'[j - 1] = ops[j]
      BY <1>6, <3>2
    <3>4. QED BY <3>2, <3>3
  <2>5. \A i \in 1..Len(ops') : ops'[i].op = "append" => i = Len(ops')
    BY <1>6, <2>2
  <2>6. op = "alloc" => Has(ops', "rewind")
    <3>1. SUFFICES ASSUME op = "alloc" PROVE Has(ops', "rewind")
      OBVIOUS
    <3>2. PICK j \in 2..Len(ops) : ops[j].op = "rewind"
      BY <1>4, <1>6, <2>3, <3>1
    <3>3. j - 1 \in 1..Len(ops') /\ ops'[j - 1] = ops[j]
      BY <1>6, <3>2
    <3>4. QED BY <3>2, <3>3 DEF Has
  <2>7. op = "append" => ops' = <<>>
    <3>1. SUFFICES ASSUME op = "append" PROVE ops' = <<>>
      OBVIOUS
    <3>2. Len(ops') = 0
      <4>1. 1 \in 1..Len(ops) /\ ops[1].op = "append"
        BY <1>4, <1>6, <3>1
      <4>2. Len(ops) = 1
        BY <2>2, <4>1
      <4>3. QED BY <1>6, <4>2
    <3>3. QED BY <1>6, <3>2, EmptySeq
  <2>8. QED BY <2>4, <2>5, <2>6, <2>7 DEF RebootShape, Covered
<1>11. ProgramOK'
  BY <1>1, <1>2, <1>5, <1>6, <1>10, ProgramFacts DEF ProgramOK, S
<1>12. Has(ops, op)
  BY <1>4, <1>6 DEF Has
<1>13. QED BY <1>2, <1>3, <1>5, <1>7, <1>8, <1>9, <1>10, <1>11, <1>12

-----------------------------------------------------------------------------
LEMMA KindFacts ==
  ASSUME NEW name \in Names
  PROVE  /\ "append" \in KindsOf(name) => name # "StartQuery"
         /\ "alloc" \in KindsOf(name) => name \in Scratch \cup ByReference \cup {"reboots"}
         /\ "rewind" \in KindsOf(name) => name = "reboots"
<1>1. /\ "append" \notin Mute /\ "rewind" \notin Mute /\ "rewind" \notin Allocating
      /\ "alloc" \notin Tame /\ "rewind" \notin Tame
  BY DEF Mute, Allocating, Tame
<1>2. "append" \in KindsOf(name) => name # "StartQuery"
  BY <1>1 DEF KindsOf, Scratch
<1>3. CASE name \in QuietNames
  <2>1. KindsOf(name) = Tame
    BY <1>3 DEF KindsOf, QuietNames, Scratch
  <2>2. QED BY <1>1, <1>2, <2>1
<1>4. CASE name \in Scratch \cup ByReference
  <2>1. KindsOf(name) \in {Mute, Allocating}
    BY <1>4 DEF KindsOf, Scratch, ByReference
  <2>2. QED BY <1>1, <1>2, <1>4, <2>1
<1>5. QED BY <1>2, <1>3, <1>4 DEF Names

LEMMA AppendStep == ClientInv /\ ArenaAppend => ClientInv'
<1> SUFFICES ASSUME ClientInv, ArenaAppend PROVE ClientInv'
  OBVIOUS
<1> USE DEF ClientInv
<1>1. Does("append") /\ err = 0
  BY DEF ArenaAppend, Does
<1>2. /\ step < Steps /\ Name \in Names /\ "append" \in KindsOf(Name)
      /\ step' = step /\ Name' = Name /\ ProgramOK'
      /\ \A o : o # "append" /\ Has(ops, o) => Has(ops', o)
      /\ Name = "reboots" => ops' = <<>>
      /\ Has(ops, "append")
  BY <1>1, OpDone
<1>3. UNCHANGED <<capacity, end, base>>
  BY DEF ArenaAppend
<1>4. step >= 1
  <2>1. step = 0 => Name = "StartQuery"
    BY ProgramFacts DEF Name
  <2>2. QED BY <1>2, <2>1, KindFacts DEF ProgramOK
<1>5. PICK written \in Sizes :
        IF written > end - current
        THEN ThrowError(1) /\ UNCHANGED <<current, full, cut>>
        ELSE /\ current' = current + written
             /\ full' = (current + written = end)
             /\ cut' = IF full /\ cut = Nil THEN step ELSE cut
             /\ UNCHANGED err
  BY DEF ArenaAppend
<1>6. written \in Nat \ {0}
  BY CapacityAssumption
<1>7. HeldInv'
  BY <1>2, <1>3 DEF HeldInv, MayHold
<1>8. CASE written > end - current
  <2>1. err' = 1 /\ UNCHANGED <<current, full, cut>>
    BY <1>5, <1>8 DEF ThrowError
  <2>2. QED
    BY <1>2, <1>3, <1>7, <2>1, ProgramFacts DEF ArenaOK, FullInv, CutInv
<1>9. CASE ~(written > end - current)
  <2>1. /\ current' = current + written
        /\ full' = (current + written = end)
        /\ cut' = IF full /\ cut = Nil THEN step ELSE cut
        /\ err' = err
    BY <1>5, <1>9
  <2>2. ArenaOK'
    BY <1>3, <1>6, <1>9, <2>1 DEF ArenaOK
  <2>3. FullInv'
    <3>1. full' => current' = end'
      BY <1>3, <2>1
    <3>2. Name' = "reboots" => ~Has(ops', "rewind")
      <4>1. Len(<<>>) = 0
        OBVIOUS
      <4>2. QED BY <1>2, <4>1 DEF Has
    <3>3. QED BY <1>2, <1>4, <3>1, <3>2 DEF FullInv
  <2>4. CutInv'
    <3>1. CASE full /\ cut = Nil
      <4>1. current # end
        BY <1>6, <1>9 DEF ArenaOK
      <4>2. Freed
        BY <1>1, <3>1, <4>1 DEF FullInv
      <4>3. QED BY <1>2, <1>4, <2>1, <3>1, <4>2 DEF Freed, CutInv, ProgramOK
    <3>2. CASE ~(full /\ cut = Nil)
      BY <1>2, <2>1, <3>2 DEF CutInv
    <3>3. QED BY <3>1, <3>2
  <2>5. QED BY <1>2, <1>7, <2>2, <2>3, <2>4
<1>10. QED BY <1>8, <1>9

LEMMA AllocateStep == ClientInv /\ ArenaAllocate => ClientInv'
<1> SUFFICES ASSUME ClientInv, ArenaAllocate PROVE ClientInv'
  OBVIOUS
<1> USE DEF ClientInv
<1>1. Does("alloc") /\ err = 0
  BY DEF ArenaAllocate, Does
<1>2. /\ step < Steps /\ Name \in Names /\ "alloc" \in KindsOf(Name)
      /\ step' = step /\ Name' = Name /\ ProgramOK'
      /\ \A o : Has(ops', o) => Has(ops, o)
      /\ \A o : o # "alloc" /\ Has(ops, o) => Has(ops', o)
      /\ Name = "reboots" => Has(ops', "rewind")
  BY <1>1, OpDone
<1>3. UNCHANGED <<capacity, current, base, full, cut>>
  BY DEF ArenaAllocate
<1>4. MayHold'
  BY <1>2, KindFacts DEF MayHold
<1>5. PICK size \in Sizes :
        IF size > end - current
        THEN ThrowError(1) /\ UNCHANGED end
        ELSE end' = end - size /\ UNCHANGED err
  BY DEF ArenaAllocate
<1>6. size \in Nat \ {0}
  BY CapacityAssumption
<1>7. CutInv' /\ HeldInv'
  BY <1>2, <1>3, <1>4 DEF CutInv, HeldInv
<1>8. CASE size > end - current
  BY <1>2, <1>3, <1>5, <1>7, <1>8 DEF ThrowError, ArenaOK, FullInv
<1>9. CASE ~(size > end - current)
  <2>1. end' = end - size /\ err' = err /\ current # end
    BY <1>5, <1>6, <1>9 DEF ArenaOK
  <2>2. ArenaOK'
    BY <1>3, <1>6, <1>9, <2>1 DEF ArenaOK
  <2>3. Freed => Freed'
    BY <1>2 DEF Freed
  <2>4. FullInv'
    BY <1>1, <1>2, <1>3, <2>1, <2>3 DEF FullInv
  <2>5. QED BY <1>2, <1>7, <2>2, <2>4
<1>10. QED BY <1>8, <1>9

LEMMA RewindStep == ClientInv /\ RewindArena => ClientInv'
<1> SUFFICES ASSUME ClientInv, RewindArena PROVE ClientInv'
  OBVIOUS
<1> USE DEF ClientInv
<1>1. Does("rewind") /\ err = 0
  BY DEF RewindArena, Does
<1>2. /\ step < Steps /\ Name \in Names /\ "rewind" \in KindsOf(Name)
      /\ step' = step /\ Name' = Name /\ ProgramOK'
      /\ \A o : o # "rewind" /\ Has(ops, o) => Has(ops', o)
      /\ Has(ops, "rewind")
  BY <1>1, OpDone
<1>3. /\ end' = base
      /\ UNCHANGED <<capacity, current, base, full, cut, err>>
  BY DEF RewindArena, handles
<1>4. Name = "reboots"
  BY <1>2, KindFacts
<1>5. ArenaOK' /\ HeldInv' /\ CutInv'
  BY <1>2, <1>3 DEF ArenaOK, HeldInv, CutInv
<1>6. Freed => Freed'
  BY <1>2 DEF Freed
<1>7. FullInv'
  BY <1>1, <1>2, <1>3, <1>4, <1>6 DEF FullInv
<1>8. QED BY <1>2, <1>5, <1>7

LEMMA HandleStep ==
  ClientInv /\ (OpenHandle \/ CloseDirectly \/ DeferHandle \/ IgnorePopDefer \/ PopDefer
                  \/ PopDeferAll)
    => ClientInv'
<1> SUFFICES ASSUME ClientInv,
                    OpenHandle \/ CloseDirectly \/ DeferHandle \/ IgnorePopDefer \/ PopDefer
                      \/ PopDeferAll
             PROVE  ClientInv'
  OBVIOUS
<1> USE DEF ClientInv
<1>1. PICK op \in {"open", "close", "defer", "ignore", "pop", "popall"} :
        Does(op) /\ UNCHANGED arena
  BY DEF OpenHandle, CloseDirectly, DeferHandle, IgnorePopDefer, PopDefer, PopDeferAll
<1>2. err = 0
  BY <1>1 DEF Does
<1>3. /\ step' = step /\ Name' = Name /\ ProgramOK'
      /\ \A o : Has(ops', o) => Has(ops, o)
      /\ \A o \in {"append", "rewind"} : Has(ops, o) => Has(ops', o)
  BY <1>1, OpDone
<1>4. UNCHANGED <<capacity, current, end, base, full, cut>>
  BY <1>1 DEF arena
<1>5. ArenaOK' /\ CutInv'
  BY <1>3, <1>4 DEF ArenaOK, CutInv
<1>6. MayHold => MayHold'
  BY <1>3 DEF MayHold
<1>7. Freed => Freed'
  BY <1>3 DEF Freed
<1>8. HeldInv' /\ FullInv'
  BY <1>2, <1>3, <1>4, <1>6, <1>7 DEF HeldInv, FullInv
<1>9. QED BY <1>3, <1>5, <1>8

LEMMA ReturnStep == ClientInv /\ Return => ClientInv'
<1> SUFFICES ASSUME ClientInv, Return PROVE ClientInv'
  OBVIOUS
<1> USE DEF ClientInv
<1>1. /\ err = 0 /\ ops = <<>> /\ step < Steps /\ step' = step + 1
      /\ ops' \in IF step + 1 < Steps THEN Begins(Program[step + 2]) ELSE {<<>>}
      /\ base' = (IF Name \in ByReference THEN end ELSE base)
      /\ end' = base'
      /\ UNCHANGED <<capacity, current, full, cut, err>>
  BY DEF Return, Name
<1>2. step \in 0..34 /\ Steps = 35 /\ step' \in 1..35
  BY <1>1, ProgramFacts DEF ProgramOK
<1>3. Name' = Program[step + 2] /\ Program[step'] = Name
  BY <1>1, <1>2 DEF Name
<1> DEFINE next == Program[step + 2]
<1>11. step + 1 < 35 => ops' \in Begins(next) /\ next \in Names
  <2>1. SUFFICES ASSUME step + 1 < 35 PROVE ops' \in Begins(next) /\ next \in Names
    OBVIOUS
  <2>2. step + 2 \in 1..35
    BY <1>2, <2>1
  <2>3. next \in Names
    BY <2>2, ProgramFacts
  <2>4. QED BY <1>1, <1>2, <2>1, <2>3
<1> HIDE DEF next
<1>12. Name' = next
  BY <1>3 DEF next
<1>4. ASSUME step + 1 < Steps PROVE ProgramOK'
  <2>1. ops' \in Begins(next) /\ next \in Names
    BY <1>2, <1>4, <1>11
  <2>2. /\ ops' \in Seq([op : KindsOf(next), handle : Handles])
        /\ next = "reboots" => RebootShape(ops')
    BY <2>1, BeginsFacts
  <2>3. step' \in 0..Steps /\ step' # Steps
    BY <1>1, <1>2, <1>4
  <2>4. /\ ops' \in Seq([op : KindsOf(Name'), handle : Handles])
        /\ Name' = "reboots" => RebootShape(ops')
    BY <1>12, <2>2
  <2>5. QED BY <2>3, <2>4 DEF ProgramOK
<1>5. ~(step + 1 < Steps) => ProgramOK'
  BY <1>1, <1>2 DEF ProgramOK
<1>6. ArenaOK' /\ HeldInv' /\ CutInv'
  BY <1>1 DEF ArenaOK, HeldInv, CutInv
<1>7. ~Has(ops, "append") /\ ~Has(ops, "rewind")
  <2>1. Len(<<>>) = 0
    OBVIOUS
  <2>2. QED BY <1>1, <2>1 DEF Has
<1>8. ASSUME full, ~Freed' PROVE current' = end'
  <2>1. current = end
    BY <1>1, <1>7, <1>8 DEF FullInv, Freed
  <2>2. CASE Name \in ByReference \/ end = base
    BY <1>1, <2>1, <2>2
  <2>3. CASE Name \notin ByReference /\ end # base
    <3>1. Name \in Scratch
      BY <1>7, <2>3 DEF HeldInv, MayHold, ArenaOK
    <3>2. step + 1 < 35 /\ Name' \in {"text", "eventlog", "reboots"}
      BY <1>2, <1>3, <3>1, ProgramFacts DEF Name
    <3>3. Has(ops', "append")
      <4>1. ops' \in Begins(next) /\ next \in Names
        BY <1>11, <3>2
      <4>2. QED BY <1>12, <3>2, <4>1, BeginsFacts
    <3>4. Freed'
      BY <1>1, <1>2, <1>3, <3>1, <3>2, <3>3 DEF Freed
    <3>5. QED BY <1>8, <3>4
  <2>4. QED BY <2>2, <2>3
<1>9. FullInv'
  BY <1>1, <1>2, <1>8 DEF FullInv
<1>10. QED BY <1>4, <1>5, <1>6, <1>9

LEMMA ClientInductive == ClientInv /\ [Next]_vars => ClientInv'
<1> SUFFICES ASSUME ClientInv, [Next]_vars PROVE ClientInv'
  OBVIOUS
<1>1. CASE ArenaAppend
  BY <1>1, AppendStep
<1>2. CASE ArenaAllocate
  BY <1>2, AllocateStep
<1>3. CASE RewindArena
  BY <1>3, RewindStep
<1>4. CASE OpenHandle \/ CloseDirectly \/ DeferHandle \/ IgnorePopDefer \/ PopDefer
             \/ PopDeferAll
  BY <1>4, HandleStep
<1>5. CASE Return
  BY <1>5, ReturnStep
<1>6. CASE Finish \/ ErrorHandler \/ UNCHANGED vars
  <2>1. UNCHANGED <<step, ops, arena, err>>
    BY <1>6 DEF Finish, ErrorHandler, vars
  <2>2. QED
    BY <2>1 DEF ClientInv, ArenaOK, ProgramOK, HeldInv, FullInv, CutInv, MayHold, Freed, Name,
                Has, Covered, RebootShape, arena
<1>7. QED BY <1>1, <1>2, <1>3, <1>4, <1>5, <1>6 DEF Next

LEMMA ClientInvariant == Spec => []ClientInv
<1>1. QED BY InitClient, ClientInductive, PTL DEF Spec

(* The text and the allocations share the arena without meeting, whatever  *)
(* their sizes: clog_ArenaAppend and clog__ArenaAllocate.                  *)
THEOREM ArenaSafe == Spec => []ArenaOK
<1>1. ClientInv => ArenaOK
  BY DEF ClientInv
<1>2. QED BY <1>1, ClientInvariant, PTL

(* Text is written behind a terminating character, where nobody reads it,  *)
(* only behind a collector that gave up memory when it returned.           *)
THEOREM CutBehindScratch == Spec => []CutOnlyBehindScratch
<1>1. ClientInv => CutOnlyBehindScratch
  BY DEF ClientInv, CutInv, CutOnlyBehindScratch
<1>2. QED BY <1>1, ClientInvariant, PTL

(* One call hands over one message, with the steps in their order, and     *)
(* says so when it had to give up: clientlog implements ClientMessage.     *)
THEOREM CallIsOneMessage == Spec => OneMessage
<1>1. Init => Display!Init
  BY DEF Init, Display!Init
<1>2. ASSUME ClientInv, [Next]_vars PROVE [Display!Next]_Display!vars
  <2> USE DEF Display!vars
  <2>1. ASSUME ArenaAppend PROVE Display!Lose \/ UNCHANGED Display!vars
    <3>1. Does("append") /\ err = 0
      BY <2>1 DEF ArenaAppend, Does
    <3>2. step < Steps /\ step # 0
      <4>1. step < Steps /\ Name \in Names /\ "append" \in KindsOf(Name)
        BY <1>2, <3>1, OpDone DEF ClientInv
      <4>2. step = 0 => Name = "StartQuery"
        BY ProgramFacts DEF Name
      <4>3. QED BY <4>1, <4>2, KindFacts
    <3>3. step' = step /\ message' = message /\ message = Nil
      BY <3>1 DEF Does
    <3>4. cut' = cut \/ (cut = Nil /\ cut' = step)
      BY <2>1 DEF ArenaAppend
    <3>5. 0 < step
      BY <1>2, <3>2 DEF ClientInv, ProgramOK
    <3>6. QED BY <3>2, <3>3, <3>4, <3>5 DEF Display!Lose
  <2>2. ASSUME ArenaAllocate \/ RewindArena \/ OpenHandle \/ CloseDirectly \/ DeferHandle
                 \/ IgnorePopDefer \/ PopDefer \/ PopDeferAll
        PROVE  UNCHANGED Display!vars
    BY <2>2 DEF ArenaAllocate, RewindArena, OpenHandle, CloseDirectly, DeferHandle,
                IgnorePopDefer, PopDefer, PopDeferAll, Does, arena
  <2>3. ASSUME Return PROVE Display!Write
    BY <2>3 DEF Return, Display!Write
  <2>4. ASSUME Finish PROVE Display!Deliver
    BY <2>4 DEF Finish, Reads, arena, Display!Deliver
  <2>5. ASSUME ErrorHandler PROVE Display!GiveUp
    BY <2>5 DEF ErrorHandler, Reads, arena, Display!GiveUp
  <2>6. ASSUME UNCHANGED vars PROVE UNCHANGED Display!vars
    BY <2>6 DEF vars, arena
  <2>7. QED BY <1>2, <2>1, <2>2, <2>3, <2>4, <2>5, <2>6 DEF Next, Display!Next
<1>3. QED
  BY <1>1, <1>2, ClientInvariant, PTL DEF Spec, OneMessage, Display!Spec

-----------------------------------------------------------------------------
(* The stack of deferred handles.  Performing op with at least a handles   *)
(* on the stack leaves at least b there; clog_PopDefer needs one.          *)
Level(op, a, b) ==
  \/ op = "defer" /\ b <= a + 1
  \/ op = "pop" /\ 1 <= a /\ b + 1 <= a
  \/ op \in {"popall", "ignore"} /\ b = 0
  \/ op \notin {"defer", "pop", "popall", "ignore"} /\ b <= a

(* f gives a number of handles that are on the stack after each operation. *)
Counts(f, s) ==
  /\ f \in [0..Len(s) -> Nat]
  /\ \A i \in 1..Len(s) : Level(s[i].op, f[i - 1], f[i])

(* With m handles on the stack, s can be performed and leaves n.           *)
Keeps(s, m, n) == \E f : Counts(f, s) /\ f[0] <= m /\ n <= f[Len(s)]

Deep(A, m, n) == Uses(A, Operations) /\ \A s \in A : Keeps(s, m, n)

LEMMA DeepThen ==
  ASSUME NEW A, NEW B, NEW l \in Nat, NEW m \in Nat, NEW n \in Nat,
         Deep(A, l, m), Deep(B, m, n)
  PROVE  Deep(A ** B, l, n)
<1>1. Uses(A ** B, Operations)
  BY UsesThen DEF Deep
<1>2. SUFFICES ASSUME NEW c \in A ** B PROVE Keeps(c, l, n)
  BY <1>1 DEF Deep
<1>3. PICK a \in A, b \in B : c = a \o b
  BY ThenParts
<1>4. /\ a \in Seq([op : Operations, handle : Handles])
      /\ b \in Seq([op : Operations, handle : Handles])
  BY DEF Deep, Uses
<1>5. PICK f : Counts(f, a) /\ f[0] <= l /\ m <= f[Len(a)]
  BY DEF Deep, Keeps
<1>6. PICK g : Counts(g, b) /\ g[0] <= m /\ n <= g[Len(b)]
  BY DEF Deep, Keeps
<1>7. /\ Len(a) \in Nat /\ Len(b) \in Nat /\ Len(c) = Len(a) + Len(b)
      /\ \A i \in 1..Len(a) : c[i] = a[i]
      /\ \A i \in 1..Len(b) : c[Len(a) + i] = b[i]
  BY <1>3, <1>4
<1>8. f \in [0..Len(a) -> Nat] /\ g \in [0..Len(b) -> Nat]
  BY <1>5, <1>6 DEF Counts
<1> DEFINE h == [i \in 0..Len(c) |-> IF i < Len(a) THEN f[i] ELSE g[i - Len(a)]]
<1>9. h \in [0..Len(c) -> Nat]
  BY <1>7, <1>8
<1>10. /\ \A i \in 0..Len(a)-1 : h[i] = f[i]
       /\ \A i \in 0..Len(b) : h[Len(a) + i] = g[i]
  BY <1>7
<1> HIDE DEF h
<1>11. ASSUME NEW i \in 1..Len(c) PROVE Level(c[i].op, h[i - 1], h[i])
  <2>1. CASE i < Len(a)
    <3>1. c[i] = a[i] /\ h[i - 1] = f[i - 1] /\ h[i] = f[i]
      BY <1>7, <1>10, <2>1
    <3>2. QED BY <1>5, <1>7, <2>1, <3>1 DEF Counts
  <2>2. CASE i = Len(a)
    <3>1. c[i] = a[i] /\ h[i - 1] = f[i - 1] /\ h[i] = g[0]
      <4>1. i \in 1..Len(a) /\ i - 1 \in 0..Len(a) - 1
        BY <1>7, <2>2
      <4>2. 0 \in 0..Len(b) /\ Len(a) + 0 = i
        BY <1>7, <2>2
      <4>3. c[i] = a[i]
        BY <1>7, <4>1
      <4>4. h[i - 1] = f[i - 1]
        BY <1>10, <4>1
      <4>5. h[i] = g[0]
        BY <1>10, <4>2
      <4>6. QED BY <4>3, <4>4, <4>5
    <3>2. Level(c[i].op, f[i - 1], f[i])
      BY <1>5, <1>7, <2>2, <3>1 DEF Counts
    <3>3. g[0] <= f[i] /\ g[0] \in Nat /\ f[i] \in Nat /\ f[i - 1] \in Nat
      <4>1. f[i] \in Nat /\ f[i - 1] \in Nat /\ g[0] \in Nat
        <5>1. i \in 0..Len(a) /\ i - 1 \in 0..Len(a) /\ 0 \in 0..Len(b)
          BY <1>7, <2>2
        <5>2. QED BY <1>8, <5>1
      <4>2. g[0] <= m /\ m <= f[i]
        BY <1>5, <1>6, <2>2
      <4>3. QED BY <4>1, <4>2
    <3>4. QED BY <3>1, <3>2, <3>3 DEF Level
  <2>3. CASE i > Len(a)
    <3> DEFINE k == i - Len(a)
    <3>1. k \in 1..Len(b)
      BY <1>7, <2>3
    <3>2. c[i] = b[k] /\ h[i] = g[k] /\ h[i - 1] = g[k - 1]
      <4>1. i = Len(a) + k /\ i - 1 = Len(a) + (k - 1) /\ k - 1 \in 0..Len(b)
        BY <1>7, <3>1
      <4> HIDE DEF k
      <4>2. QED BY <1>7, <1>10, <3>1, <4>1
    <3> HIDE DEF k
    <3>3. QED BY <1>6, <3>1, <3>2 DEF Counts
  <2>4. QED BY <1>7, <2>1, <2>2, <2>3
<1>12. h[0] <= l
  <2>1. CASE Len(a) = 0
    <3>1. h[0] = g[0]
      BY <1>7, <1>10, <2>1
    <3>2. g[0] \in Nat /\ f[0] \in Nat
      BY <1>7, <1>8
    <3>3. QED BY <1>5, <1>6, <2>1, <3>1, <3>2
  <2>2. CASE Len(a) # 0
    <3>1. h[0] = f[0]
      BY <1>7, <1>10, <2>2
    <3>2. QED BY <1>5, <3>1
  <2>3. QED BY <2>1, <2>2
<1>13. n <= h[Len(c)]
  BY <1>6, <1>7, <1>10
<1>14. QED BY <1>9, <1>11, <1>12, <1>13 DEF Keeps, Counts

LEMMA DeepChoice ==
  /\ \A A, B, m, n : Deep(A, m, n) /\ Deep(B, m, n) => Deep(A \cup B, m, n)
  /\ \A m \in Nat : Deep({<<>>}, m, m)
  /\ \A A : \A m \in Nat : Deep(A, m, m) => Deep(Opt(A), m, m) /\ Deep(Few(A), m, m)
<1>1. ASSUME NEW A, NEW B, NEW m, NEW n, Deep(A, m, n), Deep(B, m, n)
      PROVE  Deep(A \cup B, m, n)
  BY <1>1, UsesOr DEF Deep
<1>2. ASSUME NEW m \in Nat PROVE Deep({<<>>}, m, m)
  <2>1. Len(<<>>) = 0
    OBVIOUS
  <2> DEFINE f == [i \in 0..0 |-> m]
  <2>2. Counts(f, <<>>) /\ f[0] = m
    BY <2>1 DEF Counts
  <2> HIDE DEF f
  <2>3. Keeps(<<>>, m, m)
    BY <2>1, <2>2 DEF Keeps
  <2>4. QED BY <2>3, UsesNothing DEF Deep
<1>3. ASSUME NEW A, NEW m \in Nat, Deep(A, m, m) PROVE Deep(Opt(A), m, m)
  BY <1>1, <1>2, <1>3 DEF Opt
<1>4. ASSUME NEW A, NEW m \in Nat, Deep(A, m, m) PROVE Deep(Few(A), m, m)
  BY <1>1, <1>3, <1>4, DeepThen DEF Few
<1>5. QED BY <1>1, <1>2, <1>3, <1>4

(* A path that pops nothing can always be performed.                       *)
LEMMA DeepWithoutPop ==
  ASSUME NEW A, Uses(A, Operations \ {"pop"})
  PROVE  Deep(A, 0, 0)
<1>1. Uses(A, Operations)
  BY UsesMore
<1>2. ASSUME NEW s \in A PROVE Keeps(s, 0, 0)
  <2>1. s \in Seq([op : Operations \ {"pop"}, handle : Handles])
    BY DEF Uses
  <2>2. ASSUME NEW i \in 1..Len(s) PROVE s[i].op # "pop"
    <3>1. s[i] \in [op : Operations \ {"pop"}, handle : Handles]
      BY <2>1, ElementIn
    <3>2. QED BY <3>1
  <2>3. Len(s) \in Nat
    BY <2>1
  <2> DEFINE f == [i \in 0..Len(s) |-> 0]
  <2>4. Counts(f, s)
    BY <2>2, <2>3 DEF Counts, Level
  <2>5. f[0] <= 0 /\ 0 <= f[Len(s)]
    BY <2>3
  <2> HIDE DEF f
  <2>6. QED BY <2>4, <2>5 DEF Keeps
<1>3. QED BY <1>1, <1>2 DEF Deep

LEMMA DeepOn ==
  ASSUME NEW op \in Operations, NEW h \in Handles, NEW m \in Nat, NEW n \in Nat,
         Level(op, m, n)
  PROVE  Deep(On(op, h), m, n)
<1>1. Uses(On(op, h), Operations)
  BY UsesOn
<1>2. ASSUME NEW s \in On(op, h) PROVE Keeps(s, m, n)
  <2>1. Len(s) = 1 /\ s[1].op = op
    BY <1>2, OneOperation
  <2> DEFINE f == [i \in 0..1 |-> IF i = 0 THEN m ELSE n]
  <2>2. f \in [0..1 -> Nat] /\ f[0] = m /\ f[1] = n
    OBVIOUS
  <2> HIDE DEF f
  <2>3. \A i \in 1..1 : i = 1 /\ i - 1 = 0
    OBVIOUS
  <2>4. Counts(f, s)
    BY <2>1, <2>2, <2>3 DEF Counts
  <2>5. QED BY <2>1, <2>2, <2>4 DEF Keeps
<1>3. QED BY <1>1, <1>2 DEF Deep

LEMMA DeepLess ==
  ASSUME NEW A, NEW m \in Nat, Deep(A, m, 1)
  PROVE  Deep(A, m, 0)
<1>1. ASSUME NEW s \in A PROVE Keeps(s, m, 0)
  <2>1. PICK f : Counts(f, s) /\ f[0] <= m /\ 1 <= f[Len(s)]
    BY DEF Deep, Keeps
  <2>2. Len(s) \in Nat
    <3>1. s \in Seq([op : Operations, handle : Handles])
      BY DEF Deep, Uses
    <3>2. QED BY <3>1
  <2>3. f[Len(s)] \in Nat
    BY <2>1, <2>2 DEF Counts
  <2>4. 0 <= f[Len(s)]
    BY <2>3
  <2>5. QED BY <2>1, <2>4 DEF Keeps
<1>2. QED BY <1>1 DEF Deep

LEMMA DeepOps ==
  ASSUME NEW m \in Nat
  PROVE  /\ Deep(Append_, m, m) /\ Deep(Alloc, m, m) /\ Deep(Rewind, m, m)
         /\ \A h \in Handles : Deep(Open(h), m, m) /\ Deep(Close(h), m, m)
         /\ \A h \in Handles : Deep(Defer(h), m, m + 1) /\ Deep(Pop(h), m + 1, m)
         /\ \A h \in Handles : Deep(Tracked(h), m, m + 1) /\ Deep(Untracked(h), m, m)
<1>1. None \in Handles
  BY HandleNames
<1>2. {"append", "alloc", "rewind", "open", "close", "defer", "pop"} \subseteq Operations
  BY DEF Operations
<1>3. m + 1 \in Nat
  OBVIOUS
<1>4. /\ \A op \in {"append", "alloc", "rewind", "open", "close"} : Level(op, m, m)
      /\ Level("defer", m, m + 1) /\ Level("pop", m + 1, m)
  BY DEF Level
<1>5. Deep(Append_, m, m) /\ Deep(Alloc, m, m) /\ Deep(Rewind, m, m)
  BY <1>1, <1>2, <1>4, DeepOn DEF Append_, Alloc, Rewind
<1>6. \A h \in Handles : Deep(Open(h), m, m) /\ Deep(Close(h), m, m)
  BY <1>2, <1>4, DeepOn DEF Open, Close
<1>7. \A h \in Handles : Deep(Defer(h), m, m + 1) /\ Deep(Pop(h), m + 1, m)
  BY <1>2, <1>3, <1>4, DeepOn DEF Defer, Pop
<1>8. \A h \in Handles : Deep(Tracked(h), m, m + 1) /\ Deep(Untracked(h), m, m)
  BY <1>3, <1>6, <1>7, DeepThen DEF Tracked, Untracked
<1>9. QED BY <1>5, <1>6, <1>7, <1>8

(* Only these three collectors pop what they deferred; each pop is behind  *)
(* a defer of its own.                                                     *)
LEMMA PoppingCollectors ==
  Deep(diskinfo, 0, 0) /\ Deep(runningservices, 0, 0) /\ Deep(eventlog, 0, 0)
<1>1. \A A, B : \A l, m, n \in Nat : Deep(A, l, m) /\ Deep(B, m, n) => Deep(A ** B, l, n)
  BY DeepThen
<1>2. /\ Deep(Append_, 0, 0) /\ Deep(Alloc, 0, 0)
      /\ \A h \in Handles : Deep(Defer(h), 0, 1) /\ Deep(Pop(h), 1, 0)
      /\ \A h \in Handles : Deep(Tracked(h), 0, 1) /\ Deep(Untracked(h), 0, 0)
  <2>1. 0 \in Nat /\ 0 + 1 = 1
    OBVIOUS
  <2>2. QED BY <2>1, DeepOps
<1>3. /\ Deep(Append_, 1, 1) /\ Deep(Alloc, 1, 1)
      /\ \A h \in Handles : Deep(Open(h), 1, 1) /\ Deep(Close(h), 1, 1)
      /\ \A h \in Handles : Deep(Defer(h), 1, 2) /\ Deep(Pop(h), 2, 1)
      /\ \A h \in Handles : Deep(Tracked(h), 1, 2) /\ Deep(Untracked(h), 1, 1)
  <2>1. 1 \in Nat /\ 1 + 1 = 2
    OBVIOUS
  <2>2. QED BY <2>1, DeepOps
<1>4. Deep(Append_, 2, 2)
  BY DeepOps
<1>5. 0 \in Nat /\ 1 \in Nat /\ 2 \in Nat
  OBVIOUS
<1>6. Deep(diskinfo, 0, 0)
  <2>1. Deep(AddVolumesToDisks, 0, 0)
    BY <1>1, <1>2, <1>5, HandleNames, DeepChoice DEF AddVolumesToDisks
  <2>2. Deep(Opt(Untracked("key")) ** AddVolumesToDisks ** Append_, 0, 0)
    BY <1>1, <1>2, <1>5, <2>1, HandleNames, DeepChoice
  <2>3. Deep(Tracked("phys") ** Alloc ** Opt(Append_) ** Pop("phys"), 0, 0)
    BY <1>1, <1>2, <1>3, <1>5, HandleNames, DeepChoice
  <2>4. QED BY <1>1, <1>5, <2>2, <2>3, DeepChoice DEF diskinfo
<1>7. Deep(runningservices, 0, 0)
  <2> DEFINE Service == Tracked("service") ** Opt(Append_) ** Pop("service")
             Refused == Defer(None) ** Opt(Append_) ** Pop(None)
  <2>1. Deep(Service, 1, 1) /\ Deep(Refused, 1, 1)
    BY <1>1, <1>4, <1>3, <1>5, HandleNames, DeepChoice
  <2>2. Deep(Few(Service \cup Refused), 1, 1)
    BY <1>5, <2>1, DeepChoice
  <2>3. Deep(Defer(None) ** Alloc ** Append_, 0, 1)
    BY <1>1, <1>2, <1>3, <1>5, HandleNames
  <2>4. Deep(Tracked("manager") ** Alloc ** Append_, 0, 1)
    BY <1>1, <1>2, <1>3, <1>5, HandleNames
  <2>5. Deep(Tracked("manager") ** Alloc ** Append_ ** Few(Service \cup Refused), 0, 1)
    BY <1>1, <1>5, <2>2, <2>4
  <2>6. Deep(runningservices, 0, 1)
    BY <2>3, <2>5, DeepChoice DEF runningservices
  <2>7. QED BY <1>5, <2>6, DeepLess
<1>8. Deep(eventlog, 0, 0)
  <2>1. Deep(GetEventData, 1, 1)
    BY <1>1, <1>3, <1>5, HandleNames, DeepChoice DEF GetEventData
  <2>2. \A e \in Handles : Deep(GetEventData ** Defer(e) ** Append_ ** Pop(e), 1, 1)
    BY <1>1, <1>3, <1>4, <1>5, <2>1
  <2>3. Deep(Append_ ** Tracked("log"), 0, 1)
    BY <1>1, <1>2, <1>5, HandleNames
  <2> DEFINE Event(e) == GetEventData ** Defer(e) ** Append_ ** Pop(e)
             Log == Append_ ** Tracked("log")
  <2>4. Deep(Event("event1"), 1, 1) /\ Deep(Event("event2"), 1, 1) /\ Deep(Log, 0, 1)
    BY <2>2, <2>3, HandleNames
  <2> HIDE DEF Event, Log
  <2>5. Deep(Append_ ** Defer(None) ** Append_ ** Pop(None), 0, 0)
    BY <1>1, <1>2, <1>3, <1>5, HandleNames
  <2>6. Deep(Log ** Append_ ** Pop("log"), 0, 0)
    BY <1>1, <1>2, <1>3, <1>5, <2>4, HandleNames
  <2>7. Deep(Log ** Open("event1") ** Append_ ** Event("event1") ** Pop("log"), 0, 0)
    BY <1>1, <1>2, <1>3, <1>5, <2>4, HandleNames
  <2>8. Deep(Log ** Open("event1") ** Open("event2") ** Append_
                 ** Event("event1") ** Event("event2") ** Pop("log"), 0, 0)
    BY <1>1, <1>2, <1>3, <1>5, <2>4, HandleNames
  <2>9. QED BY <2>5, <2>6, <2>7, <2>8, DeepChoice DEF eventlog, Event, Log
<1>9. QED BY <1>6, <1>7, <1>8

LEMMA DeepBegins == \A name \in Names : Deep(Begins(name), 0, 0)
<1> DEFINE K == Operations \ {"pop"}
<1>1. Tame \ {"pop"} \subseteq K /\ {"alloc", "rewind"} \subseteq K
  BY DEF Tame, Operations
<1> HIDE DEF K
<1>2. ASSUME NEW A, Uses(A, K) PROVE Deep(A, 0, 0)
  BY <1>2, DeepWithoutPop DEF K
<1>3. Uses(StartQuery, K)
  <2>1. Mute \ {"pop"} \subseteq K
    BY DEF Mute, K
  <2>2. QED BY <2>1, MuteCollector, UsesMore
<1>4. Uses(reboots, K)
  BY <1>1, AllocatingCollectors, UsesOps, HandleNames, UsesCombined
     DEF reboots, RecentReboots
<1>5. ASSUME NEW name \in Names PROVE Deep(Begins(name), 0, 0)
  <2>1. CASE name \in QuietNames
    <3>1. CASE name = "eventlog"
      BY <3>1, PoppingCollectors DEF Begins, Paths
    <3>2. CASE name # "eventlog"
      <4>1. Uses(Begins(name), K)
        BY <1>1, <2>1, <3>2, PlainCollectors
           DEF QuietNames, Begins, Paths, date, winuptime, clientversion, clock
      <4>2. QED BY <1>2, <4>1
    <3>3. QED BY <3>1, <3>2
  <2>2. CASE name \in {"diskinfo", "runningservices"}
    BY <2>2, PoppingCollectors DEF Begins, Paths
  <2>3. CASE name \in {"StartQuery", "EndAppendQuery", "applications", "certificates", "reboots"}
    <3>1. Uses(Begins(name), K)
      BY <1>1, <1>3, <1>4, <2>3, PlainCollectors, AllocatingCollectors DEF Begins, Paths
    <3>2. QED BY <1>2, <3>1
  <2>4. QED BY <2>1, <2>2, <2>3 DEF Names, ByReference, Scratch
<1>6. QED BY <1>5

(* The first operation of s, and the rest.                                 *)
LEMMA KeepsTail ==
  ASSUME NEW s \in Seq([op : Operations, handle : Handles]), s # <<>>,
         NEW m \in Nat, Keeps(s, m, 0)
  PROVE  \E a, b \in Nat : a <= m /\ Level(Head(s).op, a, b) /\ Keeps(Tail(s), b, 0)
<1>1. PICK f : Counts(f, s) /\ f[0] <= m
  BY DEF Keeps
<1>2. Len(s) \in Nat /\ Len(s) >= 1 /\ Head(s) = s[1]
  OBVIOUS
<1>3. /\ Len(Tail(s)) = Len(s) - 1
      /\ \A i \in 1..Len(Tail(s)) : Tail(s)[i] = s[i + 1]
  OBVIOUS
<1>4. f \in [0..Len(s) -> Nat] /\ \A i \in 1..Len(s) : Level(s[i].op, f[i - 1], f[i])
  BY <1>1 DEF Counts
<1>5. f[0] \in Nat /\ f[1] \in Nat /\ Level(Head(s).op, f[0], f[1])
  <2>1. 0 \in 0..Len(s) /\ 1 \in 1..Len(s) /\ 1 - 1 = 0
    BY <1>2
  <2>2. QED BY <1>2, <1>4, <2>1
<1> DEFINE g == [i \in 0..Len(Tail(s)) |-> f[i + 1]]
<1>6. Counts(g, Tail(s))
  <2>1. g \in [0..Len(Tail(s)) -> Nat]
    BY <1>2, <1>3, <1>4
  <2>2. ASSUME NEW i \in 1..Len(Tail(s)) PROVE Level(Tail(s)[i].op, g[i - 1], g[i])
    <3>1. /\ i + 1 \in 1..Len(s) /\ Tail(s)[i] = s[i + 1] /\ g[i - 1] = f[(i + 1) - 1]
          /\ g[i] = f[i + 1]
      BY <1>2, <1>3
    <3> HIDE DEF g
    <3>2. QED BY <1>4, <3>1
  <2>3. QED BY <2>1, <2>2 DEF Counts
<1>7. g[0] <= f[1] /\ 0 <= g[Len(Tail(s))]
  <2>1. g[0] = f[1]
    BY <1>2, <1>3
  <2>2. g[Len(Tail(s))] \in Nat
    <3>1. Len(Tail(s)) \in 0..Len(Tail(s))
      BY <1>2, <1>3
    <3> HIDE DEF g
    <3>2. g \in [0..Len(Tail(s)) -> Nat]
      BY <1>6 DEF Counts
    <3>3. QED BY <3>1, <3>2
  <2>3. QED BY <1>5, <2>1, <2>2
<1> HIDE DEF g
<1>8. Keeps(Tail(s), f[1], 0)
  BY <1>6, <1>7 DEF Keeps
<1>9. QED BY <1>1, <1>5, <1>8

LEMMA KeepsMore ==
  ASSUME NEW s \in Seq([op : Operations, handle : Handles]), NEW b \in Nat, NEW m \in Nat,
         b <= m, Keeps(s, b, 0)
  PROVE  Keeps(s, m, 0)
<1>1. PICK f : Counts(f, s) /\ f[0] <= b /\ 0 <= f[Len(s)]
  BY DEF Keeps
<1>2. f[0] \in Nat
  <2>1. Len(s) \in Nat
    OBVIOUS
  <2>2. 0 \in 0..Len(s)
    BY <2>1
  <2>3. QED BY <1>1, <2>2 DEF Counts
<1>3. f[0] <= m
  BY <1>1, <1>2
<1>4. QED BY <1>1, <1>3 DEF Keeps

(* The stack always holds what the rest of the running step pops.          *)
HandlesTyped ==
  /\ stack \in Seq(Handles) /\ Len(stack) <= MaxHandles
  /\ open \subseteq Handles /\ misuse \subseteq Handles

OpsTyped == ops \in Seq([op : Operations, handle : Handles])

DepthInv == message = Nil /\ err = 0 => Keeps(ops, Len(stack), 0)

StackInv == OpsTyped /\ HandlesTyped /\ DepthInv

LEMMA OpTaken ==
  ASSUME StackInv, NEW op, Does(op)
  PROVE  /\ OpsTyped' /\ op \in Operations /\ handle \in Handles
         /\ message' = message /\ Len(stack) \in Nat
         /\ \E a, b \in Nat : a <= Len(stack) /\ Level(op, a, b)
              /\ \A m \in Nat : b <= m => Keeps(ops', m, 0)
<1>1. /\ ops # <<>> /\ ops' = Tail(ops) /\ Head(ops).op = op
      /\ message = Nil /\ err = 0 /\ message' = message
  BY DEF Does
<1>2. ops \in Seq([op : Operations, handle : Handles]) /\ Len(stack) \in Nat
  BY DEF StackInv, OpsTyped, HandlesTyped
<1>3. Tail(ops) \in Seq([op : Operations, handle : Handles])
  BY <1>1, <1>2
<1>4. Head(ops) \in [op : Operations, handle : Handles]
  BY <1>1, <1>2, HeadTailProperties
<1>5. PICK a, b \in Nat : a <= Len(stack) /\ Level(op, a, b) /\ Keeps(Tail(ops), b, 0)
  BY <1>1, <1>2, KeepsTail DEF StackInv, DepthInv
<1>6. \A m \in Nat : b <= m => Keeps(ops', m, 0)
  BY <1>1, <1>3, <1>5, KeepsMore
<1>7. OpsTyped' /\ op \in Operations /\ handle \in Handles
  BY <1>1, <1>3, <1>4 DEF OpsTyped, handle
<1>8. QED BY <1>1, <1>2, <1>5, <1>6, <1>7

LEMMA StackInit == Init => StackInv
<1> SUFFICES ASSUME Init PROVE StackInv
  OBVIOUS
<1>1. "StartQuery" \in Names /\ ops \in Begins("StartQuery")
  BY ProgramFacts DEF Init, Begins, Names, ByReference
<1>2. OpsTyped /\ Keeps(ops, 0, 0)
  BY <1>1, DeepBegins DEF Deep, Uses, OpsTyped
<1>3. stack = <<>> /\ Len(<<>>) = 0 /\ open = {} /\ misuse = {}
  BY DEF Init
<1>4. QED BY <1>2, <1>3 DEF StackInv, HandlesTyped, DepthInv, MaxHandles

LEMMA Popped ==
  ASSUME stack \in Seq(Handles), Len(stack) >= 1
  PROVE  /\ SubSeq(stack, 1, Len(stack) - 1) \in Seq(Handles)
         /\ Len(SubSeq(stack, 1, Len(stack) - 1)) = Len(stack) - 1
         /\ stack[Len(stack)] \in Handles
<1>1. Len(stack) \in Nat /\ Len(stack) - 1 \in Nat
  OBVIOUS
<1>2. \A i \in 1..Len(stack) - 1 : stack[i] \in Handles
  OBVIOUS
<1>3. Len(stack) \in 1..Len(stack)
  BY <1>1
<1>4. stack[Len(stack)] \in Handles
  BY <1>3, ElementIn
<1>5. SubSeq(stack, 1, Len(stack) - 1) \in Seq(Handles)
  BY <1>1, <1>2
<1>6. Len(SubSeq(stack, 1, Len(stack) - 1)) = Len(stack) - 1
  <2> DEFINE n == Len(stack) - 1
  <2>1. 1 \in Int /\ n \in Int /\ n >= 0
    BY <1>1
  <2>2. \A i \in 1..n : stack[i] \in Handles
    BY <1>2
  <2> HIDE DEF n
  <2>3. Len(SubSeq(stack, 1, n)) = IF 1 <= n THEN n - 1 + 1 ELSE 0
    BY <2>1, <2>2, SubSeqProperties
  <2>4. Len(SubSeq(stack, 1, n)) = n
    BY <2>1, <2>3
  <2>5. QED BY <2>4 DEF n
<1>7. QED BY <1>4, <1>5, <1>6

LEMMA MessageGiven ==
  ASSUME ClientInv, Finish \/ ErrorHandler
  PROVE  message' \in Message
<1>1. step \in Nat /\ Steps \in Nat /\ (cut # Nil => cut \in Nat)
  <2>1. step \in 0..Steps /\ (cut # Nil => cut \in 1..Steps)
    BY DEF ClientInv, ProgramOK, CutInv
  <2>2. QED BY <2>1, ProgramFacts
<1>2. \A done \in Nat, note \in BOOLEAN : Reads(done, note) \in Message
  BY <1>1 DEF Reads, Message
<1>3. CASE Finish
  BY <1>1, <1>2, <1>3 DEF Finish
<1>4. CASE ErrorHandler
  <2>1. message' = Reads(step, TRUE) \/ message' = [steps |-> step, note |-> TRUE]
    BY <1>4 DEF ErrorHandler
  <2>2. Reads(step, TRUE) \in Message
    BY <1>1, <1>2
  <2>3. [steps |-> step, note |-> TRUE] \in Message
    BY <1>1 DEF Message
  <2>4. QED BY <2>1, <2>2, <2>3
<1>5. QED BY <1>3, <1>4

LEMMA AllClosed ==
  ASSUME HandlesTyped, CloseAll
  PROVE  HandlesTyped' /\ Len(stack') = 0
<1>1. stack' = <<>> /\ Len(<<>>) = 0 /\ <<>> \in Seq(Handles)
  BY DEF CloseAll
<1>2. \A i \in 1..Len(stack) : stack[i] \in Handles
  BY DEF HandlesTyped
<1>3. open' \subseteq Handles /\ misuse' \subseteq Handles
  BY <1>2 DEF CloseAll, HandlesTyped
<1>4. QED BY <1>1, <1>3 DEF HandlesTyped, MaxHandles

LEMMA StackStep == StackInv /\ ClientInv /\ [Next]_vars => StackInv'
<1> SUFFICES ASSUME StackInv, ClientInv, [Next]_vars PROVE StackInv'
  OBVIOUS
<1> USE DEF StackInv
<1>1. ASSUME NEW op \in {"append", "alloc", "rewind", "open", "close"}, Does(op),
             UNCHANGED stack, open' \subseteq Handles, misuse' \subseteq Handles
      PROVE  StackInv'
  <2>1. PICK a, b \in Nat :
          /\ a <= Len(stack) /\ Level(op, a, b)
          /\ \A m \in Nat : b <= m => Keeps(ops', m, 0)
    BY <1>1, OpTaken
  <2>2. b <= Len(stack) /\ Len(stack) \in Nat
    BY <1>1, <2>1, OpTaken DEF Level
  <2>3. QED BY <1>1, <2>1, <2>2, OpTaken DEF HandlesTyped, DepthInv
<1>2. CASE ArenaAppend \/ ArenaAllocate \/ RewindArena
  <2>1. PICK op \in {"append", "alloc", "rewind"} : Does(op) /\ UNCHANGED handles
    BY <1>2 DEF ArenaAppend, ArenaAllocate, RewindArena
  <2>2. UNCHANGED <<stack, open, misuse>>
    BY <2>1 DEF handles
  <2>3. QED BY <1>1, <2>1, <2>2 DEF HandlesTyped
<1>3. CASE OpenHandle
  <2>1. Does("open") /\ open' = open \cup {handle} /\ UNCHANGED <<stack, misuse>>
    BY <1>3 DEF OpenHandle
  <2>2. handle \in Handles
    BY <2>1, OpTaken
  <2>3. open' \subseteq Handles /\ misuse' \subseteq Handles
    BY <2>1, <2>2 DEF HandlesTyped
  <2>4. QED BY <1>1, <2>1, <2>3
<1>4. ASSUME NEW h \in Handles, NEW want \in Handles, CloseHandle(h, want)
      PROVE  open' \subseteq Handles /\ misuse' \subseteq Handles
  BY <1>4 DEF CloseHandle, HandlesTyped
<1>5. CASE CloseDirectly
  <2>1. Does("close") /\ CloseHandle(handle, handle) /\ UNCHANGED stack
    BY <1>5 DEF CloseDirectly
  <2>2. handle \in Handles
    BY <2>1, OpTaken
  <2>3. QED BY <1>1, <1>4, <2>1, <2>2
<1>6. CASE DeferHandle
  <2>1. /\ Does("defer") /\ UNCHANGED <<open, misuse>>
        /\ IF Len(stack) >= MaxHandles
           THEN ThrowError(2) /\ UNCHANGED stack
           ELSE stack' = Append(stack, handle) /\ UNCHANGED err
    BY <1>6 DEF DeferHandle
  <2>2. handle \in Handles /\ Len(stack) \in Nat /\ OpsTyped'
    BY <2>1, OpTaken
  <2>3. PICK a, b \in Nat :
          /\ a <= Len(stack) /\ Level("defer", a, b)
          /\ \A m \in Nat : b <= m => Keeps(ops', m, 0)
    BY <2>1, OpTaken
  <2>4. CASE Len(stack) >= MaxHandles
    BY <2>1, <2>2, <2>4 DEF ThrowError, HandlesTyped, DepthInv
  <2>5. CASE ~(Len(stack) >= MaxHandles)
    <3>1. stack' \in Seq(Handles) /\ Len(stack') = Len(stack) + 1
      BY <2>1, <2>2, <2>5 DEF HandlesTyped
    <3>2. b <= Len(stack') /\ Len(stack') \in Nat /\ Len(stack') <= MaxHandles
      BY <2>2, <2>3, <2>5, <3>1 DEF Level, MaxHandles
    <3>3. QED BY <2>1, <2>2, <2>3, <3>1, <3>2 DEF HandlesTyped, DepthInv
  <2>6. QED BY <2>4, <2>5
<1>7. CASE IgnorePopDefer
  <2>1. /\ Does("ignore") /\ UNCHANGED <<open, misuse>>
        /\ stack' = IF stack = <<>> THEN stack ELSE SubSeq(stack, 1, Len(stack) - 1)
    BY <1>7 DEF IgnorePopDefer
  <2>2. PICK a, b \in Nat :
          /\ a <= Len(stack) /\ Level("ignore", a, b)
          /\ \A m \in Nat : b <= m => Keeps(ops', m, 0)
    BY <2>1, OpTaken
  <2>3. b = 0 /\ OpsTyped' /\ Len(stack) \in Nat
    BY <2>1, <2>2, OpTaken DEF Level
  <2>4. stack' \in Seq(Handles) /\ Len(stack') \in Nat /\ Len(stack') <= MaxHandles
    <3>1. CASE stack = <<>>
      BY <2>1, <2>3, <3>1 DEF HandlesTyped
    <3>2. CASE stack # <<>>
      <4>1. Len(stack) >= 1
        BY <3>2 DEF HandlesTyped
      <4>2. QED BY <2>1, <2>3, <3>2, <4>1, Popped DEF HandlesTyped, MaxHandles
    <3>3. QED BY <3>1, <3>2
  <2>5. QED BY <2>1, <2>2, <2>3, <2>4 DEF HandlesTyped, DepthInv
<1>8. CASE PopDefer
  <2>1. /\ Does("pop") /\ CloseHandle(stack[Len(stack)], handle)
        /\ stack' = SubSeq(stack, 1, Len(stack) - 1)
    BY <1>8 DEF PopDefer
  <2>2. PICK a, b \in Nat :
          /\ a <= Len(stack) /\ Level("pop", a, b)
          /\ \A m \in Nat : b <= m => Keeps(ops', m, 0)
    BY <2>1, OpTaken
  <2>3. handle \in Handles /\ OpsTyped' /\ Len(stack) \in Nat
    BY <2>1, OpTaken
  <2>4. Len(stack) >= 1 /\ b <= Len(stack) - 1 /\ Len(stack) - 1 \in Nat
    BY <2>2, <2>3 DEF Level
  <2>5. /\ stack' \in Seq(Handles) /\ Len(stack') = Len(stack) - 1
        /\ stack[Len(stack)] \in Handles
    BY <2>1, <2>4, Popped DEF HandlesTyped
  <2>6. open' \subseteq Handles /\ misuse' \subseteq Handles
    BY <1>4, <2>1, <2>3, <2>5
  <2>7. QED BY <2>2, <2>3, <2>4, <2>5, <2>6 DEF HandlesTyped, DepthInv, MaxHandles
<1>9. CASE PopDeferAll
  <2>1. Does("popall") /\ CloseAll
    BY <1>9 DEF PopDeferAll
  <2>2. PICK a, b \in Nat :
          Level("popall", a, b) /\ \A m \in Nat : b <= m => Keeps(ops', m, 0)
    BY <2>1, OpTaken
  <2>3. b = 0
    BY <2>2 DEF Level
  <2>4. QED BY <2>1, <2>2, <2>3, OpTaken, AllClosed DEF DepthInv
<1>10. CASE Return
  <2>1. /\ ops' \in IF step + 1 < Steps THEN Begins(Program[step + 2]) ELSE {<<>>}
        /\ UNCHANGED handles /\ step < Steps
    BY <1>10 DEF Return
  <2>2. OpsTyped' /\ Keeps(ops', 0, 0)
    <3>1. CASE step + 1 < Steps
      <4>1. step + 2 \in 1..35
        <5>1. step \in 0..Steps
          BY DEF ClientInv, ProgramOK
        <5>2. QED BY <3>1, <5>1, ProgramFacts
      <4>2. Program[step + 2] \in Names
        BY <4>1, ProgramFacts
      <4>3. QED BY <2>1, <3>1, <4>2, DeepBegins DEF Deep, Uses, OpsTyped
    <3>2. CASE ~(step + 1 < Steps)
      BY <2>1, <3>2, DeepChoice DEF Deep, Uses, OpsTyped
    <3>3. QED BY <3>1, <3>2
  <2>3. Len(stack) \in Nat /\ UNCHANGED <<stack, open, misuse>>
    BY <2>1 DEF HandlesTyped, handles
  <2>4. ops' \in Seq([op : Operations, handle : Handles])
    BY <2>2 DEF OpsTyped
  <2>5. Keeps(ops', Len(stack), 0)
    <3>1. 0 \in Nat /\ 0 <= Len(stack)
      BY <2>3
    <3>2. QED BY <2>2, <2>3, <2>4, <3>1, KeepsMore
  <2>6. QED BY <2>2, <2>3, <2>5 DEF HandlesTyped, DepthInv
<1>11. CASE Finish \/ ErrorHandler
  <2>1. CloseAll /\ UNCHANGED ops /\ message' # Nil
    <3>1. ops' = ops /\ CloseAll
      BY <1>11 DEF Finish, ErrorHandler
    <3>2. message' \in Message
      BY <1>11, MessageGiven
    <3>3. QED BY <3>1, <3>2, CapacityAssumption DEF Message
  <2>2. QED BY <2>1, AllClosed DEF OpsTyped, DepthInv
<1>12. CASE UNCHANGED vars
  BY <1>12 DEF vars, handles, OpsTyped, HandlesTyped, DepthInv
<1>13. QED
  BY <1>2, <1>3, <1>5, <1>6, <1>7, <1>8, <1>9, <1>10, <1>11, <1>12 DEF Next

(* What no step changes, or only to a value of its own.                    *)
FlagsTyped ==
  /\ capacity \in Capacities
  /\ full \in BOOLEAN /\ queried \in BOOLEAN
  /\ err \in 0..2
  /\ message \in Message \cup {Nil}

LEMMA FlagsInit == Init => FlagsTyped
<1> SUFFICES ASSUME Init PROVE FlagsTyped
  OBVIOUS
<1>1. full \in BOOLEAN /\ queried \in BOOLEAN /\ message \in Message \cup {Nil}
  BY Zenon DEF Init
<1>2. capacity \in Capacities /\ err \in 0..2
  BY DEF Init
<1>3. QED BY <1>1, <1>2 DEF FlagsTyped

LEMMA FlagsStep == FlagsTyped /\ ClientInv /\ [Next]_vars => FlagsTyped'
<1> SUFFICES ASSUME FlagsTyped, ClientInv, [Next]_vars PROVE FlagsTyped'
  OBVIOUS
<1>1. capacity' = capacity
  BY DEF Next, vars, arena, ArenaAppend, ArenaAllocate, RewindArena, OpenHandle, CloseDirectly,
         DeferHandle, IgnorePopDefer, PopDefer, PopDeferAll, Return, Finish, ErrorHandler
<1>2. full' \in BOOLEAN
  <2>1. full' = full \/ \E written : full' = (current + written = end)
    BY DEF Next, vars, arena, ArenaAppend, ArenaAllocate, RewindArena, OpenHandle, CloseDirectly,
           DeferHandle, IgnorePopDefer, PopDefer, PopDeferAll, Return, Finish, ErrorHandler
  <2>2. QED BY <2>1, Zenon DEF FlagsTyped
<1>3. queried' \in BOOLEAN
  <2>1. queried' = queried \/ queried' = (queried \/ (step = 0 /\ "query" \in open))
    BY DEF Next, vars, Does, ArenaAppend, ArenaAllocate, RewindArena, OpenHandle, CloseDirectly,
           DeferHandle, IgnorePopDefer, PopDefer, PopDeferAll, Return, Finish, ErrorHandler,
           QueryStarted
  <2>2. QED BY <2>1, Zenon DEF FlagsTyped
<1>4. err' \in 0..2
  <2>1. err' = err \/ err' = 1 \/ err' = 2
    BY DEF Next, vars, ThrowError, ArenaAppend, ArenaAllocate, RewindArena, OpenHandle,
           CloseDirectly, DeferHandle, IgnorePopDefer, PopDefer, PopDeferAll, Return, Finish,
           ErrorHandler
  <2>2. QED BY <2>1 DEF FlagsTyped
<1>5. message' \in Message \cup {Nil}
  <2>1. CASE Finish \/ ErrorHandler
    BY <2>1, MessageGiven
  <2>2. CASE ~(Finish \/ ErrorHandler)
    <3>1. message' = message
      BY <2>2 DEF Next, vars, Does, ArenaAppend, ArenaAllocate, RewindArena, OpenHandle,
             CloseDirectly, DeferHandle, IgnorePopDefer, PopDefer, PopDeferAll, Return
    <3>2. QED BY <3>1 DEF FlagsTyped
  <2>3. QED BY <2>1, <2>2
<1>6. QED
  <2>1. capacity' \in Capacities
    BY <1>1 DEF FlagsTyped
  <2>2. QED BY <1>2, <1>3, <1>4, <1>5, <2>1 DEF FlagsTyped

(* clog_PopDefer never finds the stack empty, in any collector: each pop   *)
(* is behind a defer that nothing popped since.                            *)
THEOREM NeverPopsEmpty == Spec => [][PopDefer => stack # <<>>]_vars
<1>1. ASSUME StackInv, PopDefer PROVE stack # <<>>
  <2>1. Does("pop")
    BY <1>1 DEF PopDefer
  <2>2. PICK a, b \in Nat : a <= Len(stack) /\ Level("pop", a, b)
    BY <1>1, <2>1, OpTaken
  <2>3. Len(stack) \in Nat
    BY <1>1, <2>1, OpTaken
  <2>4. Len(stack) >= 1
    BY <2>2, <2>3 DEF Level
  <2>5. Len(<<>>) = 0
    OBVIOUS
  <2>6. QED BY <2>4, <2>5
<1>2. StackInv /\ ClientInv /\ [Next]_vars => [PopDefer => stack # <<>>]_vars
  BY <1>1
<1>3. Init => ClientInv /\ StackInv
  BY InitClient, StackInit
<1>4. ClientInv /\ StackInv /\ [Next]_vars => (ClientInv /\ StackInv)'
  BY ClientInductive, StackStep
<1>5. QED BY <1>2, <1>3, <1>4, PTL DEF Spec

(* The type of the state, with the text, the transient allocations and the *)
(* permanent ones sharing the arena without meeting, and the stack never   *)
(* deeper than its array.                                                  *)
THEOREM ClientTypeOK == Spec => []TypeOK
<1>1. Init => ClientInv /\ StackInv /\ FlagsTyped
  BY InitClient, StackInit, FlagsInit
<1>2. ClientInv /\ StackInv /\ FlagsTyped /\ [Next]_vars
        => (ClientInv /\ StackInv /\ FlagsTyped)'
  BY ClientInductive, StackStep, FlagsStep
<1>3. ClientInv /\ StackInv /\ FlagsTyped => TypeOK
  <2>1. SUFFICES ASSUME ClientInv, StackInv, FlagsTyped PROVE TypeOK
    OBVIOUS
  <2>2. current \in 0..end /\ end \in 0..base /\ base \in 0..capacity
    BY <2>1 DEF ClientInv, ArenaOK
  <2>3. step \in 0..Steps /\ cut \in 0..Steps \cup {Nil}
    BY <2>1, ProgramFacts DEF ClientInv, ProgramOK, CutInv
  <2>4. /\ ops \in Seq([op : Operations, handle : Handles])
        /\ stack \in Seq(Handles) /\ Len(stack) <= MaxHandles
        /\ open \subseteq Handles /\ misuse \subseteq Handles
    BY <2>1 DEF StackInv, OpsTyped, HandlesTyped
  <2>5. QED BY <2>1, <2>2, <2>3, <2>4 DEF FlagsTyped, TypeOK
<1>4. QED BY <1>1, <1>2, <1>3, PTL DEF Spec

-----------------------------------------------------------------------------
(* Which handles a collector holds.  A holding is a stack of deferred      *)
(* handles and the handles that are open; it is sound when every deferred  *)
(* handle is open and deferred once.                                       *)
Deferred(deferred) == {deferred[i] : i \in 1..Len(deferred)} \ {None}

Once(deferred) ==
  \A i, j \in 1..Len(deferred) : deferred[i] = deferred[j] => i = j \/ deferred[i] = None

Sound(deferred, opened) ==
  /\ deferred \in Seq(Handles) /\ Len(deferred) <= MaxHandles
  /\ opened \subseteq Handles
  /\ Deferred(deferred) \subseteq opened
  /\ Once(deferred)

Holding(deferred, opened) == [stack |-> deferred, open |-> opened]

Holdings == {x \in [stack : Seq(Handles), open : SUBSET Handles] : Sound(x.stack, x.open)}

(* Performing o in x closes nothing by mistake, except what a session of   *)
(* who holds, and leads to y, and if the arena is full, what the jump      *)
(* loses is in lost.                                                       *)
Moves(o, x, y, lost) ==
  \/ /\ o.op \in {"append", "alloc"}
     /\ x.open \ Deferred(x.stack) \subseteq lost
     /\ y = x
  \/ o.op = "rewind" /\ y = x
  \/ o.op = "open" /\ y = Holding(x.stack, x.open \cup {o.handle})
  \/ /\ o.op = "close" /\ o.handle \in x.open \cup {"session"}
     /\ y = Holding(x.stack, x.open \ {o.handle})
  \/ /\ o.op = "defer" /\ Len(x.stack) < MaxHandles
     /\ y = Holding(Append(x.stack, o.handle), x.open)
  \/ /\ o.op = "ignore" /\ x.stack # <<>>
     /\ y = Holding(SubSeq(x.stack, 1, Len(x.stack) - 1), x.open)
  \/ /\ o.op = "pop" /\ x.stack # <<>>
     /\ x.stack[Len(x.stack)] = o.handle /\ o.handle \in x.open \cup {None}
     /\ y = Holding(SubSeq(x.stack, 1, Len(x.stack) - 1), x.open \ {o.handle})
  \/ o.op = "popall" /\ y = Holding(<<>>, x.open \ Deferred(x.stack))

(* f is what is held before and after each operation of s.                 *)
Walks(f, s, lost) ==
  /\ f \in [0..Len(s) -> Holdings]
  /\ \A i \in 1..Len(s) : Moves(s[i], f[i - 1], f[i], lost)

(* From x on, s goes well and ends with something in Q.                    *)
Runs(s, x, Q, lost) == \E f : Walks(f, s, lost) /\ f[0] = x /\ f[Len(s)] \in Q

Meets(A, P, Q, lost) ==
  Uses(A, Operations) /\ \A s \in A, x \in P : Runs(s, x, Q, lost)

LEMMA MeetsThen ==
  ASSUME NEW A, NEW B, NEW P, NEW Q, NEW R, NEW lost,
         Meets(A, P, Q, lost), Meets(B, Q, R, lost)
  PROVE  Meets(A ** B, P, R, lost)
<1>1. Uses(A ** B, Operations)
  BY UsesThen DEF Meets
<1>2. SUFFICES ASSUME NEW c \in A ** B, NEW x \in P PROVE Runs(c, x, R, lost)
  BY <1>1 DEF Meets
<1>3. PICK a \in A, b \in B : c = a \o b
  BY ThenParts
<1>4. /\ a \in Seq([op : Operations, handle : Handles])
      /\ b \in Seq([op : Operations, handle : Handles])
  BY DEF Meets, Uses
<1>5. PICK f : Walks(f, a, lost) /\ f[0] = x /\ f[Len(a)] \in Q
  BY DEF Meets, Runs
<1>6. PICK g : Walks(g, b, lost) /\ g[0] = f[Len(a)] /\ g[Len(b)] \in R
  BY <1>5 DEF Meets, Runs
<1>7. /\ Len(a) \in Nat /\ Len(b) \in Nat /\ Len(c) = Len(a) + Len(b)
      /\ \A i \in 1..Len(a) : c[i] = a[i]
      /\ \A i \in 1..Len(b) : c[Len(a) + i] = b[i]
  BY <1>3, <1>4
<1>8. f \in [0..Len(a) -> Holdings] /\ g \in [0..Len(b) -> Holdings]
  BY <1>5, <1>6 DEF Walks
<1> DEFINE h == [i \in 0..Len(c) |-> IF i < Len(a) THEN f[i] ELSE g[i - Len(a)]]
<1>9. h \in [0..Len(c) -> Holdings]
  BY <1>7, <1>8
<1>10. /\ \A i \in 0..Len(a) : h[i] = f[i]
       /\ \A i \in 0..Len(b) : h[Len(a) + i] = g[i]
  <2>1. \A i \in 0..Len(a) - 1 : h[i] = f[i]
    BY <1>7
  <2>2. h[Len(a)] = g[0]
    BY <1>7
  <2>3. \A i \in 0..Len(b) : h[Len(a) + i] = g[i]
    BY <1>7
  <2> HIDE DEF h
  <2>4. \A i \in 0..Len(a) : i \in 0..Len(a) - 1 \/ i = Len(a)
    BY <1>7
  <2>5. QED BY <1>6, <2>1, <2>2, <2>3, <2>4
<1> HIDE DEF h
<1>11. ASSUME NEW i \in 1..Len(c) PROVE Moves(c[i], h[i - 1], h[i], lost)
  <2>1. CASE i <= Len(a)
    <3>1. i \in 1..Len(a) /\ i - 1 \in 0..Len(a) /\ i \in 0..Len(a)
      BY <1>7, <2>1
    <3>2. c[i] = a[i] /\ h[i - 1] = f[i - 1] /\ h[i] = f[i]
      BY <1>7, <1>10, <3>1
    <3>3. QED BY <1>5, <3>1, <3>2 DEF Walks
  <2>2. CASE i > Len(a)
    <3> DEFINE k == i - Len(a)
    <3>1. k \in 1..Len(b)
      BY <1>7, <2>2
    <3>2. c[i] = b[k] /\ h[i] = g[k] /\ h[i - 1] = g[k - 1]
      <4>1. i = Len(a) + k /\ i - 1 = Len(a) + (k - 1) /\ k - 1 \in 0..Len(b) /\ k \in 0..Len(b)
        BY <1>7, <3>1
      <4> HIDE DEF k
      <4>2. QED BY <1>7, <1>10, <3>1, <4>1
    <3> HIDE DEF k
    <3>3. QED BY <1>6, <3>1, <3>2 DEF Walks
  <2>3. QED BY <1>7, <2>1, <2>2
<1>12. h[0] = x
  <2>1. 0 \in 0..Len(a)
    BY <1>7
  <2>2. QED BY <1>5, <1>10, <2>1
<1>13. h[Len(c)] \in R
  <2>1. Len(b) \in 0..Len(b)
    BY <1>7
  <2>2. h[Len(c)] = g[Len(b)]
    BY <1>7, <1>10, <2>1
  <2>3. QED BY <1>6, <2>2
<1>14. QED BY <1>9, <1>11, <1>12, <1>13 DEF Runs, Walks

LEMMA MeetsOr ==
  ASSUME NEW A, NEW B, NEW P, NEW Q, NEW lost, Meets(A, P, Q, lost), Meets(B, P, Q, lost)
  PROVE  Meets(A \cup B, P, Q, lost)
BY UsesOr DEF Meets

LEMMA MeetsWider ==
  ASSUME NEW A, NEW P, NEW Q, NEW R, NEW S, NEW lost,
         P \subseteq Q, R \subseteq S, Meets(A, Q, R, lost)
  PROVE  Meets(A, P, S, lost)
BY DEF Meets, Runs

LEMMA MeetsEach ==
  ASSUME NEW A, NEW P, NEW Q, NEW lost, Uses(A, Operations),
         \A x \in P : Meets(A, {x}, Q, lost)
  PROVE  Meets(A, P, Q, lost)
BY DEF Meets

LEMMA RunsNothing ==
  ASSUME NEW x, NEW Q, NEW lost
  PROVE  /\ x \in Holdings /\ x \in Q => Runs(<<>>, x, Q, lost)
         /\ Runs(<<>>, x, Q, lost) => x \in Q
<1>1. Len(<<>>) = 0
  OBVIOUS
<1>2. ASSUME x \in Holdings, x \in Q PROVE Runs(<<>>, x, Q, lost)
  <2> DEFINE f == [i \in 0..0 |-> x]
  <2>1. Walks(f, <<>>, lost) /\ f[0] = x
    BY <1>1, <1>2 DEF Walks
  <2> HIDE DEF f
  <2>2. QED BY <1>1, <1>2, <2>1 DEF Runs
<1>3. ASSUME Runs(<<>>, x, Q, lost) PROVE x \in Q
  BY <1>1, <1>3 DEF Runs
<1>4. QED BY <1>2, <1>3

LEMMA MeetsOpt ==
  ASSUME NEW A, NEW P, NEW Q, NEW lost, P \subseteq Q, P \subseteq Holdings, Meets(A, P, Q, lost)
  PROVE  Meets(Opt(A), P, Q, lost)
<1>1. Meets({<<>>}, P, Q, lost)
  BY RunsNothing, UsesNothing DEF Meets
<1>2. QED BY <1>1, MeetsOr DEF Opt

LEMMA MeetsFew ==
  ASSUME NEW A, NEW P, NEW lost, P \subseteq Holdings, Meets(A, P, P, lost)
  PROVE  Meets(Few(A), P, P, lost)
<1>1. Meets(Opt(A), P, P, lost)
  BY MeetsOpt
<1>2. Meets(A ** A, P, P, lost)
  BY MeetsThen
<1>3. QED BY <1>1, <1>2, MeetsOr DEF Few

LEMMA MeetsOn ==
  ASSUME NEW op \in Operations, NEW h \in Handles, NEW x \in Holdings, NEW y \in Holdings,
         NEW lost, Moves([op |-> op, handle |-> h], x, y, lost)
  PROVE  Meets(On(op, h), {x}, {y}, lost)
<1>1. Uses(On(op, h), Operations)
  BY UsesOn
<1>2. ASSUME NEW s \in On(op, h) PROVE Runs(s, x, {y}, lost)
  <2>1. Len(s) = 1 /\ s[1] = [op |-> op, handle |-> h]
    BY <1>2 DEF On
  <2> DEFINE f == [i \in 0..1 |-> IF i = 0 THEN x ELSE y]
  <2>2. f \in [0..1 -> Holdings] /\ f[0] = x /\ f[1] = y
    OBVIOUS
  <2> HIDE DEF f
  <2>3. \A i \in 1..1 : i = 1 /\ i - 1 = 0
    OBVIOUS
  <2>4. Walks(f, s, lost)
    BY <2>1, <2>2, <2>3 DEF Walks
  <2>5. QED BY <2>1, <2>2, <2>4 DEF Runs
<1>3. QED BY <1>1, <1>2 DEF Meets

(* A stack with one handle more, and without it.                           *)
LEMMA Pushed ==
  ASSUME NEW d \in Seq(Handles), NEW h \in Handles
  PROVE  /\ Append(d, h) \in Seq(Handles) /\ Len(Append(d, h)) = Len(d) + 1
         /\ Append(d, h) # <<>> /\ Append(d, h)[Len(Append(d, h))] = h
         /\ SubSeq(Append(d, h), 1, Len(Append(d, h)) - 1) = d
         /\ Deferred(Append(d, h)) = Deferred(d) \cup ({h} \ {None})
         /\ Once(d) /\ (h = None \/ h \notin Deferred(d)) => Once(Append(d, h))
<1> DEFINE e == Append(d, h)
<1>1. /\ e \in Seq(Handles) /\ Len(e) = Len(d) + 1 /\ Len(d) \in Nat
      /\ \A i \in 1..Len(d) : e[i] = d[i]
      /\ e[Len(e)] = h
  BY AppendProperties
<1> HIDE DEF e
<1>2. e # <<>>
  BY <1>1
<1>3. SubSeq(e, 1, Len(e) - 1) = d
  <2>1. Len(e) - 1 = Len(d)
    BY <1>1
  <2> DEFINE s == SubSeq(e, 1, Len(d))
  <2>2. s \in Seq(Handles) /\ Len(s) = Len(d) /\ \A i \in 1..Len(d) : s[i] = e[i]
    <3>1. \A i \in 1..Len(d) : e[i] \in Handles
      BY <1>1
    <3>2. /\ Len(s) = IF 1 <= Len(d) THEN Len(d) - 1 + 1 ELSE 0
          /\ \A i \in 1 .. Len(d) - 1 + 1 : s[i] = e[1 + i - 1]
          /\ s \in Seq(Handles)
      BY <1>1, <3>1, SubSeqProperties
    <3> HIDE DEF s
    <3>3. Len(s) = Len(d)
      BY <1>1, <3>2
    <3>4. ASSUME NEW i \in 1..Len(d) PROVE s[i] = e[i]
      <4>1. i \in 1 .. Len(d) - 1 + 1 /\ 1 + i - 1 = i
        BY <1>1
      <4>2. QED BY <3>2, <4>1
    <3>5. QED BY <3>2, <3>3, <3>4
  <2> HIDE DEF s
  <2>3. s = d
    BY <1>1, <2>2, SeqEqual
  <2>4. QED BY <2>1, <2>3 DEF s
<1>4. \A i \in 1..Len(e) : i \in 1..Len(d) \/ i = Len(e)
  BY <1>1
<1>5. Len(e) \in 1..Len(e) /\ 1..Len(d) \subseteq 1..Len(e)
  BY <1>1
<1>6. Deferred(e) = Deferred(d) \cup ({h} \ {None})
  BY <1>1, <1>4, <1>5, Zenon DEF Deferred
<1>7. ASSUME Once(d), h = None \/ h \notin Deferred(d) PROVE Once(e)
  <2> SUFFICES ASSUME NEW i \in 1..Len(e), NEW j \in 1..Len(e), e[i] = e[j], e[i] # None
               PROVE  i = j
    BY DEF Once
  <2>1. \A k \in 1..Len(d) : h # None => d[k] # h
    BY <1>7 DEF Deferred
  <2>2. QED BY <1>1, <1>4, <1>7, <2>1 DEF Once
<1>8. QED BY <1>1, <1>2, <1>3, <1>6, <1>7 DEF e

LEMMA NoneDeferred == <<>> \in Seq(Handles) /\ Len(<<>>) = 0 /\ Deferred(<<>>) = {} /\ Once(<<>>)
<1>1. <<>> \in Seq(Handles) /\ Len(<<>>) = 0 /\ 1..0 = {}
  OBVIOUS
<1>2. QED BY <1>1 DEF Deferred, Once

LEMMA SoundIn ==
  ASSUME NEW d, NEW o
  PROVE  /\ Holding(d, o).stack = d /\ Holding(d, o).open = o
         /\ Sound(d, o) <=> Holding(d, o) \in Holdings
BY DEF Holding, Holdings, Sound

(* What the single operations do to a holding.                             *)
LEMMA MeetsOps ==
  ASSUME NEW d, NEW o, Sound(d, o), NEW lost
  PROVE  /\ Meets(Rewind, {Holding(d, o)}, {Holding(d, o)}, lost)
         /\ o \ Deferred(d) \subseteq lost =>
              /\ Meets(Append_, {Holding(d, o)}, {Holding(d, o)}, lost)
              /\ Meets(Alloc, {Holding(d, o)}, {Holding(d, o)}, lost)
         /\ Meets(PopAll, {Holding(d, o)}, {Holding(<<>>, o \ Deferred(d))}, lost)
<1>1. None \in Handles /\ {"append", "alloc", "rewind", "popall"} \subseteq Operations
  BY HandleNames DEF Operations
<1>2. Holding(d, o) \in Holdings /\ Holding(d, o).stack = d /\ Holding(d, o).open = o
  BY SoundIn
<1>3. Holding(<<>>, o \ Deferred(d)) \in Holdings
  <2>1. Sound(<<>>, o \ Deferred(d))
    BY NoneDeferred DEF Sound, MaxHandles
  <2>2. QED BY <2>1, SoundIn
<1>4. Moves([op |-> "rewind", handle |-> None], Holding(d, o), Holding(d, o), lost)
  BY DEF Moves
<1>5. o \ Deferred(d) \subseteq lost =>
        /\ Moves([op |-> "append", handle |-> None], Holding(d, o), Holding(d, o), lost)
        /\ Moves([op |-> "alloc", handle |-> None], Holding(d, o), Holding(d, o), lost)
  BY <1>2 DEF Moves
<1>6. Moves([op |-> "popall", handle |-> None],
            Holding(d, o), Holding(<<>>, o \ Deferred(d)), lost)
  BY <1>2 DEF Moves
<1>7. QED BY <1>1, <1>2, <1>3, <1>4, <1>5, <1>6, MeetsOn DEF Rewind, Append_, Alloc, PopAll

LEMMA MeetsOpen ==
  ASSUME NEW d, NEW o, Sound(d, o), NEW lost, NEW h \in Handles
  PROVE  /\ Sound(d, o \cup {h})
         /\ Meets(Open(h), {Holding(d, o)}, {Holding(d, o \cup {h})}, lost)
<1>1. "open" \in Operations
  BY DEF Operations
<1>2. Sound(d, o \cup {h})
  BY DEF Sound
<1>3. Moves([op |-> "open", handle |-> h], Holding(d, o), Holding(d, o \cup {h}), lost)
  BY SoundIn DEF Moves
<1>4. QED BY <1>1, <1>2, <1>3, SoundIn, MeetsOn DEF Open

LEMMA MeetsClose ==
  ASSUME NEW d, NEW o, Sound(d, o), NEW lost, NEW h \in Handles, h \in o \ Deferred(d)
  PROVE  /\ Sound(d, o \ {h})
         /\ Meets(Close(h), {Holding(d, o)}, {Holding(d, o \ {h})}, lost)
<1>1. "close" \in Operations
  BY DEF Operations
<1>2. Sound(d, o \ {h})
  BY DEF Sound
<1>3. Moves([op |-> "close", handle |-> h], Holding(d, o), Holding(d, o \ {h}), lost)
  BY SoundIn DEF Moves
<1>4. QED BY <1>1, <1>2, <1>3, SoundIn, MeetsOn DEF Close

(* The session of who is freed although it is not open.                    *)
LEMMA MeetsAgain ==
  ASSUME NEW d, NEW o, Sound(d, o), NEW lost, "session" \notin o
  PROVE  Meets(Close("session"), {Holding(d, o)}, {Holding(d, o)}, lost)
<1>1. "close" \in Operations /\ "session" \in Handles
  BY HandleNames DEF Operations
<1>2. o \ {"session"} = o
  OBVIOUS
<1>3. Moves([op |-> "close", handle |-> "session"], Holding(d, o), Holding(d, o), lost)
  BY <1>2, SoundIn DEF Moves
<1>4. QED BY <1>1, <1>3, SoundIn, MeetsOn DEF Close

LEMMA MeetsDefer ==
  ASSUME NEW d, NEW o, Sound(d, o), NEW lost, NEW h \in Handles,
         Len(d) < MaxHandles, h = None \/ h \in o \ Deferred(d)
  PROVE  /\ Sound(Append(d, h), o)
         /\ Deferred(Append(d, h)) = Deferred(d) \cup ({h} \ {None})
         /\ Len(Append(d, h)) = Len(d) + 1
         /\ Meets(Defer(h), {Holding(d, o)}, {Holding(Append(d, h), o)}, lost)
<1>1. "defer" \in Operations
  BY DEF Operations
<1>2. /\ Append(d, h) \in Seq(Handles) /\ Len(Append(d, h)) = Len(d) + 1
      /\ Deferred(Append(d, h)) = Deferred(d) \cup ({h} \ {None})
      /\ Once(Append(d, h))
  BY Pushed DEF Sound
<1>3. Len(d) \in Nat
  BY DEF Sound
<1>4. Sound(Append(d, h), o)
  BY <1>2, <1>3 DEF Sound, MaxHandles
<1>5. Moves([op |-> "defer", handle |-> h], Holding(d, o), Holding(Append(d, h), o), lost)
  BY SoundIn DEF Moves
<1>6. QED BY <1>1, <1>2, <1>4, <1>5, SoundIn, MeetsOn DEF Defer

(* The handle on top leaves the stack, and is closed or not.               *)
LEMMA MeetsPop ==
  ASSUME NEW d, NEW o, NEW lost, NEW h \in Handles, Sound(Append(d, h), o),
         Sound(d, o \ {h}), h = None \/ h \in o
  PROVE  /\ Meets(Pop(h), {Holding(Append(d, h), o)}, {Holding(d, o \ {h})}, lost)
         /\ Sound(d, o) =>
              Meets(Ignore, {Holding(Append(d, h), o)}, {Holding(d, o)}, lost)
<1>1. {"pop", "ignore"} \subseteq Operations /\ None \in Handles
  BY HandleNames DEF Operations
<1>2. /\ Append(d, h) # <<>> /\ Append(d, h)[Len(Append(d, h))] = h
      /\ SubSeq(Append(d, h), 1, Len(Append(d, h)) - 1) = d
  BY Pushed DEF Sound
<1>3. Moves([op |-> "pop", handle |-> h], Holding(Append(d, h), o), Holding(d, o \ {h}), lost)
  BY <1>2, SoundIn DEF Moves
<1>4. Moves([op |-> "ignore", handle |-> None], Holding(Append(d, h), o), Holding(d, o), lost)
  BY <1>2, SoundIn DEF Moves
<1>5. QED BY <1>1, <1>3, <1>4, SoundIn, MeetsOn DEF Pop, Ignore

LEMMA MeetsTracked ==
  ASSUME NEW d, NEW o, Sound(d, o), NEW lost, NEW h \in Handles \ {None},
         Len(d) < MaxHandles, h \notin Deferred(d)
  PROVE  /\ Sound(Append(d, h), o \cup {h})
         /\ Deferred(Append(d, h)) = Deferred(d) \cup {h}
         /\ Len(Append(d, h)) = Len(d) + 1
         /\ Meets(Tracked(h), {Holding(d, o)}, {Holding(Append(d, h), o \cup {h})}, lost)
<1>1. /\ Sound(d, o \cup {h})
      /\ Meets(Open(h), {Holding(d, o)}, {Holding(d, o \cup {h})}, lost)
  BY MeetsOpen
<1>2. h \in (o \cup {h}) \ Deferred(d) /\ {h} \ {None} = {h}
  OBVIOUS
<1>3. /\ Sound(Append(d, h), o \cup {h})
      /\ Deferred(Append(d, h)) = Deferred(d) \cup {h}
      /\ Len(Append(d, h)) = Len(d) + 1
      /\ Meets(Defer(h), {Holding(d, o \cup {h})}, {Holding(Append(d, h), o \cup {h})}, lost)
  <2>1. h \in Handles /\ (h = None \/ h \in (o \cup {h}) \ Deferred(d))
    BY <1>2
  <2>2. Deferred(Append(d, h)) = Deferred(d) \cup ({h} \ {None})
    BY <1>1, <2>1, MeetsDefer
  <2>3. QED BY <1>1, <1>2, <2>1, <2>2, MeetsDefer
<1>4. QED BY <1>1, <1>3, MeetsThen DEF Tracked

(* A leaves the holding of d and o as it is.                               *)
Leaves(A, d, o, lost) == Meets(A, {Holding(d, o)}, {Holding(d, o)}, lost)

LEMMA LeavesUntracked ==
  ASSUME NEW d, NEW o, Sound(d, o), NEW lost, NEW h \in Handles, h \notin o
  PROVE  Leaves(Untracked(h), d, o, lost)
<1>1. /\ Sound(d, o \cup {h})
      /\ Meets(Open(h), {Holding(d, o)}, {Holding(d, o \cup {h})}, lost)
  BY MeetsOpen
<1>2. h \in (o \cup {h}) \ Deferred(d) /\ (o \cup {h}) \ {h} = o
  BY DEF Sound
<1>3. Meets(Close(h), {Holding(d, o \cup {h})}, {Holding(d, o)}, lost)
  BY <1>1, <1>2, MeetsClose
<1>4. QED BY <1>1, <1>3, MeetsThen DEF Untracked, Leaves

(* Between its opening and its closing a handle is untracked, and nothing  *)
(* that may jump happens.                                                  *)
LEMMA LeavesAround ==
  ASSUME NEW d, NEW o, Sound(d, o), NEW lost, NEW h \in Handles, h \notin o,
         NEW A, Leaves(A, d, o \cup {h}, lost)
  PROVE  Leaves(Open(h) ** A ** Close(h), d, o, lost)
<1>1. /\ Sound(d, o \cup {h})
      /\ Meets(Open(h), {Holding(d, o)}, {Holding(d, o \cup {h})}, lost)
  BY MeetsOpen
<1>2. h \in (o \cup {h}) \ Deferred(d) /\ (o \cup {h}) \ {h} = o
  BY DEF Sound
<1>3. Meets(Close(h), {Holding(d, o \cup {h})}, {Holding(d, o)}, lost)
  BY <1>1, <1>2, MeetsClose
<1>4. Meets(Open(h) ** A, {Holding(d, o)}, {Holding(d, o \cup {h})}, lost)
  BY <1>1, MeetsThen DEF Leaves
<1>5. QED BY <1>3, <1>4, MeetsThen DEF Leaves

(* Tracked and popped, with something between that leaves them alone.      *)
LEMMA LeavesTracked ==
  ASSUME NEW d, NEW o, Sound(d, o), NEW lost, NEW h \in Handles \ {None},
         h \notin o, Len(d) < MaxHandles,
         NEW A, Leaves(A, Append(d, h), o \cup {h}, lost)
  PROVE  Leaves(Tracked(h) ** A ** Pop(h), d, o, lost)
<1>1. h \notin Deferred(d) /\ (o \cup {h}) \ {h} = o
  BY DEF Sound
<1>2. /\ Sound(Append(d, h), o \cup {h})
      /\ Meets(Tracked(h), {Holding(d, o)}, {Holding(Append(d, h), o \cup {h})}, lost)
  BY <1>1, MeetsTracked
<1>3. Meets(Pop(h), {Holding(Append(d, h), o \cup {h})}, {Holding(d, o)}, lost)
  BY <1>1, <1>2, MeetsPop
<1>4. Meets(Tracked(h) ** A, {Holding(d, o)}, {Holding(Append(d, h), o \cup {h})}, lost)
  BY <1>2, MeetsThen DEF Leaves
<1>5. QED BY <1>3, <1>4, MeetsThen DEF Leaves

LEMMA LeavesCombined ==
  ASSUME NEW d, NEW o, Sound(d, o), NEW lost
  PROVE  /\ \A A, B : Leaves(A, d, o, lost) /\ Leaves(B, d, o, lost)
                        => Leaves(A ** B, d, o, lost) /\ Leaves(A \cup B, d, o, lost)
         /\ \A A : Leaves(A, d, o, lost) => Leaves(Opt(A), d, o, lost) /\ Leaves(Few(A), d, o, lost)
<1>1. {Holding(d, o)} \subseteq Holdings
  BY SoundIn
<1>2. QED BY <1>1, MeetsThen, MeetsOr, MeetsOpt, MeetsFew DEF Leaves

LEMMA LeavesOps ==
  ASSUME NEW d, NEW o, Sound(d, o), NEW lost, o \ Deferred(d) \subseteq lost
  PROVE  Leaves(Append_, d, o, lost) /\ Leaves(Alloc, d, o, lost)
BY MeetsOps DEF Leaves

-----------------------------------------------------------------------------
(* The handles of the process query live longer than the collectors.       *)
Query == {"query", "event"}

(* What the collectors may find: at most one handle left deferred, and     *)
(* besides it at most the process query open.                              *)
Found(d, o) ==
  /\ Sound(d, o) /\ Len(d) <= 1
  /\ o \subseteq Query \cup {"manager", "store"}
  /\ o \ Deferred(d) \subseteq Query

LEMMA LeavesSimple ==
  ASSUME NEW d, NEW o, Found(d, o)
  PROVE  /\ Leaves(Append_, d, o, Query)
         /\ Leaves(osversion, d, o, Query) /\ Leaves(winmemory, d, o, Query)
         /\ Leaves(who, d, o, Query)
<1>1. Sound(d, o) /\ o \ Deferred(d) \subseteq Query
  BY DEF Found
<1>2. /\ {"key", "pagefile", "sessions", "session"} \subseteq Handles
      /\ "key" \notin o /\ "pagefile" \notin o /\ "sessions" \notin o
      /\ "session" \notin o \cup {"sessions"}
  BY HandleNames DEF Found, Query
<1>3. Leaves(Append_, d, o, Query)
  BY <1>1, LeavesOps
<1>4. Leaves(Untracked("key"), d, o, Query) /\ Leaves(Untracked("pagefile"), d, o, Query)
  BY <1>1, <1>2, LeavesUntracked
<1>5. Leaves(osversion, d, o, Query) /\ Leaves(winmemory, d, o, Query)
  BY <1>1, <1>3, <1>4, LeavesCombined DEF osversion, winmemory
<1>6. Sound(d, o \cup {"sessions"})
  BY <1>1, <1>2, MeetsOpen
<1>7. Leaves(Few(Session), d, o \cup {"sessions"}, Query)
  <2>1. Leaves(Untracked("session"), d, o \cup {"sessions"}, Query)
    BY <1>2, <1>6, LeavesUntracked
  <2>2. Leaves(Close("session"), d, o \cup {"sessions"}, Query)
    BY <1>2, <1>6, MeetsAgain DEF Leaves
  <2>3. QED BY <1>6, <2>1, <2>2, LeavesCombined DEF Session
<1>8. Leaves(Open("sessions") ** Few(Session) ** Close("sessions"), d, o, Query)
  BY <1>1, <1>2, <1>7, LeavesAround
<1>9. Leaves(who, d, o, Query)
  BY <1>1, <1>3, <1>8, LeavesCombined DEF who
<1>10. QED BY <1>3, <1>5, <1>9

LEMMA LeavesDiskinfo ==
  ASSUME NEW d, NEW o, Found(d, o)
  PROVE  Leaves(diskinfo, d, o, Query)
<1>1. Sound(d, o) /\ o \ Deferred(d) \subseteq Query /\ Len(d) < MaxHandles /\ Len(d) \in Nat
  BY DEF Found, Sound, MaxHandles
<1>2. {"key", "phys"} \subseteq Handles \ {None} /\ "key" \notin o /\ "phys" \notin o
  BY HandleNames DEF Found, Query, None
<1>3. /\ Leaves(Append_, d, o, Query) /\ Leaves(Alloc, d, o, Query)
      /\ Leaves(Untracked("key"), d, o, Query) /\ Leaves(Untracked("phys"), d, o, Query)
  BY <1>1, <1>2, LeavesOps, LeavesUntracked
<1>4. Leaves(Opt(Untracked("key")) ** AddVolumesToDisks ** Append_, d, o, Query)
  BY <1>1, <1>3, LeavesCombined DEF AddVolumesToDisks
<1>5. "phys" \notin Deferred(d)
  BY <1>1, <1>2 DEF Sound
<1>6. /\ Sound(Append(d, "phys"), o \cup {"phys"})
      /\ (o \cup {"phys"}) \ Deferred(Append(d, "phys")) \subseteq Query
      /\ Meets(Tracked("phys"), {Holding(d, o)},
               {Holding(Append(d, "phys"), o \cup {"phys"})}, Query)
  BY <1>1, <1>2, <1>5, MeetsTracked
<1>7. /\ Leaves(Alloc, Append(d, "phys"), o \cup {"phys"}, Query)
      /\ Leaves(Opt(Append_), Append(d, "phys"), o \cup {"phys"}, Query)
  BY <1>6, LeavesOps, LeavesCombined
<1>8. (o \cup {"phys"}) \ {"phys"} = o
  BY <1>2
<1>9. Meets(Pop("phys"), {Holding(Append(d, "phys"), o \cup {"phys"})}, {Holding(d, o)}, Query)
  BY <1>1, <1>2, <1>6, <1>8, MeetsPop
<1>10. Leaves(Tracked("phys") ** Alloc ** Opt(Append_) ** Pop("phys"), d, o, Query)
  BY <1>6, <1>7, <1>9, MeetsThen DEF Leaves
<1>11. QED BY <1>1, <1>4, <1>10, LeavesCombined DEF diskinfo

(* A command leaves its pipe and its process open while text is appended.  *)
Child == {"read", "write", "process", "thread"}

LEMMA LeavesCommand ==
  ASSUME NEW d, NEW o, Found(d, o)
  PROVE  Leaves(Append_ ** RunCmdSynchronously, d, o, Query \cup Child)
<1> DEFINE lost == Query \cup Child
           Go(A, p, r) == Meets(A, {Holding(d, o \cup p)}, {Holding(d, o \cup r)}, lost)
           P1 == {"read"}
           P2 == {"read", "write"}
           C1 == {"read", "write", "process"}
           C2 == {"read", "write", "process", "thread"}
           C3 == {"read", "process", "thread"}
           C4 == {"read", "thread"}
<1>1. Sound(d, o) /\ o \ Deferred(d) \subseteq Query /\ Child \subseteq Handles
  BY HandleNames DEF Found, Child
<1>2. \A h \in Child : h \notin o
  BY DEF Found, Query, Child
<1>3. ASSUME NEW p \in SUBSET Child
      PROVE  /\ Sound(d, o \cup p)
             /\ Go(Append_, p, p)
  <2>1. Sound(d, o \cup p)
    BY <1>1 DEF Sound
  <2>2. (o \cup p) \ Deferred(d) \subseteq lost
    BY <1>1
  <2>3. QED BY <2>1, <2>2, MeetsOps
<1>4. ASSUME NEW p \in SUBSET Child, NEW h \in Child PROVE Go(Open(h), p, p \cup {h})
  <2>1. (o \cup p) \cup {h} = o \cup (p \cup {h}) /\ h \in Handles
    BY <1>1
  <2>2. Meets(Open(h), {Holding(d, o \cup p)}, {Holding(d, (o \cup p) \cup {h})}, lost)
    BY <1>3, <2>1, MeetsOpen
  <2>3. QED BY <2>1, <2>2
<1>5. ASSUME NEW p \in SUBSET Child, NEW h \in p PROVE Go(Close(h), p, p \ {h})
  <2>1. /\ (o \cup p) \ {h} = o \cup (p \ {h}) /\ h \in Handles
        /\ h \in (o \cup p) \ Deferred(d)
    BY <1>1, <1>2 DEF Sound
  <2>2. Meets(Close(h), {Holding(d, o \cup p)}, {Holding(d, (o \cup p) \ {h})}, lost)
    BY <1>3, <2>1, MeetsClose
  <2>3. QED BY <2>1, <2>2
<1>6. \A A, B, p, q, r : Go(A, p, q) /\ Go(B, q, r) => Go(A ** B, p, r)
  BY MeetsThen
<1>7. \A A, B : Go(A, {}, {}) /\ Go(B, {}, {}) => Go(A \cup B, {}, {})
  BY MeetsOr
<1>8. {P1, P2, C1, C2, C3, C4, {}} \subseteq SUBSET Child
  BY DEF Child
<1>9. Go(Open("read"), {}, P1) /\ Go(Open("write"), P1, P2)
  <2>1. {} \cup {"read"} = P1 /\ P1 \cup {"write"} = P2
    OBVIOUS
  <2>2. "read" \in Child /\ "write" \in Child
    BY DEF Child
  <2> HIDE DEF Go, P1, P2
  <2>3. QED BY <1>4, <1>8, <2>1, <2>2
<1>10. Go(Open("process"), P2, C1) /\ Go(Open("thread"), C1, C2)
  <2>1. P2 \cup {"process"} = C1 /\ C1 \cup {"thread"} = C2
    OBVIOUS
  <2>2. "process" \in Child /\ "thread" \in Child
    BY DEF Child
  <2> HIDE DEF Go, P2, C1, C2
  <2>3. QED BY <1>4, <1>8, <2>1, <2>2
<1>11. Go(Close("read"), P1, {}) /\ Go(Close("write"), P2, P1)
  <2>1. P1 \ {"read"} = {} /\ P2 \ {"write"} = P1 /\ "read" \in P1 /\ "write" \in P2
    OBVIOUS
  <2> HIDE DEF Go, P1, P2
  <2>2. QED BY <1>5, <1>8, <2>1
<1>12. Go(Close("read"), P2, {"write"}) /\ Go(Close("write"), {"write"}, {})
  <2>1. P2 \ {"read"} = {"write"} /\ {"write"} \ {"write"} = {} /\ "read" \in P2
    OBVIOUS
  <2>2. {"write"} \in SUBSET Child
    BY DEF Child
  <2> HIDE DEF Go, P2
  <2>3. QED BY <1>5, <1>8, <2>1, <2>2
<1>13. Go(Close("write"), C2, C3) /\ Go(Close("process"), C3, C4) /\ Go(Close("thread"), C4, P1)
  <2>1. /\ C2 \ {"write"} = C3 /\ C3 \ {"process"} = C4 /\ C4 \ {"thread"} = P1
        /\ "write" \in C2 /\ "process" \in C3 /\ "thread" \in C4
    OBVIOUS
  <2> HIDE DEF Go, P1, C2, C3, C4
  <2>2. QED BY <1>5, <1>8, <2>1
<1>14. /\ Go(Append_, {}, {}) /\ Go(Append_, P1, P1) /\ Go(Append_, P2, P2)
       /\ Go(Append_, C3, C3)
  <2> HIDE DEF Go, P1, P2, C1, C2, C3, C4
  <2>1. QED BY <1>3, <1>8
<1> HIDE DEF Go, P1, P2, C1, C2, C3, C4
<1> DEFINE Pipe == Open("read") ** Open("write")
           Began == Pipe ** Open("process") ** Open("thread") ** Close("write")
           Ended == Close("process") ** Close("thread") ** Close("read")
<1>15. Go(Pipe, {}, P2)
  BY <1>6, <1>9
<1>16. Go(Began, {}, C3)
  <2> HIDE DEF Pipe
  <2>1. Go(Pipe ** Open("process"), {}, C1)
    BY <1>6, <1>10, <1>15
  <2>2. Go(Pipe ** Open("process") ** Open("thread"), {}, C2)
    BY <1>6, <1>10, <2>1
  <2>3. QED BY <1>6, <1>13, <2>2
<1>17. Go(Ended, C3, {})
  <2>1. Go(Close("process") ** Close("thread"), C3, P1)
    BY <1>6, <1>13
  <2>2. QED BY <1>6, <1>11, <2>1
<1>18. RunCmdSynchronously =
         Append_ \cup (Pipe ** Append_ ** Close("read") ** Close("write"))
           \cup (Pipe ** Close("write") ** Append_ ** Close("read"))
           \cup (Began ** Append_ ** Ended) \cup (Began ** Ended ** Append_)
  BY DEF RunCmdSynchronously
<1> HIDE DEF Pipe, Began, Ended
<1>19. Go(Pipe ** Append_ ** Close("read") ** Close("write"), {}, {})
  <2>1. Go(Pipe ** Append_, {}, P2)
    BY <1>6, <1>14, <1>15
  <2>2. Go(Pipe ** Append_ ** Close("read"), {}, {"write"})
    BY <1>6, <1>12, <2>1
  <2>3. QED BY <1>6, <1>12, <2>2
<1>20. Go(Pipe ** Close("write") ** Append_ ** Close("read"), {}, {})
  <2>1. Go(Pipe ** Close("write"), {}, P1)
    BY <1>6, <1>11, <1>15
  <2>2. Go(Pipe ** Close("write") ** Append_, {}, P1)
    BY <1>6, <1>14, <2>1
  <2>3. QED BY <1>6, <1>11, <2>2
<1>21. Go(Began ** Append_ ** Ended, {}, {}) /\ Go(Began ** Ended ** Append_, {}, {})
  <2>1. Go(Began ** Append_, {}, C3) /\ Go(Began ** Ended, {}, {})
    BY <1>6, <1>14, <1>16, <1>17
  <2>2. QED BY <1>6, <1>14, <1>17, <2>1
<1>22. Go(RunCmdSynchronously, {}, {})
  <2>1. Go(Append_ \cup (Pipe ** Append_ ** Close("read") ** Close("write")), {}, {})
    BY <1>7, <1>14, <1>19
  <2>2. Go(Append_ \cup (Pipe ** Append_ ** Close("read") ** Close("write"))
             \cup (Pipe ** Close("write") ** Append_ ** Close("read")), {}, {})
    BY <1>7, <1>20, <2>1
  <2>3. QED BY <1>7, <1>18, <1>21, <2>2
<1>23. Go(Append_ ** RunCmdSynchronously, {}, {})
  BY <1>6, <1>14, <1>22
<1>24. o \cup {} = o
  OBVIOUS
<1>25. QED BY <1>23, <1>24 DEF Go, Leaves

LEMMA LeavesRefused ==
  ASSUME NEW d, NEW o, Sound(d, o), None \notin o, Len(d) < MaxHandles, NEW lost,
         NEW A, Sound(Append(d, None), o) => Leaves(A, Append(d, None), o, lost)
  PROVE  Leaves(Defer(None) ** A ** Pop(None), d, o, lost)
<1>1. None \in Handles /\ o \ {None} = o
  BY HandleNames
<1>2. /\ Sound(Append(d, None), o)
      /\ Meets(Defer(None), {Holding(d, o)}, {Holding(Append(d, None), o)}, lost)
  BY <1>1, MeetsDefer
<1>3. Meets(Pop(None), {Holding(Append(d, None), o)}, {Holding(d, o)}, lost)
  BY <1>1, <1>2, MeetsPop
<1>4. Meets(Defer(None) ** A, {Holding(d, o)}, {Holding(Append(d, None), o)}, lost)
  BY <1>2, MeetsThen DEF Leaves
<1>5. QED BY <1>3, <1>4, MeetsThen DEF Leaves

(* An event of the batch, open since EvtNext, is deferred and closed in    *)
(* its turn.                                                               *)
Batch == {"event1", "event2"}

LEMMA OneEvent ==
  ASSUME NEW d, NEW o, Sound(d, o), Len(d) < MaxHandles,
         NEW e \in Batch, e \notin o, o \ Deferred(d) \subseteq Query \cup Batch,
         "context" \notin o, "publisher" \notin o
  PROVE  Meets(GetEventData ** Defer(e) ** Append_ ** Pop(e),
               {Holding(d, o \cup {e})}, {Holding(d, o)}, Query \cup Batch)
<1> DEFINE lost == Query \cup Batch
           p == o \cup {e}
<1>1. /\ e \in Handles /\ e # None
      /\ "context" \in Handles /\ "publisher" \in Handles
      /\ "context" \notin p /\ "publisher" \notin p \cup {"context"}
      /\ e \notin Deferred(d) /\ p \ {e} = o
  BY HandleNames DEF Batch, Sound, None
<1>2. Sound(d, p)
  BY <1>1, MeetsOpen
<1>3. Leaves(GetEventData, d, p, lost)
  <2> DEFINE c == p \cup {"context"}
  <2>1. Sound(d, c)
    BY <1>1, <1>2, MeetsOpen
  <2>2. Leaves(Opt(Untracked("publisher")), d, c, lost)
    BY <1>1, <2>1, LeavesUntracked, LeavesCombined
  <2>3. Leaves(Open("context") ** Opt(Untracked("publisher")) ** Close("context"), d, p, lost)
    BY <1>1, <1>2, <2>2, LeavesAround
  <2>4. QED BY <1>2, <2>3, LeavesCombined DEF GetEventData
<1>4. /\ Sound(Append(d, e), p)
      /\ Deferred(Append(d, e)) = Deferred(d) \cup ({e} \ {None})
      /\ Meets(Defer(e), {Holding(d, p)}, {Holding(Append(d, e), p)}, lost)
  <2>1. e \in p \ Deferred(d)
    BY <1>1
  <2> HIDE DEF p
  <2>2. QED BY <1>1, <1>2, <2>1, MeetsDefer
<1>5. p \ Deferred(Append(d, e)) \subseteq lost
  BY <1>1, <1>4
<1>6. Leaves(Append_, Append(d, e), p, lost)
  BY <1>4, <1>5, LeavesOps
<1>7. Meets(Pop(e), {Holding(Append(d, e), p)}, {Holding(d, o)}, lost)
  BY <1>1, <1>4, MeetsPop
<1>8. QED BY <1>3, <1>4, <1>6, <1>7, MeetsThen DEF Leaves

LEMMA LeavesEventlog ==
  ASSUME NEW d, NEW o, Found(d, o)
  PROVE  Leaves(eventlog, d, o, Query \cup Batch)
<1> DEFINE lost == Query \cup Batch
           l == Append(d, "log")
           p == o \cup {"log"}
           p1 == p \cup {"event1"}
           p2 == p1 \cup {"event2"}
           Event(e) == GetEventData ** Defer(e) ** Append_ ** Pop(e)
           Log == Append_ ** Tracked("log")
           Go(A, a, q, b, r) == Meets(A, {Holding(a, q)}, {Holding(b, r)}, lost)
<1>1. Sound(d, o) /\ o \ Deferred(d) \subseteq lost /\ Len(d) < MaxHandles /\ Len(d) \in Nat
  BY DEF Found, Sound, MaxHandles
<1>2. /\ {"log", "event1", "event2"} \subseteq Handles \ {None}
      /\ o \subseteq {"query", "event", "manager", "store"}
  BY HandleNames DEF Found, Query, None
<1>3. "log" \notin o /\ "event1" \notin o /\ "event2" \notin o /\ None \notin o
  BY <1>2 DEF None
<1>4. /\ Sound(l, p) /\ p \ Deferred(l) \subseteq lost
      /\ Len(l) < MaxHandles
      /\ Go(Tracked("log"), d, o, l, p)
  <2>1. "log" \notin Deferred(d)
    BY <1>1, <1>3 DEF Sound
  <2>2. /\ Sound(l, p) /\ Deferred(l) = Deferred(d) \cup {"log"} /\ Len(l) = Len(d) + 1
        /\ Go(Tracked("log"), d, o, l, p)
    BY <1>1, <1>2, <2>1, MeetsTracked
  <2>3. Len(l) < MaxHandles
    BY <1>1, <2>2 DEF Found, MaxHandles
  <2>4. QED BY <1>1, <2>2, <2>3
<1>5. Go(Append_, d, o, d, o) /\ Go(Append_, l, p, l, p)
  BY <1>1, <1>4, LeavesOps DEF Leaves
<1>6. Go(Pop("log"), l, p, d, o)
  <2>1. p \ {"log"} = o
    BY <1>3
  <2>2. QED BY <1>1, <1>2, <1>4, <2>1, MeetsPop
<1>7. /\ Sound(l, p1) /\ Go(Open("event1"), l, p, l, p1)
      /\ Sound(l, p2) /\ Go(Open("event2"), l, p1, l, p2)
  BY <1>2, <1>4, MeetsOpen
<1>8. /\ p1 \ Deferred(l) \subseteq lost /\ p2 \ Deferred(l) \subseteq lost
      /\ (p \cup {"event2"}) \ Deferred(l) \subseteq lost
  BY <1>4 DEF Batch
<1>9. Go(Append_, l, p1, l, p1) /\ Go(Append_, l, p2, l, p2)
  BY <1>7, <1>8, LeavesOps DEF Leaves
<1>10. Go(Event("event1"), l, p1, l, p)
  <2>1. "event1" \in Batch /\ "event1" \notin p /\ "context" \notin p /\ "publisher" \notin p
    BY <1>2 DEF Batch
  <2>2. QED BY <1>4, <2>1, OneEvent
<1>11. Go(Event("event1"), l, p2, l, p \cup {"event2"})
  <2> DEFINE q == p \cup {"event2"}
  <2>1. /\ "event1" \in Batch /\ "event1" \notin q /\ "context" \notin q /\ "publisher" \notin q
        /\ q \cup {"event1"} = p2
    BY <1>2 DEF Batch
  <2>2. Sound(l, q)
    BY <1>2, <1>4, MeetsOpen
  <2>3. Meets(Event("event1"), {Holding(l, q \cup {"event1"})}, {Holding(l, q)}, lost)
    BY <1>4, <1>8, <2>1, <2>2, OneEvent
  <2>4. QED BY <2>1, <2>3
<1>12. Go(Event("event2"), l, p \cup {"event2"}, l, p)
  <2>1. "event2" \in Batch /\ "event2" \notin p /\ "context" \notin p /\ "publisher" \notin p
    BY <1>2 DEF Batch
  <2>2. QED BY <1>4, <2>1, OneEvent
<1>13. eventlog = (Append_ ** Defer(None) ** Append_ ** Pop(None))
         \cup (Log ** Append_ ** Pop("log"))
         \cup (Log ** Open("event1") ** Append_ ** Event("event1") ** Pop("log"))
         \cup (Log ** Open("event1") ** Open("event2") ** Append_
                   ** Event("event1") ** Event("event2") ** Pop("log"))
  BY DEF eventlog
<1>14. \A A, B, a, q, b, r, c, s : Go(A, a, q, b, r) /\ Go(B, b, r, c, s) => Go(A ** B, a, q, c, s)
  BY MeetsThen
<1>15. Go(Log, d, o, l, p)
  BY <1>4, <1>5, <1>14
<1>16. Go(Append_ ** Defer(None) ** Append_ ** Pop(None), d, o, d, o)
  <2> DEFINE n == Append(d, None)
  <2>1. None \in Handles /\ o \ {None} = o
    BY <1>3, HandleNames
  <2>2. /\ Sound(n, o) /\ Deferred(n) = Deferred(d) \cup ({None} \ {None})
        /\ Go(Defer(None), d, o, n, o)
    BY <1>1, <2>1, MeetsDefer
  <2>3. Go(Append_, n, o, n, o)
    BY <1>1, <2>2, LeavesOps DEF Leaves
  <2>4. Go(Pop(None), n, o, d, o)
    BY <1>1, <2>1, <2>2, MeetsPop
  <2> HIDE DEF Go, n
  <2>5. QED BY <1>5, <1>14, <2>2, <2>3, <2>4
<1> HIDE DEF Go, Event, Log, l, p, p1, p2
<1>17. Go(Log ** Append_ ** Pop("log"), d, o, d, o)
  BY <1>5, <1>6, <1>14, <1>15
<1>18. Go(Log ** Open("event1") ** Append_ ** Event("event1") ** Pop("log"), d, o, d, o)
  <2>1. Go(Log ** Open("event1") ** Append_, d, o, l, p1)
    BY <1>7, <1>9, <1>14, <1>15
  <2>2. Go(Log ** Open("event1") ** Append_ ** Event("event1"), d, o, l, p)
    BY <1>10, <1>14, <2>1
  <2>3. QED BY <1>6, <1>14, <2>2
<1>19. Go(Log ** Open("event1") ** Open("event2") ** Append_
            ** Event("event1") ** Event("event2") ** Pop("log"), d, o, d, o)
  <2>1. Go(Log ** Open("event1") ** Open("event2") ** Append_, d, o, l, p2)
    <3>1. Go(Log ** Open("event1"), d, o, l, p1)
      BY <1>7, <1>14, <1>15
    <3>2. Go(Log ** Open("event1") ** Open("event2"), d, o, l, p2)
      BY <1>7, <1>14, <3>1
    <3>3. QED BY <1>9, <1>14, <3>2
  <2>2. Go(Log ** Open("event1") ** Open("event2") ** Append_ ** Event("event1"),
           d, o, l, p \cup {"event2"})
    BY <1>11, <1>14, <2>1
  <2>3. Go(Log ** Open("event1") ** Open("event2") ** Append_ ** Event("event1") ** Event("event2"),
           d, o, l, p)
    BY <1>12, <1>14, <2>2
  <2>4. QED BY <1>6, <1>14, <2>3
<1>20. \A A, B : Go(A, d, o, d, o) /\ Go(B, d, o, d, o) => Go(A \cup B, d, o, d, o)
  BY MeetsOr DEF Go
<1>21. Go(eventlog, d, o, d, o)
  BY <1>13, <1>16, <1>17, <1>18, <1>19, <1>20
<1>22. QED BY <1>21 DEF Go, Leaves

-----------------------------------------------------------------------------
(* At most n handles deferred, all of them in M, and besides them q open.  *)
Lies(d, o, q, M, n) ==
  /\ Sound(d, o) /\ Len(d) <= n
  /\ Deferred(d) \subseteq M
  /\ o = q \cup Deferred(d)

Rest(q, M, n) == {x \in Holdings : Lies(x.stack, x.open, q, M, n)}

LEMMA RestParts ==
  ASSUME NEW q, NEW M, NEW n, NEW x \in Rest(q, M, n)
  PROVE  \E d, o : x = Holding(d, o) /\ Lies(d, o, q, M, n)
<1>1. /\ x \in [stack : Seq(Handles), open : SUBSET Handles]
      /\ Lies(x.stack, x.open, q, M, n)
  BY DEF Rest, Holdings
<1>2. x = Holding(x.stack, x.open)
  BY <1>1 DEF Holding
<1>3. QED BY <1>1, <1>2, Zenon

LEMMA RestHas ==
  ASSUME NEW q, NEW M, NEW n, NEW d, NEW o, Lies(d, o, q, M, n)
  PROVE  Holding(d, o) \in Rest(q, M, n)
<1>1. Sound(d, o)
  BY DEF Lies
<1>2. QED BY <1>1, SoundIn DEF Rest

(* What such a holding is like for the collectors.                         *)
LEMMA LiesSo ==
  ASSUME NEW q \in SUBSET Query, NEW M, NEW n \in Nat, NEW d, NEW o, Lies(d, o, q, M, n)
  PROVE  /\ Sound(d, o) /\ Len(d) \in Nat /\ Len(d) <= n /\ d \in Seq(Handles)
         /\ Deferred(d) \subseteq M /\ o = q \cup Deferred(d)
         /\ o \ Deferred(d) \subseteq Query /\ o \subseteq Query \cup M
         /\ M \cap Query = {} => o \ Deferred(d) = q
BY DEF Lies, Sound

LEMMA RestMore ==
  ASSUME NEW q, NEW M, NEW n \in Nat, NEW N, NEW m \in Nat, n <= m, M \subseteq N
  PROVE  Rest(q, M, n) \subseteq Rest(q, N, m) /\ Rest(q, M, n) \subseteq Holdings
<1>1. Rest(q, M, n) \subseteq Holdings
  BY DEF Rest
<1>2. ASSUME NEW d, NEW o, Lies(d, o, q, M, n) PROVE Lies(d, o, q, N, m)
  BY <1>2 DEF Lies, Sound
<1>3. QED BY <1>1, <1>2 DEF Rest

(* Nothing deferred, q open.                                               *)
LEMMA RestBare ==
  ASSUME NEW q \in SUBSET Query
  PROVE  /\ Sound(<<>>, q)
         /\ Rest(q, {}, 0) = {Holding(<<>>, q)}
<1>1. Sound(<<>>, q)
  BY NoneDeferred, HandleNames DEF Sound, MaxHandles, Query
<1>2. Holding(<<>>, q) \in Rest(q, {}, 0)
  <2>1. Lies(<<>>, q, q, {}, 0)
    BY <1>1, NoneDeferred DEF Lies
  <2>2. QED BY <2>1, RestHas
<1>3. ASSUME NEW x \in Rest(q, {}, 0) PROVE x = Holding(<<>>, q)
  <2>1. PICK d, o : x = Holding(d, o) /\ Lies(d, o, q, {}, 0)
    BY RestParts
  <2>2. d \in Seq(Handles) /\ Len(d) \in Nat /\ Len(d) <= 0 /\ o = q
    BY <2>1 DEF Lies, Sound
  <2>3. d = <<>>
    BY <2>2
  <2>4. QED BY <2>1, <2>2, <2>3
<1>4. QED BY <1>1, <1>2, <1>3

(* What holds for each holding by itself holds for a rest.                 *)
LEMMA RestEach ==
  ASSUME NEW q, NEW M, NEW n, NEW A, Uses(A, Operations), NEW Q, NEW lost,
         \A d, o : Lies(d, o, q, M, n) => Meets(A, {Holding(d, o)}, Q, lost)
  PROVE  Meets(A, Rest(q, M, n), Q, lost)
<1>1. ASSUME NEW x \in Rest(q, M, n) PROVE Meets(A, {x}, Q, lost)
  <2>1. PICK d, o : x = Holding(d, o) /\ Lies(d, o, q, M, n)
    BY RestParts
  <2>2. QED BY <2>1
<1>2. QED BY <1>1, MeetsEach

LEMMA AnyOperation ==
  /\ Uses(Append_, Operations) /\ Uses(Alloc, Operations) /\ Uses(Rewind, Operations)
  /\ Uses(PopAll, Operations) /\ Uses(Defer(None), Operations)
  /\ \A h \in Handles : Uses(Tracked(h), Operations)
<1>1. {"append", "alloc", "rewind", "popall", "open", "defer"} \subseteq Operations
  BY DEF Operations
<1>2. None \in Handles
  BY HandleNames
<1>3. \A op \in Operations, h \in Handles : Uses(On(op, h), Operations)
  BY UsesOn
<1>4. ASSUME NEW h \in Handles PROVE Uses(Tracked(h), Operations)
  BY <1>1, <1>3, UsesThen DEF Tracked, Open, Defer
<1>5. QED BY <1>1, <1>2, <1>3, <1>4 DEF Append_, Alloc, Rewind, PopAll, Defer

LEMMA RestOps ==
  ASSUME NEW q \in SUBSET Query, NEW M, M \cap Query = {}, NEW n \in Nat
  PROVE  /\ Meets(Append_, Rest(q, M, n), Rest(q, M, n), Query)
         /\ Meets(Alloc, Rest(q, M, n), Rest(q, M, n), Query)
         /\ Meets(Rewind, Rest(q, M, n), Rest(q, M, n), Query)
         /\ Meets(PopAll, Rest(q, M, n), Rest(q, {}, 0), Query)
<1>1. ASSUME NEW d, NEW o, Lies(d, o, q, M, n)
      PROVE  /\ Meets(Append_, {Holding(d, o)}, Rest(q, M, n), Query)
             /\ Meets(Alloc, {Holding(d, o)}, Rest(q, M, n), Query)
             /\ Meets(Rewind, {Holding(d, o)}, Rest(q, M, n), Query)
             /\ Meets(PopAll, {Holding(d, o)}, Rest(q, {}, 0), Query)
  <2>1. {Holding(d, o)} \subseteq Rest(q, M, n)
    BY <1>1, RestHas
  <2>2. Sound(d, o) /\ o \ Deferred(d) = q
    BY <1>1, LiesSo
  <2>3. {Holding(<<>>, o \ Deferred(d))} = Rest(q, {}, 0)
    BY <2>2, RestBare
  <2>4. /\ Meets(Append_, {Holding(d, o)}, {Holding(d, o)}, Query)
        /\ Meets(Alloc, {Holding(d, o)}, {Holding(d, o)}, Query)
        /\ Meets(Rewind, {Holding(d, o)}, {Holding(d, o)}, Query)
        /\ Meets(PopAll, {Holding(d, o)}, {Holding(<<>>, o \ Deferred(d))}, Query)
    BY <2>2, MeetsOps
  <2>5. \A A : Meets(A, {Holding(d, o)}, {Holding(d, o)}, Query)
                 => Meets(A, {Holding(d, o)}, Rest(q, M, n), Query)
    BY <2>1, MeetsWider
  <2>6. QED BY <2>3, <2>4, <2>5
<1>2. /\ \A d, o : Lies(d, o, q, M, n) => Meets(Append_, {Holding(d, o)}, Rest(q, M, n), Query)
      /\ \A d, o : Lies(d, o, q, M, n) => Meets(Alloc, {Holding(d, o)}, Rest(q, M, n), Query)
      /\ \A d, o : Lies(d, o, q, M, n) => Meets(Rewind, {Holding(d, o)}, Rest(q, M, n), Query)
      /\ \A d, o : Lies(d, o, q, M, n) => Meets(PopAll, {Holding(d, o)}, Rest(q, {}, 0), Query)
  BY <1>1
<1>3. QED BY <1>2, AnyOperation, RestEach

LEMMA RestDefer ==
  ASSUME NEW q \in SUBSET Query, NEW M, M \cap Query = {}, NEW n \in Nat, n < MaxHandles
  PROVE  /\ Meets(Defer(None), Rest(q, M, n), Rest(q, M, n + 1), Query)
         /\ \A h \in Handles \ {None} : h \notin M /\ h \notin Query =>
              Meets(Tracked(h), Rest(q, M, n), Rest(q, M \cup {h}, n + 1), Query)
<1>1. n + 1 \in Nat /\ None \in Handles
  BY HandleNames
<1>2. ASSUME NEW d, NEW o, Lies(d, o, q, M, n)
      PROVE  Meets(Defer(None), {Holding(d, o)}, Rest(q, M, n + 1), Query)
  <2> DEFINE e == Append(d, None)
  <2>1. Sound(d, o) /\ Len(d) < MaxHandles /\ Len(d) \in Nat /\ Len(d) <= n
    BY <1>2, LiesSo DEF MaxHandles
  <2>2. /\ Sound(e, o)
        /\ Deferred(e) = Deferred(d) \cup ({None} \ {None})
        /\ Len(e) = Len(d) + 1
        /\ Meets(Defer(None), {Holding(d, o)}, {Holding(e, o)}, Query)
    BY <1>1, <2>1, MeetsDefer
  <2> HIDE DEF e
  <2>3. Len(e) <= n + 1
    BY <2>1, <2>2
  <2>4. Lies(e, o, q, M, n + 1)
    BY <1>2, <2>2, <2>3 DEF Lies
  <2>5. {Holding(e, o)} \subseteq Rest(q, M, n + 1)
    BY <2>4, RestHas
  <2>6. QED BY <2>2, <2>5, MeetsWider
<1>3. ASSUME NEW h \in Handles \ {None}, h \notin M, h \notin Query,
             NEW d, NEW o, Lies(d, o, q, M, n)
      PROVE  Meets(Tracked(h), {Holding(d, o)}, Rest(q, M \cup {h}, n + 1), Query)
  <2> DEFINE e == Append(d, h)
             p == o \cup {h}
  <2>1. /\ Sound(d, o) /\ Len(d) < MaxHandles /\ Len(d) \in Nat /\ Len(d) <= n
        /\ h \notin Deferred(d)
    BY <1>3, LiesSo DEF MaxHandles
  <2>2. /\ Sound(e, p)
        /\ Deferred(e) = Deferred(d) \cup {h}
        /\ Len(e) = Len(d) + 1
        /\ Meets(Tracked(h), {Holding(d, o)}, {Holding(e, p)}, Query)
    BY <1>3, <2>1, MeetsTracked
  <2>3. p = q \cup (Deferred(d) \cup {h}) /\ Deferred(d) \subseteq M
    BY <1>3 DEF Lies
  <2> HIDE DEF e, p
  <2>4. Len(e) <= n + 1
    BY <2>1, <2>2
  <2>5. Lies(e, p, q, M \cup {h}, n + 1)
    BY <2>2, <2>3, <2>4 DEF Lies
  <2>6. {Holding(e, p)} \subseteq Rest(q, M \cup {h}, n + 1)
    BY <2>5, RestHas
  <2>7. QED BY <2>2, <2>6, MeetsWider
<1>4. Meets(Defer(None), Rest(q, M, n), Rest(q, M, n + 1), Query)
  <2>1. \A d, o : Lies(d, o, q, M, n)
                    => Meets(Defer(None), {Holding(d, o)}, Rest(q, M, n + 1), Query)
    BY <1>2
  <2>2. QED BY <2>1, AnyOperation, RestEach
<1>5. ASSUME NEW h \in Handles \ {None}, h \notin M, h \notin Query
      PROVE  Meets(Tracked(h), Rest(q, M, n), Rest(q, M \cup {h}, n + 1), Query)
  <2>1. \A d, o : Lies(d, o, q, M, n)
                    => Meets(Tracked(h), {Holding(d, o)}, Rest(q, M \cup {h}, n + 1), Query)
    BY <1>3, <1>5
  <2>2. QED BY <2>1, <1>5, AnyOperation, RestEach
<1>6. QED BY <1>4, <1>5

(* A collector that leaves everything as it found it.                      *)
LEMMA RestLeaves ==
  ASSUME NEW q \in SUBSET Query, NEW M \in SUBSET {"manager", "store"}, NEW n \in {0, 1},
         NEW A, Uses(A, Operations), NEW lost,
         \A d, o : Found(d, o) => Leaves(A, d, o, lost)
  PROVE  Meets(A, Rest(q, M, n), Rest(q, M, n), lost)
<1>1. ASSUME NEW d, NEW o, Lies(d, o, q, M, n)
      PROVE  Meets(A, {Holding(d, o)}, Rest(q, M, n), lost)
  <2>1. Found(d, o)
    <3>1. n \in Nat /\ n <= 1
      OBVIOUS
    <3>2. /\ Sound(d, o) /\ Len(d) \in Nat /\ Len(d) <= n
          /\ o \ Deferred(d) \subseteq Query /\ o \subseteq Query \cup M
      BY <1>1 DEF Lies, Sound
    <3>3. Len(d) <= 1
      BY <3>1, <3>2
    <3>4. QED BY <3>2, <3>3 DEF Found
  <2>2. Meets(A, {Holding(d, o)}, {Holding(d, o)}, lost)
    BY <2>1 DEF Leaves
  <2>3. {Holding(d, o)} \subseteq Rest(q, M, n)
    BY <1>1, RestHas
  <2>4. QED BY <2>2, <2>3, MeetsWider
<1>2. \A d, o : Lies(d, o, q, M, n) => Meets(A, {Holding(d, o)}, Rest(q, M, n), lost)
  BY <1>1
<1>3. QED BY <1>2, RestEach

-----------------------------------------------------------------------------
(* What the collectors that do not leave everything as they found it do.   *)
Go(A, P, Q) == Meets(A, P, Q, Query)

LEMMA GoOn ==
  /\ \A A, B, P, Q, R : Go(A, P, Q) /\ Go(B, Q, R) => Go(A ** B, P, R)
  /\ \A A, B, P, Q : Go(A, P, Q) /\ Go(B, P, Q) => Go(A \cup B, P, Q)
  /\ \A A, P, Q, R : Go(A, P, Q) /\ Q \subseteq R => Go(A, P, R)
  /\ \A A, P, Q : Go(A, P, Q) /\ P \subseteq Q /\ P \subseteq Holdings => Go(Opt(A), P, Q)
  /\ \A A, P : Go(A, P, P) /\ P \subseteq Holdings => Go(Opt(A), P, P) /\ Go(Few(A), P, P)
<1>1. \A A, B, P, Q, R : Go(A, P, Q) /\ Go(B, Q, R) => Go(A ** B, P, R)
  BY MeetsThen DEF Go
<1>2. \A A, B, P, Q : Go(A, P, Q) /\ Go(B, P, Q) => Go(A \cup B, P, Q)
  BY MeetsOr DEF Go
<1>3. \A A, P, Q, R : Go(A, P, Q) /\ Q \subseteq R => Go(A, P, R)
  BY MeetsWider DEF Go
<1>4. \A A, P, Q : Go(A, P, Q) /\ P \subseteq Q /\ P \subseteq Holdings => Go(Opt(A), P, Q)
  BY MeetsOpt DEF Go
<1>5. \A A, P : Go(A, P, P) /\ P \subseteq Holdings => Go(Opt(A), P, P) /\ Go(Few(A), P, P)
  BY MeetsOpt, MeetsFew DEF Go
<1>6. QED BY <1>1, <1>2, <1>3, <1>4, <1>5

(* Handles that a collector of its own defers, beside those of the query.  *)
Own == {"key", "tcp4", "tcp6", "udp4", "udp6", "process", "token", "manager", "store", "syslog"}

LEMMA OwnNames ==
  /\ Own \subseteq Handles \ {None}
  /\ Own \cap Query = {}
BY HandleNames DEF Own, Query, None

LEMMA RestGoes ==
  ASSUME NEW q \in SUBSET Query, NEW M \in SUBSET Own
  PROVE  /\ \A n \in 0..8 :
              /\ Go(Append_, Rest(q, M, n), Rest(q, M, n))
              /\ Go(Alloc, Rest(q, M, n), Rest(q, M, n))
              /\ Go(Rewind, Rest(q, M, n), Rest(q, M, n))
              /\ Go(PopAll, Rest(q, M, n), Rest(q, {}, 0))
              /\ Rest(q, M, n) \subseteq Holdings
         /\ \A n \in 0..7 :
              /\ Go(Defer(None), Rest(q, M, n), Rest(q, M, n + 1))
              /\ \A h \in Own : h \notin M =>
                   Go(Tracked(h), Rest(q, M, n), Rest(q, M \cup {h}, n + 1))
<1>1. M \cap Query = {} /\ \A h \in Own : h \in Handles \ {None} /\ h \notin Query
  BY OwnNames
<1>2. ASSUME NEW n \in 0..8
      PROVE  /\ Go(Append_, Rest(q, M, n), Rest(q, M, n))
             /\ Go(Alloc, Rest(q, M, n), Rest(q, M, n))
             /\ Go(Rewind, Rest(q, M, n), Rest(q, M, n))
             /\ Go(PopAll, Rest(q, M, n), Rest(q, {}, 0))
             /\ Rest(q, M, n) \subseteq Holdings
  <2>1. n \in Nat
    OBVIOUS
  <2>2. Rest(q, M, n) \subseteq Holdings
    BY DEF Rest
  <2>3. QED BY <1>1, <2>1, <2>2, RestOps DEF Go
<1>3. ASSUME NEW n \in 0..7
      PROVE  /\ Go(Defer(None), Rest(q, M, n), Rest(q, M, n + 1))
             /\ \A h \in Own : h \notin M =>
                  Go(Tracked(h), Rest(q, M, n), Rest(q, M \cup {h}, n + 1))
  <2>1. n \in Nat /\ n < MaxHandles
    BY DEF MaxHandles
  <2>2. QED BY <1>1, <2>1, RestDefer DEF Go
<1>4. QED BY <1>2, <1>3

(* The key stays deferred only where bios could not open it.               *)
LEMMA RestBios ==
  ASSUME NEW q \in SUBSET Query
  PROVE  Go(bios, Rest(q, {}, 0), Rest(q, {}, 1))
<1>1. {} \in SUBSET Own /\ {"key"} \in SUBSET Own /\ "key" \in Own /\ "key" \notin {}
  BY DEF Own
<1>2. 0 + 1 = 1 /\ 0 \in 0..7 /\ 0 \in 0..8 /\ 1 \in 0..8 /\ {} \cup {"key"} = {"key"}
  OBVIOUS
<1>3. /\ Go(Append_, Rest(q, {}, 0), Rest(q, {}, 0))
      /\ Go(Defer(None), Rest(q, {}, 0), Rest(q, {}, 1))
      /\ Go(Tracked("key"), Rest(q, {}, 0), Rest(q, {"key"}, 1))
      /\ Go(Append_, Rest(q, {}, 1), Rest(q, {}, 1))
      /\ Go(Append_, Rest(q, {"key"}, 1), Rest(q, {"key"}, 1))
      /\ Go(PopAll, Rest(q, {"key"}, 1), Rest(q, {}, 0))
  <2>1. /\ Go(Append_, Rest(q, {}, 0), Rest(q, {}, 0))
        /\ Go(Append_, Rest(q, {}, 1), Rest(q, {}, 1))
        /\ Go(Append_, Rest(q, {"key"}, 1), Rest(q, {"key"}, 1))
        /\ Go(PopAll, Rest(q, {"key"}, 1), Rest(q, {}, 0))
    BY <1>1, <1>2, RestGoes
  <2>2. /\ Go(Defer(None), Rest(q, {}, 0), Rest(q, {}, 0 + 1))
        /\ Go(Tracked("key"), Rest(q, {}, 0), Rest(q, {} \cup {"key"}, 0 + 1))
    BY <1>1, <1>2, RestGoes
  <2>3. QED BY <1>2, <2>1, <2>2
<1>4. Rest(q, {}, 0) \subseteq Rest(q, {}, 1)
  BY RestMore
<1>5. Go(Append_ ** Defer(None) ** Append_, Rest(q, {}, 0), Rest(q, {}, 1))
  <2>1. Go(Append_ ** Defer(None), Rest(q, {}, 0), Rest(q, {}, 1))
    BY <1>3, GoOn
  <2>2. QED BY <1>3, <2>1, GoOn
<1>6. Go(Append_ ** Tracked("key") ** Append_ ** PopAll, Rest(q, {}, 0), Rest(q, {}, 1))
  <2>1. Go(Append_ ** Tracked("key"), Rest(q, {}, 0), Rest(q, {"key"}, 1))
    BY <1>3, GoOn
  <2>2. Go(Append_ ** Tracked("key") ** Append_, Rest(q, {}, 0), Rest(q, {"key"}, 1))
    BY <1>3, <2>1, GoOn
  <2>3. Go(Append_ ** Tracked("key") ** Append_ ** PopAll, Rest(q, {}, 0), Rest(q, {}, 0))
    BY <1>3, <2>2, GoOn
  <2>4. QED BY <1>4, <2>3, GoOn
<1>7. QED BY <1>5, <1>6, GoOn DEF bios

(* A table more, or a NULL more, or neither.                               *)
LEMMA RestTable ==
  ASSUME NEW q \in SUBSET Query, NEW M \in SUBSET Own, NEW t \in Own, t \notin M, NEW n \in 0..7
  PROVE  Go(GetConnectionTable(t), Rest(q, M, n), Rest(q, M \cup {t}, n + 1))
<1>1. /\ Go(Defer(None), Rest(q, M, n), Rest(q, M, n + 1))
      /\ Go(Tracked(t), Rest(q, M, n), Rest(q, M \cup {t}, n + 1))
  BY RestGoes
<1>2. /\ Rest(q, M, n) \subseteq Rest(q, M \cup {t}, n + 1)
      /\ Rest(q, M, n + 1) \subseteq Rest(q, M \cup {t}, n + 1)
      /\ Rest(q, M, n) \subseteq Holdings
  <2>1. n \in Nat /\ n + 1 \in Nat /\ n <= n + 1 /\ n + 1 <= n + 1
    OBVIOUS
  <2>2. QED BY <2>1, RestMore
<1>3. Go({<<>>} \cup Defer(None), Rest(q, M, n), Rest(q, M \cup {t}, n + 1))
  <2>1. Go(Defer(None), Rest(q, M, n), Rest(q, M \cup {t}, n + 1))
    BY <1>1, <1>2, GoOn
  <2>2. QED BY <1>2, <2>1, GoOn DEF Opt
<1>4. QED BY <1>1, <1>3, GoOn DEF GetConnectionTable

LEMMA RestWinports ==
  ASSUME NEW q \in SUBSET Query
  PROVE  Go(winports, Rest(q, {}, 1), Rest(q, {}, 0))
<1> DEFINE M1 == {"tcp4"}
           M2 == {"tcp4", "tcp6"}
           M3 == {"tcp4", "tcp6", "udp4"}
           M4 == {"tcp4", "tcp6", "udp4", "udp6"}
<1>1. /\ {{}, M1, M2, M3, M4} \subseteq SUBSET Own
      /\ {"tcp4", "tcp6", "udp4", "udp6"} \subseteq Own
      /\ "tcp4" \notin {} /\ "tcp6" \notin M1 /\ "udp4" \notin M2 /\ "udp6" \notin M3
      /\ {} \cup {"tcp4"} = M1 /\ M1 \cup {"tcp6"} = M2
      /\ M2 \cup {"udp4"} = M3 /\ M3 \cup {"udp6"} = M4
  BY DEF Own
<1>2. /\ {1, 2, 3, 4} \subseteq 0..7 /\ 0 \in 0..8 /\ 5 \in 0..8
      /\ 1 + 1 = 2 /\ 2 + 1 = 3 /\ 3 + 1 = 4 /\ 4 + 1 = 5
  OBVIOUS
<1> HIDE DEF M1, M2, M3, M4
<1>3. Go(GetConnectionTable("tcp4"), Rest(q, {}, 1), Rest(q, M1, 2))
  <2>1. Go(GetConnectionTable("tcp4"), Rest(q, {}, 1), Rest(q, {} \cup {"tcp4"}, 1 + 1))
    BY <1>1, <1>2, RestTable
  <2>2. QED BY <1>1, <1>2, <2>1
<1>4. Go(GetConnectionTable("tcp6"), Rest(q, M1, 2), Rest(q, M2, 3))
  <2>1. Go(GetConnectionTable("tcp6"), Rest(q, M1, 2), Rest(q, M1 \cup {"tcp6"}, 2 + 1))
    BY <1>1, <1>2, RestTable
  <2>2. QED BY <1>1, <1>2, <2>1
<1>5. Go(GetConnectionTable("udp4"), Rest(q, M2, 3), Rest(q, M3, 4))
  <2>1. Go(GetConnectionTable("udp4"), Rest(q, M2, 3), Rest(q, M2 \cup {"udp4"}, 3 + 1))
    BY <1>1, <1>2, RestTable
  <2>2. QED BY <1>1, <1>2, <2>1
<1>6. Go(GetConnectionTable("udp6"), Rest(q, M3, 4), Rest(q, M4, 5))
  <2>1. Go(GetConnectionTable("udp6"), Rest(q, M3, 4), Rest(q, M3 \cup {"udp6"}, 4 + 1))
    BY <1>1, <1>2, RestTable
  <2>2. QED BY <1>1, <1>2, <2>1
<1>7. /\ Go(Append_, Rest(q, M4, 5), Rest(q, M4, 5))
      /\ Go(PopAll, Rest(q, M4, 5), Rest(q, {}, 0))
      /\ Go(Opt(Append_), Rest(q, {}, 0), Rest(q, {}, 0))
  BY <1>1, <1>2, RestGoes, GoOn
<1>8. Go(GetConnectionTable("tcp4") ** GetConnectionTable("tcp6"), Rest(q, {}, 1), Rest(q, M2, 3))
  BY <1>3, <1>4, GoOn
<1>9. Go(GetConnectionTable("tcp4") ** GetConnectionTable("tcp6") ** GetConnectionTable("udp4"),
         Rest(q, {}, 1), Rest(q, M3, 4))
  BY <1>5, <1>8, GoOn
<1>10. Go(GetConnectionTable("tcp4") ** GetConnectionTable("tcp6") ** GetConnectionTable("udp4")
            ** GetConnectionTable("udp6"), Rest(q, {}, 1), Rest(q, M4, 5))
  BY <1>6, <1>9, GoOn
<1>11. Go(GetConnectionTable("tcp4") ** GetConnectionTable("tcp6") ** GetConnectionTable("udp4")
            ** GetConnectionTable("udp6") ** Append_ ** PopAll, Rest(q, {}, 1), Rest(q, {}, 0))
  <2>1. Go(GetConnectionTable("tcp4") ** GetConnectionTable("tcp6") ** GetConnectionTable("udp4")
             ** GetConnectionTable("udp6") ** Append_, Rest(q, {}, 1), Rest(q, M4, 5))
    BY <1>7, <1>10, GoOn
  <2>2. QED BY <1>7, <2>1, GoOn
<1>12. QED BY <1>7, <1>11, GoOn DEF winports

(* The manager stays open and deferred, or a NULL in its place.            *)
LEMMA LeavesService ==
  ASSUME NEW d, NEW o, Found(d, o)
  PROVE  /\ Leaves(Tracked("service") ** Opt(Append_) ** Pop("service"), d, o, Query)
         /\ Leaves(Defer(None) ** Opt(Append_) ** Pop(None), d, o, Query)
<1>1. /\ Sound(d, o) /\ o \ Deferred(d) \subseteq Query /\ Len(d) < MaxHandles
      /\ o \subseteq {"query", "event", "manager", "store"}
  BY DEF Found, Sound, MaxHandles, Query
<1>2. /\ "service" \in Handles \ {None} /\ None \in Handles
      /\ "service" \notin o /\ None \notin o
  BY <1>1, HandleNames DEF None
<1>3. Leaves(Opt(Append_), Append(d, "service"), o \cup {"service"}, Query)
  <2>1. "service" \notin Deferred(d)
    BY <1>1, <1>2 DEF Sound
  <2>2. /\ Sound(Append(d, "service"), o \cup {"service"})
        /\ Deferred(Append(d, "service")) = Deferred(d) \cup {"service"}
    BY <1>1, <1>2, <2>1, MeetsTracked
  <2>3. (o \cup {"service"}) \ Deferred(Append(d, "service")) \subseteq Query
    BY <1>1, <2>2
  <2>4. QED BY <2>2, <2>3, LeavesOps, LeavesCombined
<1>4. Leaves(Opt(Append_), Append(d, None), o, Query)
  <2>1. /\ Sound(Append(d, None), o)
        /\ Deferred(Append(d, None)) = Deferred(d) \cup ({None} \ {None})
    BY <1>1, <1>2, MeetsDefer
  <2>2. o \ Deferred(Append(d, None)) \subseteq Query
    BY <1>1, <2>1
  <2>3. QED BY <2>1, <2>2, LeavesOps, LeavesCombined
<1>5. QED BY <1>1, <1>2, <1>3, <1>4, LeavesTracked, LeavesRefused

LEMMA RestServices == Go(runningservices, Rest({}, {}, 0), Rest({}, {"manager"}, 1))
<1> DEFINE Service == Tracked("service") ** Opt(Append_) ** Pop("service")
           Refused == Defer(None) ** Opt(Append_) ** Pop(None)
           P == Rest({}, {}, 0)
           N == Rest({}, {}, 1)
           Q == Rest({}, {"manager"}, 1)
<1>1. /\ {} \in SUBSET Query
      /\ {} \in SUBSET Own /\ {"manager"} \in SUBSET Own /\ "manager" \in Own
      /\ "manager" \notin {} /\ {} \cup {"manager"} = {"manager"}
      /\ {"manager"} \in SUBSET {"manager", "store"}
  BY DEF Own
<1>2. 0 + 1 = 1 /\ 0 \in 0..7 /\ 1 \in 0..8 /\ 1 \in {0, 1}
  OBVIOUS
<1>3. Go(Defer(None), P, N) /\ Go(Tracked("manager"), P, Q)
  <2>1. /\ Go(Defer(None), Rest({}, {}, 0), Rest({}, {}, 0 + 1))
        /\ Go(Tracked("manager"), Rest({}, {}, 0), Rest({}, {} \cup {"manager"}, 0 + 1))
    BY <1>1, <1>2, RestGoes
  <2>2. QED BY <1>1, <1>2, <2>1
<1>4. /\ Go(Alloc, N, N) /\ Go(Append_, N, N)
      /\ Go(Alloc, Q, Q) /\ Go(Append_, Q, Q) /\ Q \subseteq Holdings
  BY <1>1, <1>2, RestGoes
<1>5. N \subseteq Q
  BY RestMore
<1>6. Go(Service \cup Refused, Q, Q)
  <2>1. Uses(Service \cup Refused, Operations)
    <3>1. /\ "service" \in Handles /\ None \in Handles
          /\ "pop" \in Operations /\ Uses(Opt(Append_), Operations)
      BY HandleNames, AnyOperation, UsesOpt DEF Operations
    <3>2. /\ Uses(Tracked("service"), Operations) /\ Uses(Defer(None), Operations)
          /\ Uses(Pop("service"), Operations) /\ Uses(Pop(None), Operations)
      BY <3>1, AnyOperation, UsesOn DEF Pop
    <3>3. QED BY <3>1, <3>2, UsesThen, UsesOr
  <2>2. ASSUME NEW d, NEW o, Found(d, o) PROVE Leaves(Service \cup Refused, d, o, Query)
    <3>1. Leaves(Service, d, o, Query) /\ Leaves(Refused, d, o, Query) /\ Sound(d, o)
      BY <2>2, LeavesService DEF Found
    <3> HIDE DEF Service, Refused
    <3>2. QED BY <3>1, LeavesCombined
  <2>3. \A d, o : Found(d, o) => Leaves(Service \cup Refused, d, o, Query)
    BY <2>2
  <2> HIDE DEF Service, Refused
  <2>4. QED BY <1>1, <1>2, <2>1, <2>3, RestLeaves DEF Go
<1>7. runningservices = (Defer(None) ** Alloc ** Append_)
        \cup (Tracked("manager") ** Alloc ** Append_ ** Few(Service \cup Refused))
  BY DEF runningservices
<1> HIDE DEF P, N, Q, Service, Refused
<1>8. Go(Defer(None) ** Alloc ** Append_, P, Q)
  <2>1. Go(Defer(None) ** Alloc, P, N)
    BY <1>3, <1>4, GoOn
  <2>2. Go(Defer(None) ** Alloc ** Append_, P, N)
    BY <1>4, <2>1, GoOn
  <2>3. QED BY <1>5, <2>2, GoOn
<1>9. Go(Tracked("manager") ** Alloc ** Append_ ** Few(Service \cup Refused), P, Q)
  <2>1. Go(Tracked("manager") ** Alloc, P, Q)
    BY <1>3, <1>4, GoOn
  <2>2. Go(Tracked("manager") ** Alloc ** Append_, P, Q)
    BY <1>4, <2>1, GoOn
  <2>3. Go(Few(Service \cup Refused), Q, Q)
    BY <1>4, <1>6, GoOn
  <2>4. QED BY <2>2, <2>3, GoOn
<1>10. QED BY <1>7, <1>8, <1>9, GoOn DEF P, Q

(* The manager is closed with what the registry left open.                 *)
LEMMA RestApplications == Go(applications, Rest({}, {"manager"}, 1), Rest({}, {}, 0))
<1> DEFINE P == Rest({}, {"manager"}, 1)
           P1 == Rest({}, {"manager", "key"}, 2)
           Q == Rest({}, {}, 0)
           Q1 == Rest({}, {"key"}, 1)
<1>1. /\ {} \in SUBSET Query /\ "key" \in Own /\ "key" \notin {} /\ "key" \notin {"manager"}
      /\ {{}, {"manager"}, {"key"}, {"manager", "key"}} \subseteq SUBSET Own
      /\ {} \cup {"key"} = {"key"} /\ {"manager"} \cup {"key"} = {"manager", "key"}
  BY DEF Own
<1>2. /\ 0 + 1 = 1 /\ 1 + 1 = 2 /\ 0 \in 0..7 /\ 1 \in 0..7
      /\ 0 \in 0..8 /\ 1 \in 0..8 /\ 2 \in 0..8
  OBVIOUS
<1>3. Go(Tracked("key"), P, P1) /\ Go(Tracked("key"), Q, Q1)
  <2>1. /\ Go(Tracked("key"), Rest({}, {"manager"}, 1), Rest({}, {"manager"} \cup {"key"}, 1 + 1))
        /\ Go(Tracked("key"), Rest({}, {}, 0), Rest({}, {} \cup {"key"}, 0 + 1))
    BY <1>1, <1>2, RestGoes
  <2>2. QED BY <1>1, <1>2, <2>1
<1>4. /\ Go(Alloc, P1, P1) /\ Go(Alloc, Q1, Q1)
      /\ Go(PopAll, P1, Q) /\ Go(PopAll, Q1, Q) /\ Go(Append_, Q, Q)
      /\ P1 \subseteq Holdings /\ Q1 \subseteq Holdings /\ P \subseteq Holdings /\ Q \subseteq Holdings
  BY <1>1, <1>2, RestGoes
<1>5. P \subseteq P1 /\ Q \subseteq Q1
  BY RestMore
<1> HIDE DEF P, P1, Q, Q1
<1>6. Go(InsertApplications, P, P1) /\ Go(InsertApplications, Q, Q1)
  <2>1. Go(Few(Alloc), P1, P1) /\ Go(Few(Alloc), Q1, Q1)
    BY <1>4, GoOn
  <2>2. Go(Tracked("key") ** Few(Alloc), P, P1) /\ Go(Tracked("key") ** Few(Alloc), Q, Q1)
    BY <1>3, <2>1, GoOn
  <2>3. QED BY <1>4, <1>5, <2>2, GoOn DEF InsertApplications
<1>7. Go(InsertApplications ** PopAll, P, Q)
  BY <1>4, <1>6, GoOn
<1>8. Go(InsertApplications ** PopAll ** InsertApplications, P, Q1)
  BY <1>6, <1>7, GoOn
<1>9. Go(InsertApplications ** PopAll ** InsertApplications ** PopAll, P, Q)
  BY <1>4, <1>8, GoOn
<1>10. QED BY <1>4, <1>9, GoOn DEF applications, P, Q

(* The certificate leaves the stack before it is closed.                   *)
LEMMA LeavesCertificate ==
  ASSUME NEW d, NEW o, Found(d, o)
  PROVE  Leaves(Certificate, d, o, Query)
<1> DEFINE c == "certificate"
           e == Append(d, c)
           p == o \cup {c}
           Goes(A, a, q, b, r) == Meets(A, {Holding(a, q)}, {Holding(b, r)}, Query)
<1>1. /\ Sound(d, o) /\ o \ Deferred(d) \subseteq Query /\ Len(d) < MaxHandles
      /\ o \subseteq {"query", "event", "manager", "store"}
  BY DEF Found, Sound, MaxHandles, Query
<1>2. c \in Handles \ {None} /\ c \notin o /\ c \notin Deferred(d) /\ p \ {c} = o
  BY <1>1, HandleNames DEF None, Sound
<1>3. Sound(e, p) /\ p \ Deferred(e) \subseteq Query /\ Goes(Tracked(c), d, o, e, p)
  <2>1. /\ Sound(e, p) /\ Deferred(e) = Deferred(d) \cup {c} /\ Goes(Tracked(c), d, o, e, p)
    BY <1>1, <1>2, MeetsTracked
  <2>2. QED BY <1>1, <2>1
<1>4. Goes(Alloc, e, p, e, p) /\ Goes(Append_, e, p, e, p)
  BY <1>3, LeavesOps DEF Leaves
<1>5. Sound(d, p) /\ c \in p
  BY <1>1, <1>2, MeetsOpen
<1>6. Goes(Ignore, e, p, d, p)
  <2>1. Sound(d, p \ {c})
    BY <1>1, <1>2
  <2> HIDE DEF p
  <2>2. QED BY <1>2, <1>3, <1>5, <2>1, MeetsPop
<1>7. Goes(Close(c), d, p, d, o)
  <2>1. c \in p \ Deferred(d)
    BY <1>2, <1>5
  <2> HIDE DEF p
  <2>2. Goes(Close(c), d, p, d, p \ {c})
    BY <1>2, <1>5, <2>1, MeetsClose
  <2>3. QED BY <1>2, <2>2
<1>8. \A A, B, a, q, b, r, f, s :
        Goes(A, a, q, b, r) /\ Goes(B, b, r, f, s) => Goes(A ** B, a, q, f, s)
  BY MeetsThen
<1> HIDE DEF Goes, p, e
<1>9. Goes(Tracked(c) ** Alloc, d, o, e, p)
  BY <1>3, <1>4, <1>8
<1>10. Goes(Tracked(c) ** Alloc ** Append_, d, o, e, p)
  BY <1>4, <1>8, <1>9
<1>11. Goes(Tracked(c) ** Alloc ** Append_ ** Ignore, d, o, d, p)
  BY <1>6, <1>8, <1>10
<1>12. Goes(Certificate, d, o, d, o)
  BY <1>7, <1>8, <1>11 DEF Certificate
<1>13. QED BY <1>12 DEF Goes, Leaves

LEMMA RestCertificates == Go(certificates, Rest({}, {}, 0), Rest({}, {"store"}, 1))
<1> DEFINE P == Rest({}, {}, 0)
           N == Rest({}, {}, 1)
           Q == Rest({}, {"store"}, 1)
           Twice == Certificate ** Certificate
<1>1. /\ {} \in SUBSET Query
      /\ {} \in SUBSET Own /\ {"store"} \in SUBSET Own /\ "store" \in Own
      /\ "store" \notin {} /\ {} \cup {"store"} = {"store"}
      /\ {"store"} \in SUBSET {"manager", "store"}
  BY DEF Own
<1>2. 0 + 1 = 1 /\ 0 \in 0..7 /\ 0 \in 0..8 /\ 1 \in 0..8 /\ 1 \in {0, 1}
  OBVIOUS
<1>3. Go(Defer(None), P, N) /\ Go(Tracked("store"), P, Q)
  <2>1. /\ Go(Defer(None), Rest({}, {}, 0), Rest({}, {}, 0 + 1))
        /\ Go(Tracked("store"), Rest({}, {}, 0), Rest({}, {} \cup {"store"}, 0 + 1))
    BY <1>1, <1>2, RestGoes
  <2>2. QED BY <1>1, <1>2, <2>1
<1>4. Go(Append_, P, P) /\ Go(Append_, N, N) /\ Go(Append_, Q, Q)
  BY <1>1, <1>2, RestGoes
<1>5. N \subseteq Q
  BY RestMore
<1>6. Go(Certificate, Q, Q)
  <2>1. Uses(Certificate, Operations)
    <3>1. /\ "certificate" \in Handles /\ None \in Handles
          /\ "close" \in Operations /\ "ignore" \in Operations
      BY HandleNames DEF Operations
    <3>2. Uses(Ignore, Operations) /\ Uses(Close("certificate"), Operations)
      BY <3>1, UsesOn DEF Ignore, Close
    <3>3. QED BY <3>1, <3>2, AnyOperation, UsesThen DEF Certificate
  <2>2. \A d, o : Found(d, o) => Leaves(Certificate, d, o, Query)
    BY LeavesCertificate
  <2>3. QED BY <1>1, <1>2, <2>1, <2>2, RestLeaves DEF Go
<1> HIDE DEF P, N, Q
<1>7. Go(Append_ ** Defer(None) ** Append_, P, Q)
  <2>1. Go(Append_ ** Defer(None), P, N)
    BY <1>3, <1>4, GoOn
  <2>2. Go(Append_ ** Defer(None) ** Append_, P, N)
    BY <1>4, <2>1, GoOn
  <2>3. QED BY <1>5, <2>2, GoOn
<1>8. Go(Append_ ** Tracked("store") ** (Append_ \cup Certificate \cup Twice), P, Q)
  <2>1. Go(Append_ ** Tracked("store"), P, Q)
    BY <1>3, <1>4, GoOn
  <2>2. Go(Twice, Q, Q)
    BY <1>6, GoOn
  <2>3. Go(Append_ \cup Certificate, Q, Q)
    BY <1>4, <1>6, GoOn
  <2>4. Go(Append_ \cup Certificate \cup Twice, Q, Q)
    BY <2>2, <2>3, GoOn
  <2>5. QED BY <2>1, <2>4, GoOn
<1>9. QED BY <1>7, <1>8, GoOn DEF certificates, P, Q

(* The store is closed with the log of the events.                         *)
LEMMA RestReboots == Go(reboots, Rest({}, {"store"}, 1), Rest({}, {}, 0))
<1> DEFINE P == Rest({}, {"store"}, 1)
           P1 == Rest({}, {"store", "syslog"}, 2)
           Q == Rest({}, {}, 0)
<1>1. /\ {} \in SUBSET Query /\ "syslog" \in Own /\ "syslog" \notin {"store"}
      /\ {{}, {"store"}, {"store", "syslog"}} \subseteq SUBSET Own
      /\ {"store"} \cup {"syslog"} = {"store", "syslog"}
  BY DEF Own
<1>2. 1 + 1 = 2 /\ 1 \in 0..7 /\ 0 \in 0..8 /\ 1 \in 0..8 /\ 2 \in 0..8
  OBVIOUS
<1>3. Go(Tracked("syslog"), P, P1)
  <2>1. Go(Tracked("syslog"), Rest({}, {"store"}, 1), Rest({}, {"store"} \cup {"syslog"}, 1 + 1))
    BY <1>1, <1>2, RestGoes
  <2>2. QED BY <1>1, <1>2, <2>1
<1>4. /\ Go(Alloc, P1, P1) /\ Go(Rewind, P1, P1) /\ Go(PopAll, P1, Q) /\ Go(Append_, Q, Q)
      /\ P1 \subseteq Holdings /\ P \subseteq Holdings
  BY <1>1, <1>2, RestGoes
<1>5. P \subseteq P1
  BY RestMore
<1> HIDE DEF P, P1, Q
<1>6. Go(LoadEvents, P1, P1)
  <2>1. Go(Opt(Alloc), P1, P1)
    BY <1>4, GoOn
  <2>2. QED BY <1>4, <2>1, GoOn DEF LoadEvents
<1>7. Go(Few(LoadEvents ** Rewind), P1, P1)
  <2>1. Go(LoadEvents ** Rewind, P1, P1)
    BY <1>4, <1>6, GoOn
  <2>2. QED BY <1>4, <2>1, GoOn
<1>8. Go(RecentReboots, P, P1)
  <2>1. Go(Opt(Tracked("syslog")), P, P1)
    BY <1>3, <1>4, <1>5, GoOn
  <2>2. Go(Opt(Tracked("syslog")) ** Few(LoadEvents ** Rewind), P, P1)
    BY <1>7, <2>1, GoOn
  <2>3. Go(Opt(Tracked("syslog")) ** Few(LoadEvents ** Rewind) ** LoadEvents, P, P1)
    BY <1>6, <2>2, GoOn
  <2>4. QED BY <1>4, <2>3, GoOn DEF RecentReboots
<1>9. Go(RecentReboots ** PopAll, P, Q)
  BY <1>4, <1>8, GoOn
<1>10. QED BY <1>4, <1>9, GoOn DEF reboots, P, Q

(* The query is left open with its event, or neither is.                   *)
LEMMA RestStartQuery ==
  Go(StartQuery, Rest({}, {}, 0), Rest({}, {}, 0) \cup Rest(Query, {}, 0))
<1> DEFINE H(q) == {Holding(<<>>, q)}
           q1 == {"query"}
           G == H({}) \cup H(Query)
<1>1. /\ {{}, q1, Query} \subseteq SUBSET Query /\ "query" \in Handles /\ "event" \in Handles
      /\ "query" \in q1 /\ "query" \in Query /\ "event" \in Query
      /\ {} \cup {"query"} = q1 /\ q1 \cup {"event"} = Query
      /\ q1 \ {"query"} = {} /\ Query \ {"query"} = {"event"} /\ {"event"} \ {"event"} = {}
  BY HandleNames DEF Query
<1>2. ASSUME NEW q \in SUBSET Query
      PROVE  /\ Sound(<<>>, q) /\ Rest(q, {}, 0) = H(q) /\ q \ Deferred(<<>>) = q
             /\ H(q) \subseteq Holdings
  BY RestBare, SoundIn, NoneDeferred
<1>3. ASSUME NEW q \in SUBSET Query
      PROVE  /\ Go(Alloc, H(q), H(q))
             /\ \A h \in Handles : Go(Open(h), H(q), H(q \cup {h}))
             /\ \A h \in Handles : h \in q => Go(Close(h), H(q), H(q \ {h}))
  <2>1. Sound(<<>>, q) /\ q \ Deferred(<<>>) = q
    BY <1>2
  <2>2. Go(Alloc, H(q), H(q))
    BY <2>1, MeetsOps DEF Go
  <2>3. \A h \in Handles : Go(Open(h), H(q), H(q \cup {h}))
    BY <2>1, MeetsOpen DEF Go
  <2>4. \A h \in Handles : h \in q => Go(Close(h), H(q), H(q \ {h}))
    BY <2>1, MeetsClose DEF Go
  <2>5. QED BY <2>2, <2>3, <2>4
<1>4. Rest({}, {}, 0) = H({}) /\ Rest(Query, {}, 0) = H(Query) /\ H({}) \subseteq Holdings
  BY <1>1, <1>2
<1>5. /\ Go(Alloc, H({}), H({}))
      /\ Go(Open("query"), H({}), H(q1)) /\ Go(Open("event"), H(q1), H(Query))
      /\ Go(Close("query"), H(q1), H({})) /\ Go(Close("query"), H(Query), H({"event"}))
      /\ Go(Close("event"), H({"event"}), H({}))
  <2>1. Go(Alloc, H({}), H({}))
    BY <1>1, <1>3
  <2>2. Go(Open("query"), H({}), H({} \cup {"query"}))
    BY <1>1, <1>3
  <2>3. Go(Open("event"), H(q1), H(q1 \cup {"event"}))
    BY <1>1, <1>3
  <2>4. Go(Close("query"), H(q1), H(q1 \ {"query"}))
    BY <1>1, <1>3
  <2>5. Go(Close("query"), H(Query), H(Query \ {"query"}))
    BY <1>1, <1>3
  <2>6. {"event"} \in SUBSET Query /\ "event" \in {"event"}
    BY <1>1
  <2>7. Go(Close("event"), H({"event"}), H({"event"} \ {"event"}))
    BY <1>1, <1>3, <2>6
  <2> HIDE DEF H, q1
  <2>8. QED BY <1>1, <2>1, <2>2, <2>3, <2>4, <2>5, <2>7
<1> HIDE DEF H, q1
<1>6. Go(Close("query") \cup (Open("event") ** Close("query") ** Close("event")), H(q1), H({}))
  <2>1. Go(Open("event") ** Close("query"), H(q1), H({"event"}))
    BY <1>5, GoOn
  <2>2. Go(Open("event") ** Close("query") ** Close("event"), H(q1), H({}))
    BY <1>5, <2>1, GoOn
  <2>3. QED BY <1>5, <2>2, GoOn
<1>7. Go(StartQueryFails, H({}), H({}))
  <2> DEFINE NotAdded == Close("query") \cup (Open("event") ** Close("query") ** Close("event"))
  <2>1. StartQueryFails = Alloc ** Opt(Open("query") ** NotAdded)
    BY DEF StartQueryFails
  <2> HIDE DEF NotAdded
  <2>2. Go(Open("query") ** NotAdded, H({}), H({}))
    BY <1>5, <1>6, GoOn DEF NotAdded
  <2>3. Go(Opt(Open("query") ** NotAdded), H({}), H({}))
    BY <1>4, <2>2, GoOn
  <2>4. QED BY <1>5, <2>1, <2>3, GoOn
<1>8. Go(Alloc ** Open("query") ** Open("event"), H({}), H(Query))
  <2>1. Go(Alloc ** Open("query"), H({}), H(q1))
    BY <1>5, GoOn
  <2>2. QED BY <1>5, <2>1, GoOn
<1>9. H({}) \subseteq G /\ H(Query) \subseteq G
  OBVIOUS
<1> HIDE DEF G
<1>10. Go(StartQueryFails, H({}), G) /\ Go(Alloc ** Open("query") ** Open("event"), H({}), G)
  BY <1>7, <1>8, <1>9, GoOn
<1>11. Go(StartQuery, H({}), G)
  BY <1>10, GoOn DEF StartQuery
<1>12. QED BY <1>4, <1>11 DEF G

(* The event and the query are closed, and what they were asked about.     *)
LEMMA RestEndQuery ==
  /\ Go(EndAppendQuery, Rest(Query, {}, 0), Rest({}, {}, 0))
  /\ Go(EndFailedQuery, Rest({}, {}, 0), Rest({}, {}, 0))
<1> DEFINE q1 == {"query"}
           F == Rest(Query, {}, 0)
           P == Rest(q1, {}, 0)
           P1 == Rest(q1, {"process"}, 1)
           P2 == Rest(q1, {"process", "token"}, 2)
           N == Rest(q1, {}, 1)
           Q == Rest({}, {}, 0)
<1>1. /\ {{}, q1, Query} \subseteq SUBSET Query /\ q1 \in SUBSET Query
      /\ "process" \in Own /\ "token" \in Own /\ "process" \notin {} /\ "token" \notin {"process"}
      /\ {{}, {"process"}, {"process", "token"}} \subseteq SUBSET Own
      /\ {} \cup {"process"} = {"process"} /\ {"process"} \cup {"token"} = {"process", "token"}
  BY DEF Own, Query
<1>2. /\ 0 + 1 = 1 /\ 1 + 1 = 2 /\ 0 \in 0..7 /\ 1 \in 0..7
      /\ 0 \in 0..8 /\ 1 \in 0..8 /\ 2 \in 0..8
  OBVIOUS
<1>3. Go(Close("event"), F, P) /\ Go(Close("query"), P, Q)
  <2>1. /\ Sound(<<>>, Query) /\ F = {Holding(<<>>, Query)}
        /\ Sound(<<>>, q1) /\ P = {Holding(<<>>, q1)} /\ Q = {Holding(<<>>, {})}
    BY <1>1, RestBare
  <2>2. /\ "event" \in Query \ Deferred(<<>>) /\ "query" \in q1 \ Deferred(<<>>)
        /\ Query \ {"event"} = q1 /\ q1 \ {"query"} = {}
        /\ "event" \in Handles /\ "query" \in Handles
    BY NoneDeferred, HandleNames DEF Query
  <2>3. /\ Meets(Close("event"), {Holding(<<>>, Query)}, {Holding(<<>>, Query \ {"event"})}, Query)
        /\ Meets(Close("query"), {Holding(<<>>, q1)}, {Holding(<<>>, q1 \ {"query"})}, Query)
    BY <2>1, <2>2, MeetsClose
  <2> HIDE DEF q1, F, P, Q
  <2>4. QED BY <2>1, <2>2, <2>3 DEF Go
<1>4. /\ Go(Defer(None), P, N) /\ Go(Tracked("process"), P, P1) /\ Go(Tracked("token"), P1, P2)
  <2>1. /\ Go(Defer(None), Rest(q1, {}, 0), Rest(q1, {}, 0 + 1))
        /\ Go(Tracked("process"), Rest(q1, {}, 0), Rest(q1, {} \cup {"process"}, 0 + 1))
        /\ Go(Tracked("token"), Rest(q1, {"process"}, 1),
              Rest(q1, {"process"} \cup {"token"}, 1 + 1))
    <3> HIDE DEF q1
    <3>1. QED BY <1>1, <1>2, RestGoes
  <2>2. QED BY <1>1, <1>2, <2>1
<1>5. /\ Go(Alloc, P, P) /\ Go(Alloc, P2, P2) /\ Go(PopAll, P2, P)
      /\ Go(Append_, Q, Q) /\ Go(Alloc, Q, Q)
      /\ P \subseteq Holdings /\ P2 \subseteq Holdings /\ Q \subseteq Holdings
  <2> HIDE DEF q1
  <2>1. /\ Go(Alloc, P, P) /\ P \subseteq Holdings
    BY <1>1, <1>2, RestGoes
  <2>2. /\ Go(Alloc, P2, P2) /\ Go(PopAll, P2, P) /\ P2 \subseteq Holdings
    BY <1>1, <1>2, RestGoes
  <2>3. /\ Go(Append_, Q, Q) /\ Go(Alloc, Q, Q) /\ Q \subseteq Holdings
    BY <1>1, <1>2, RestGoes
  <2>4. QED BY <2>1, <2>2, <2>3
<1>6. P1 \subseteq P2 /\ N \subseteq P2
  BY RestMore
<1> HIDE DEF q1, F, P, P1, P2, N, Q
<1>7. Go(GetProcessUser, P, P2)
  <2>1. Go(Defer(None), P, P2) /\ Go(Tracked("process"), P, P2)
    BY <1>4, <1>6, GoOn
  <2>2. Go(Tracked("process") ** Tracked("token"), P, P2)
    BY <1>4, GoOn
  <2>3. Go(Opt(Alloc), P2, P2)
    BY <1>5, GoOn
  <2>4. Go(Tracked("process") ** Tracked("token") ** Opt(Alloc), P, P2)
    BY <2>2, <2>3, GoOn
  <2>5. Go(Defer(None) \cup Tracked("process"), P, P2)
    BY <2>1, GoOn
  <2>6. QED BY <2>4, <2>5, GoOn DEF GetProcessUser
<1>8. Go(Opt(Alloc ** Few(Alloc ** GetProcessUser ** PopAll)), P, P)
  <2>1. Go(Alloc ** GetProcessUser, P, P2)
    BY <1>5, <1>7, GoOn
  <2>2. Go(Alloc ** GetProcessUser ** PopAll, P, P)
    BY <1>5, <2>1, GoOn
  <2>3. Go(Few(Alloc ** GetProcessUser ** PopAll), P, P)
    BY <1>5, <2>2, GoOn
  <2>4. Go(Alloc ** Few(Alloc ** GetProcessUser ** PopAll), P, P)
    BY <1>5, <2>3, GoOn
  <2>5. QED BY <1>5, <2>4, GoOn
<1>9. Go(AwaitSummarizeQuery, F, Q)
  <2>1. Go(Close("event") ** Opt(Alloc ** Few(Alloc ** GetProcessUser ** PopAll)), F, P)
    BY <1>3, <1>8, GoOn
  <2>2. QED BY <1>3, <2>1, GoOn DEF AwaitSummarizeQuery
<1>10. Go(Append_ \cup (Append_ ** Alloc ** Append_ ** Alloc ** Append_ ** Alloc ** Append_), Q, Q)
  <2>1. Go(Append_ ** Alloc, Q, Q)
    BY <1>5, GoOn
  <2>2. Go(Append_ ** Alloc ** Append_, Q, Q)
    BY <1>5, <2>1, GoOn
  <2>3. Go(Append_ ** Alloc ** Append_ ** Alloc, Q, Q)
    BY <1>5, <2>2, GoOn
  <2>4. Go(Append_ ** Alloc ** Append_ ** Alloc ** Append_, Q, Q)
    BY <1>5, <2>3, GoOn
  <2>5. Go(Append_ ** Alloc ** Append_ ** Alloc ** Append_ ** Alloc, Q, Q)
    BY <1>5, <2>4, GoOn
  <2>6. Go(Append_ ** Alloc ** Append_ ** Alloc ** Append_ ** Alloc ** Append_, Q, Q)
    BY <1>5, <2>5, GoOn
  <2>7. QED BY <1>5, <2>6, GoOn
<1>11. Go(EndAppendQuery, F, Q)
  BY <1>9, <1>10, GoOn DEF EndAppendQuery
<1>12. QED BY <1>5, <1>11 DEF EndFailedQuery, F, Q

-----------------------------------------------------------------------------
(* What is held when k steps are done, and q is open for the query.        *)
Between(k, q) ==
  IF k \in 1..8 \/ k \in {20, 21} THEN Rest(q, {}, 0)
  ELSE IF k \in 9..19 THEN Rest(q, {}, 1)
  ELSE IF k \in 23..27 THEN Rest({}, {"manager"}, 1)
  ELSE IF k = 30 THEN Rest({}, {"store"}, 1)
  ELSE Rest({}, {}, 0)

(* What a long jump out of the collector may lose.                         *)
Lost(name) ==
  Query \cup (IF name \in {"ipconfig", "winroute"} THEN Child
              ELSE IF name = "eventlog" THEN Batch ELSE {})

(* The steps that hand on more or less than they found.                    *)
Uneven == {8, 19, 21, 22, 27, 29, 30}

Balanced ==
  {"text", "date", "osversion", "winuptime", "who", "diskinfo", "winmemory", "ipconfig",
   "winroute", "eventlog", "clientversion", "clock"}

LEMMA LeavesBalanced ==
  ASSUME NEW name \in Balanced
  PROVE  /\ Uses(Begins(name), Operations)
         /\ \A d, o : Found(d, o) => Leaves(Begins(name), d, o, Lost(name))
<1>1. name \in Names
  BY DEF Balanced, Names, QuietNames, Scratch
<1>2. Uses(Begins(name), Operations)
  BY <1>1, DeepBegins DEF Deep
<1>3. ASSUME NEW d, NEW o, Found(d, o) PROVE Leaves(Begins(name), d, o, Lost(name))
  <2>1. CASE name \in {"text", "date", "winuptime", "clientversion", "clock"}
    <3>1. Begins(name) = Append_ /\ Lost(name) = Query
      BY <2>1 DEF Begins, Paths, date, winuptime, clientversion, clock, Lost
    <3>2. QED BY <1>3, <3>1, LeavesSimple
  <2>2. CASE name = "osversion"
    <3>1. Begins(name) = osversion /\ Lost(name) = Query
      BY <2>2 DEF Begins, Paths, Lost
    <3>2. QED BY <1>3, <3>1, LeavesSimple
  <2>3. CASE name = "who"
    <3>1. Begins(name) = who /\ Lost(name) = Query
      BY <2>3 DEF Begins, Paths, Lost
    <3>2. QED BY <1>3, <3>1, LeavesSimple
  <2>4. CASE name = "winmemory"
    <3>1. Begins(name) = winmemory /\ Lost(name) = Query
      BY <2>4 DEF Begins, Paths, Lost
    <3>2. QED BY <1>3, <3>1, LeavesSimple
  <2>5. CASE name = "diskinfo"
    <3>1. Begins(name) = diskinfo /\ Lost(name) = Query
      BY <2>5 DEF Begins, Paths, Lost
    <3>2. QED BY <1>3, <3>1, LeavesDiskinfo
  <2>6. CASE name \in {"ipconfig", "winroute"}
    <3>1. Begins(name) = Append_ ** RunCmdSynchronously /\ Lost(name) = Query \cup Child
      BY <2>6 DEF Begins, Paths, ipconfig, winroute, Lost
    <3>2. QED BY <1>3, <3>1, LeavesCommand
  <2>7. CASE name = "eventlog"
    <3>1. Begins(name) = eventlog /\ Lost(name) = Query \cup Batch
      BY <2>7 DEF Begins, Paths, Lost
    <3>2. QED BY <1>3, <3>1, LeavesEventlog
  <2>8. QED BY <2>1, <2>2, <2>3, <2>4, <2>5, <2>6, <2>7 DEF Balanced
<1>4. QED BY <1>2, <1>3

LEMMA UnevenNames ==
  /\ Program[9] = "bios" /\ Program[20] = "winports" /\ Program[22] = "EndAppendQuery"
  /\ Program[23] = "runningservices" /\ Program[28] = "applications"
  /\ Program[30] = "certificates" /\ Program[31] = "reboots"
  /\ \A k \in 1..34 \ Uneven : Program[k + 1] \in Balanced
<1>1. /\ Program[9] = "bios" /\ Program[20] = "winports" /\ Program[22] = "EndAppendQuery"
      /\ Program[23] = "runningservices" /\ Program[28] = "applications"
      /\ Program[30] = "certificates" /\ Program[31] = "reboots"
  BY DEF Program
<1>2. ASSUME NEW j \in 2..35, j \notin {9, 20, 22, 23, 28, 30, 31} PROVE Program[j] \in Balanced
  BY <1>2 DEF Program, Balanced
<1>3. ASSUME NEW k \in 1..34 \ Uneven PROVE Program[k + 1] \in Balanced
  <2>1. k + 1 \in 2..35 /\ k + 1 \notin {9, 20, 22, 23, 28, 30, 31}
    BY DEF Uneven
  <2>2. QED BY <1>2, <2>1
<1>4. QED BY <1>1, <1>3

LEMMA BetweenKept ==
  ASSUME NEW k \in 1..34 \ Uneven, NEW q \in SUBSET Query
  PROVE  /\ Between(k + 1, q) = Between(k, q)
         /\ \E p \in SUBSET Query, M \in SUBSET {"manager", "store"}, n \in {0, 1} :
              Between(k, q) = Rest(p, M, n)
<1>1. \/ k \in 1..7 \/ k \in 9..18 \/ k = 20 \/ k \in 23..26 \/ k = 28 \/ k \in 31..34
  BY DEF Uneven
<1>2. Between(k + 1, q) = Between(k, q)
  BY <1>1 DEF Between
<1>3. Between(k, q) \in {Rest(q, {}, 0), Rest(q, {}, 1), Rest({}, {"manager"}, 1), Rest({}, {}, 0)}
  BY <1>1 DEF Between
<1>4. /\ {} \in SUBSET Query /\ {} \in SUBSET {"manager", "store"}
      /\ {"manager"} \in SUBSET {"manager", "store"} /\ 0 \in {0, 1} /\ 1 \in {0, 1}
  OBVIOUS
<1>5. QED BY <1>2, <1>3, <1>4

(* What the collector of step k + 1 does from where step k left off.       *)
LEMMA StepGoes ==
  ASSUME NEW k \in 1..34, NEW q \in {{}, Query}, k = 21 => (queried <=> q = Query),
         queried \in BOOLEAN
  PROVE  Meets(Begins(Program[k + 1]), Between(k, q), Between(k + 1, q), Lost(Program[k + 1]))
<1>1. q \in SUBSET Query /\ Query # {}
  BY DEF Query
<1>2. CASE k \notin Uneven
  <2> DEFINE name == Program[k + 1]
  <2>1. name \in Balanced
    BY <1>2, UnevenNames
  <2>2. PICK p \in SUBSET Query, M \in SUBSET {"manager", "store"}, n \in {0, 1} :
          Between(k, q) = Rest(p, M, n)
    BY <1>1, <1>2, BetweenKept
  <2>3. Between(k + 1, q) = Rest(p, M, n)
    BY <1>1, <1>2, <2>2, BetweenKept
  <2> HIDE DEF name
  <2>4. Meets(Begins(name), Rest(p, M, n), Rest(p, M, n), Lost(name))
    BY <2>1, LeavesBalanced, RestLeaves
  <2>5. QED BY <2>2, <2>3, <2>4 DEF name
<1>3. CASE k = 8
  <2>1. Between(k, q) = Rest(q, {}, 0) /\ Between(k + 1, q) = Rest(q, {}, 1)
    BY <1>3 DEF Between
  <2>2. Begins(Program[k + 1]) = bios /\ Lost(Program[k + 1]) = Query
    BY <1>3, UnevenNames DEF Begins, Paths, Lost
  <2>3. QED BY <1>1, <2>1, <2>2, RestBios DEF Go
<1>4. CASE k = 19
  <2>1. Between(k, q) = Rest(q, {}, 1) /\ Between(k + 1, q) = Rest(q, {}, 0)
    BY <1>4 DEF Between
  <2>2. Begins(Program[k + 1]) = winports /\ Lost(Program[k + 1]) = Query
    BY <1>4, UnevenNames DEF Begins, Paths, Lost
  <2>3. QED BY <1>1, <2>1, <2>2, RestWinports DEF Go
<1>5. CASE k = 21
  <2>1. Between(k, q) = Rest(q, {}, 0) /\ Between(k + 1, q) = Rest({}, {}, 0)
    BY <1>5 DEF Between
  <2>2. Lost(Program[k + 1]) = Query /\ Program[k + 1] = "EndAppendQuery"
    BY <1>5, UnevenNames DEF Lost
  <2>3. CASE q = Query
    <3>1. Begins(Program[k + 1]) = EndAppendQuery
      BY <1>5, <2>2, <2>3 DEF Begins, Paths
    <3>2. QED BY <2>1, <2>2, <2>3, <3>1, RestEndQuery DEF Go
  <2>4. CASE q = {}
    <3>1. Begins(Program[k + 1]) = EndFailedQuery
      BY <1>1, <1>5, <2>2, <2>4 DEF Begins
    <3>2. QED BY <2>1, <2>2, <2>4, <3>1, RestEndQuery DEF Go
  <2>5. QED BY <2>3, <2>4
<1>6. CASE k = 22
  <2>1. Between(k, q) = Rest({}, {}, 0) /\ Between(k + 1, q) = Rest({}, {"manager"}, 1)
    BY <1>6 DEF Between
  <2>2. Begins(Program[k + 1]) = runningservices /\ Lost(Program[k + 1]) = Query
    BY <1>6, UnevenNames DEF Begins, Paths, Lost
  <2>3. QED BY <2>1, <2>2, RestServices DEF Go
<1>7. CASE k = 27
  <2>1. Between(k, q) = Rest({}, {"manager"}, 1) /\ Between(k + 1, q) = Rest({}, {}, 0)
    BY <1>7 DEF Between
  <2>2. Begins(Program[k + 1]) = applications /\ Lost(Program[k + 1]) = Query
    BY <1>7, UnevenNames DEF Begins, Paths, Lost
  <2>3. QED BY <2>1, <2>2, RestApplications DEF Go
<1>8. CASE k = 29
  <2>1. Between(k, q) = Rest({}, {}, 0) /\ Between(k + 1, q) = Rest({}, {"store"}, 1)
    BY <1>8 DEF Between
  <2>2. Begins(Program[k + 1]) = certificates /\ Lost(Program[k + 1]) = Query
    BY <1>8, UnevenNames DEF Begins, Paths, Lost
  <2>3. QED BY <2>1, <2>2, RestCertificates DEF Go
<1>9. CASE k = 30
  <2>1. Between(k, q) = Rest({}, {"store"}, 1) /\ Between(k + 1, q) = Rest({}, {}, 0)
    BY <1>9 DEF Between
  <2>2. Begins(Program[k + 1]) = reboots /\ Lost(Program[k + 1]) = Query
    BY <1>9, UnevenNames DEF Begins, Paths, Lost
  <2>3. QED BY <2>1, <2>2, RestReboots DEF Go
<1>10. QED BY <1>2, <1>3, <1>4, <1>5, <1>6, <1>7, <1>8, <1>9 DEF Uneven

-----------------------------------------------------------------------------
(* The inductive invariant of the handles: the rest of the running step    *)
(* goes well from what is held now, and leads to what the next step is to  *)
(* find; and once the jump is taken, what it loses is what it may lose.    *)
Asked == IF queried THEN Query ELSE {}

Goal ==
  IF step = 0 THEN Rest({}, {}, 0) \cup Rest(Query, {}, 0) ELSE Between(step + 1, Asked)

Held == Holding(stack, open)

HandleInv ==
  /\ HandlesMatch
  /\ NothingLeftOpen
  /\ step = 0 => ~queried
  /\ message = Nil /\ err = 0 => Runs(ops, Held, Goal, Lost(Name))
  /\ message = Nil /\ err # 0 =>
       step < Steps /\ Sound(stack, open) /\ open \ Deferred(stack) \subseteq Lost(Name)

(* The first operation of s, and the rest.                                 *)
LEMMA RunsTail ==
  ASSUME NEW s \in Seq([op : Operations, handle : Handles]), s # <<>>,
         NEW x, NEW Q, NEW lost, Runs(s, x, Q, lost)
  PROVE  x \in Holdings /\ \E y : Moves(Head(s), x, y, lost) /\ Runs(Tail(s), y, Q, lost)
<1>1. PICK f : Walks(f, s, lost) /\ f[0] = x /\ f[Len(s)] \in Q
  BY DEF Runs
<1>2. Len(s) \in Nat /\ Len(s) >= 1 /\ Head(s) = s[1]
  OBVIOUS
<1>3. /\ Len(Tail(s)) = Len(s) - 1
      /\ \A i \in 1..Len(Tail(s)) : Tail(s)[i] = s[i + 1]
  OBVIOUS
<1>4. f \in [0..Len(s) -> Holdings] /\ \A i \in 1..Len(s) : Moves(s[i], f[i - 1], f[i], lost)
  BY <1>1 DEF Walks
<1>5. x \in Holdings /\ Moves(Head(s), x, f[1], lost)
  <2>1. 0 \in 0..Len(s) /\ 1 \in 1..Len(s) /\ 1 - 1 = 0
    BY <1>2
  <2>2. QED BY <1>1, <1>2, <1>4, <2>1
<1> DEFINE g == [i \in 0..Len(Tail(s)) |-> f[i + 1]]
<1>6. Walks(g, Tail(s), lost)
  <2>1. g \in [0..Len(Tail(s)) -> Holdings]
    BY <1>2, <1>3, <1>4
  <2>2. ASSUME NEW i \in 1..Len(Tail(s)) PROVE Moves(Tail(s)[i], g[i - 1], g[i], lost)
    <3>1. /\ i + 1 \in 1..Len(s) /\ Tail(s)[i] = s[i + 1] /\ g[i - 1] = f[(i + 1) - 1]
          /\ g[i] = f[i + 1]
      BY <1>2, <1>3
    <3> HIDE DEF g
    <3>2. QED BY <1>4, <3>1
  <2>3. QED BY <2>1, <2>2 DEF Walks
<1>7. g[0] = f[1] /\ g[Len(Tail(s))] = f[Len(s)]
  BY <1>2, <1>3
<1> HIDE DEF g
<1>8. Runs(Tail(s), f[1], Q, lost)
  BY <1>1, <1>6, <1>7 DEF Runs
<1>9. QED BY <1>5, <1>8

LEMMA HandleInit == Init => HandleInv
<1> SUFFICES ASSUME Init PROVE HandleInv
  OBVIOUS
<1>1. /\ step = 0 /\ ops \in StartQuery /\ stack = <<>> /\ open = {} /\ misuse = {}
      /\ queried = FALSE /\ err = 0 /\ message = Nil /\ Name = "StartQuery"
  BY ProgramFacts DEF Init, Paths, Name
<1>2. Held \in Rest({}, {}, 0)
  BY <1>1, RestBare DEF Held
<1>3. Runs(ops, Held, Goal, Lost(Name))
  <2>1. Goal = Rest({}, {}, 0) \cup Rest(Query, {}, 0) /\ Lost(Name) = Query
    BY <1>1 DEF Goal, Lost
  <2>2. QED BY <1>1, <1>2, <2>1, RestStartQuery DEF Go, Meets
<1>4. QED BY <1>1, <1>3 DEF HandleInv, HandlesMatch, NothingLeftOpen

(* What the operation that is taken does to the holding.                   *)
LEMMA HoldTaken ==
  ASSUME StackInv, ClientInv, HandleInv, NEW op, Does(op)
  PROVE  /\ step < Steps /\ Sound(stack, open) /\ handle \in Handles
         /\ Head(ops).op = op /\ Held.stack = stack /\ Held.open = open
         /\ \E y : Moves(Head(ops), Held, y, Lost(Name)) /\ Runs(ops', y, Goal, Lost(Name))
<1>1. /\ ops # <<>> /\ ops' = Tail(ops) /\ Head(ops).op = op
      /\ message = Nil /\ err = 0
  BY DEF Does
<1>2. step < Steps
  BY OpDone DEF ClientInv
<1>3. ops \in Seq([op : Operations, handle : Handles]) /\ Runs(ops, Held, Goal, Lost(Name))
  BY <1>1 DEF StackInv, OpsTyped, HandleInv
<1>4. /\ Held \in Holdings
      /\ \E y : Moves(Head(ops), Held, y, Lost(Name)) /\ Runs(ops', y, Goal, Lost(Name))
  BY <1>1, <1>3, RunsTail
<1>5. Sound(stack, open) /\ Held.stack = stack /\ Held.open = open
  BY <1>4, SoundIn DEF Held
<1>6. QED BY <1>1, <1>2, <1>4, <1>5, OpTaken

LEMMA HoldKept ==
  ASSUME StackInv, ClientInv, HandleInv, NEW op, Does(op),
         misuse' \subseteq {"session"}, err' # 2,
         \/ err' = 0 /\ Runs(ops', Held', Goal, Lost(Name))
         \/ /\ err' # 0 /\ UNCHANGED <<stack, open>>
            /\ open \ Deferred(stack) \subseteq Lost(Name)
  PROVE  HandleInv'
<1>1. step < Steps /\ Sound(stack, open)
  BY HoldTaken
<1>2. UNCHANGED <<step, queried, message>> /\ message = Nil
  BY DEF Does
<1>3. Goal' = Goal /\ Name' = Name /\ Steps' = Steps
  BY <1>2 DEF Goal, Name, Asked, Steps
<1>4. /\ (step = 0 => ~queried)' /\ HandlesMatch' /\ NothingLeftOpen'
  BY <1>2 DEF HandleInv, HandlesMatch, NothingLeftOpen
<1>5. (message = Nil /\ err = 0 => Runs(ops, Held, Goal, Lost(Name)))'
  BY <1>3
<1>6. (message = Nil /\ err # 0 =>
         step < Steps /\ Sound(stack, open) /\ open \ Deferred(stack) \subseteq Lost(Name))'
  BY <1>1, <1>2, <1>3
<1>7. QED BY <1>4, <1>5, <1>6 DEF HandleInv

(* A handle stands on a sound stack once, so closing everything closes     *)
(* nothing twice.                                                          *)
LEMMA ClosedOnce ==
  ASSUME Sound(stack, open), CloseAll
  PROVE  /\ stack' = <<>> /\ misuse' = misuse
         /\ open' = open \ Deferred(stack)
<1> DEFINE deferred == {stack[i] : i \in 1..Len(stack)} \ {None}
           places(h) == {i \in 1..Len(stack) : stack[i] = h}
           twice == {h \in deferred : Cardinality(places(h)) > 1}
<1>1. /\ stack' = <<>> /\ open' = open \ deferred
      /\ misuse' = misuse \cup twice \cup (deferred \ open)
  BY DEF CloseAll
<1>2. deferred = Deferred(stack)
  BY DEF Deferred
<1>3. deferred \ open = {}
  BY <1>2 DEF Sound
<1>4. ASSUME NEW h \in deferred PROVE ~(Cardinality(places(h)) > 1)
  <2>1. PICK i \in 1..Len(stack) : stack[i] = h
    OBVIOUS
  <2>2. places(h) = {i}
    BY <2>1 DEF Sound, Once
  <2>3. Cardinality({i}) = 1
    BY FS_Singleton
  <2> HIDE DEF places
  <2>4. QED BY <2>2, <2>3
<1>5. twice = {}
  BY <1>4
<1>6. QED BY <1>1, <1>2, <1>3, <1>5

LEMMA HandleStays ==
  StackInv /\ ClientInv /\ FlagsTyped /\ HandleInv /\ [Next]_vars => HandleInv'
<1> SUFFICES ASSUME StackInv, ClientInv, FlagsTyped, HandleInv, [Next]_vars PROVE HandleInv'
  OBVIOUS
<1>1. misuse \subseteq {"session"} /\ err # 2
  BY DEF HandleInv, HandlesMatch
<1>2. CASE ArenaAppend \/ ArenaAllocate
  <2>1. PICK op \in {"append", "alloc"} : Does(op)
    BY <1>2 DEF ArenaAppend, ArenaAllocate
  <2>2. err = 0 /\ UNCHANGED <<stack, open, misuse>> /\ err' \in {0, 1}
    BY <1>2 DEF ArenaAppend, ArenaAllocate, Does, handles, ThrowError
  <2>3. PICK y : Moves(Head(ops), Held, y, Lost(Name)) /\ Runs(ops', y, Goal, Lost(Name))
    BY <2>1, HoldTaken
  <2>4. Head(ops).op \in {"append", "alloc"} /\ Held.stack = stack /\ Held.open = open
    BY <2>1, HoldTaken
  <2>5. y = Held /\ open \ Deferred(stack) \subseteq Lost(Name)
    BY <2>3, <2>4 DEF Moves
  <2>6. Held' = Held
    BY <2>2 DEF Held
  <2>7. QED BY <1>1, <2>1, <2>2, <2>3, <2>5, <2>6, HoldKept
<1>3. ASSUME NEW op, Does(op), UNCHANGED err, misuse' \subseteq {"session"},
             \A y : Moves(Head(ops), Held, y, Lost(Name)) => y = Held'
      PROVE  HandleInv'
  <2>1. PICK y : Moves(Head(ops), Held, y, Lost(Name)) /\ Runs(ops', y, Goal, Lost(Name))
    BY <1>3, HoldTaken
  <2>2. Runs(ops', Held', Goal, Lost(Name)) /\ err' = 0
    BY <1>3, <2>1 DEF Does
  <2>3. QED BY <1>3, <2>2, HoldKept
<1>4. CASE RewindArena
  <2>1. Does("rewind") /\ UNCHANGED <<stack, open, misuse, err>>
    BY <1>4 DEF RewindArena, handles
  <2>2. Head(ops).op = "rewind" /\ Held' = Held
    BY <2>1 DEF Does, Held
  <2>3. QED BY <1>1, <1>3, <2>1, <2>2 DEF Moves
<1>5. CASE OpenHandle
  <2>1. Does("open") /\ UNCHANGED <<stack, misuse, err>> /\ open' = open \cup {handle}
    BY <1>5 DEF OpenHandle
  <2>2. Head(ops).op = "open" /\ Held.stack = stack /\ Held.open = open
    BY <2>1, HoldTaken
  <2>3. Held' = Holding(stack, open \cup {Head(ops).handle})
    BY <2>1 DEF Held, handle
  <2>4. \A y : Moves(Head(ops), Held, y, Lost(Name)) => y = Held'
    BY <2>2, <2>3 DEF Moves
  <2>5. QED BY <1>1, <1>3, <2>1, <2>4
<1>6. CASE CloseDirectly
  <2>1. Does("close") /\ CloseHandle(handle, handle) /\ UNCHANGED <<stack, err>>
    BY <1>6 DEF CloseDirectly
  <2>2. Head(ops).op = "close" /\ Held.stack = stack /\ Held.open = open
    BY <2>1, HoldTaken
  <2>3. \E y : Moves(Head(ops), Held, y, Lost(Name))
    BY <2>1, HoldTaken
  <2>4. handle \in open \cup {"session"}
    BY <2>2, <2>3 DEF Moves, handle
  <2>5. misuse' \subseteq {"session"} /\ open' = open \ {handle}
    BY <1>1, <2>1, <2>4 DEF CloseHandle
  <2>6. Held' = Holding(stack, open \ {Head(ops).handle})
    BY <2>1, <2>5 DEF Held, handle
  <2>7. \A y : Moves(Head(ops), Held, y, Lost(Name)) => y = Held'
    BY <2>2, <2>6 DEF Moves
  <2>8. QED BY <1>3, <2>1, <2>5, <2>7
<1>7. CASE DeferHandle
  <2>1. /\ Does("defer") /\ UNCHANGED <<open, misuse>>
        /\ IF Len(stack) >= MaxHandles
           THEN ThrowError(2) /\ UNCHANGED stack
           ELSE stack' = Append(stack, handle) /\ UNCHANGED err
    BY <1>7 DEF DeferHandle
  <2>2. Head(ops).op = "defer" /\ Held.stack = stack /\ Held.open = open
    BY <2>1, HoldTaken
  <2>3. \E y : Moves(Head(ops), Held, y, Lost(Name))
    BY <2>1, HoldTaken
  <2>4. ~(Len(stack) >= MaxHandles)
    <3>1. Len(stack) < MaxHandles
      BY <2>2, <2>3 DEF Moves
    <3>2. Len(stack) \in Nat
      BY <2>1, OpTaken
    <3>3. QED BY <3>1, <3>2 DEF MaxHandles
  <2>5. Held' = Holding(Append(stack, Head(ops).handle), open)
    BY <2>1, <2>4 DEF Held, handle
  <2>6. \A y : Moves(Head(ops), Held, y, Lost(Name)) => y = Held'
    BY <2>2, <2>5 DEF Moves
  <2>7. QED BY <1>1, <1>3, <2>1, <2>4, <2>6
<1>8. CASE IgnorePopDefer
  <2>1. /\ Does("ignore") /\ UNCHANGED <<open, misuse, err>>
        /\ stack' = IF stack = <<>> THEN stack ELSE SubSeq(stack, 1, Len(stack) - 1)
    BY <1>8 DEF IgnorePopDefer
  <2>2. Head(ops).op = "ignore" /\ Held.stack = stack /\ Held.open = open
    BY <2>1, HoldTaken
  <2>3. \E y : Moves(Head(ops), Held, y, Lost(Name))
    BY <2>1, HoldTaken
  <2>4. stack # <<>>
    BY <2>2, <2>3 DEF Moves
  <2>5. Held' = Holding(SubSeq(stack, 1, Len(stack) - 1), open)
    BY <2>1, <2>4 DEF Held
  <2>6. \A y : Moves(Head(ops), Held, y, Lost(Name)) => y = Held'
    BY <2>2, <2>5 DEF Moves
  <2>7. QED BY <1>1, <1>3, <2>1, <2>6
<1>9. CASE PopDefer
  <2>1. /\ Does("pop") /\ CloseHandle(stack[Len(stack)], handle) /\ UNCHANGED err
        /\ stack' = SubSeq(stack, 1, Len(stack) - 1)
    BY <1>9 DEF PopDefer
  <2>2. Head(ops).op = "pop" /\ Held.stack = stack /\ Held.open = open
    BY <2>1, HoldTaken
  <2>3. \E y : Moves(Head(ops), Held, y, Lost(Name))
    BY <2>1, HoldTaken
  <2>4. stack[Len(stack)] = handle /\ handle \in open \cup {None}
    BY <2>2, <2>3 DEF Moves, handle
  <2>5. misuse' \subseteq {"session"} /\ open' = open \ {handle}
    BY <1>1, <2>1, <2>4 DEF CloseHandle
  <2>6. Held' = Holding(SubSeq(stack, 1, Len(stack) - 1), open \ {Head(ops).handle})
    BY <2>1, <2>5 DEF Held, handle
  <2>7. \A y : Moves(Head(ops), Held, y, Lost(Name)) => y = Held'
    BY <2>2, <2>6 DEF Moves
  <2>8. QED BY <1>3, <2>1, <2>5, <2>7
<1>10. CASE PopDeferAll
  <2>1. Does("popall") /\ CloseAll /\ UNCHANGED err
    BY <1>10 DEF PopDeferAll
  <2>2. Head(ops).op = "popall" /\ Held.stack = stack /\ Held.open = open /\ Sound(stack, open)
    BY <2>1, HoldTaken
  <2>3. stack' = <<>> /\ misuse' = misuse /\ open' = open \ Deferred(stack)
    BY <1>1, <2>1, <2>2, ClosedOnce
  <2>4. Held' = Holding(<<>>, open \ Deferred(stack))
    BY <2>3 DEF Held
  <2>5. \A y : Moves(Head(ops), Held, y, Lost(Name)) => y = Held'
    BY <2>2, <2>4 DEF Moves
  <2>6. QED BY <1>1, <1>3, <2>1, <2>3, <2>5
<1>11. CASE Return
  <2>1. /\ message = Nil /\ err = 0 /\ ops = <<>> /\ step < Steps /\ step' = step + 1
        /\ ops' \in IF step + 1 < Steps THEN Begins(Program[step + 2]) ELSE {<<>>}
        /\ QueryStarted /\ UNCHANGED <<stack, open, misuse, err, message>>
    BY <1>11 DEF Return, handles
  <2>2. Held \in Goal /\ Held' = Held
    BY <2>1, RunsNothing DEF HandleInv, Held
  <2>3. step \in 0..34 /\ Steps = 35 /\ queried \in BOOLEAN
    <3>1. step \in 0..Steps
      BY DEF ClientInv, ProgramOK
    <3>2. step \in 0..34 /\ Steps = 35
      BY <2>1, <3>1, ProgramFacts
    <3>3. QED BY <3>2, Zenon DEF FlagsTyped
  <2>4. /\ Held \in Between(step + 1, Asked')
        /\ step # 0 => (queried' <=> queried)
        /\ queried' \in BOOLEAN
    <3>1. queried' = (queried \/ (step = 0 /\ "query" \in open))
      BY <2>1 DEF QueryStarted
    <3>2. queried' \in BOOLEAN /\ (step # 0 => (queried' <=> queried))
      BY <2>3, <3>1, Zenon
    <3>3. CASE step # 0
      <4>1. Asked' = Asked
        BY <3>2, <3>3 DEF Asked
      <4>2. Goal = Between(step + 1, Asked)
        BY <3>3 DEF Goal
      <4>3. Held \in Between(step + 1, Asked)
        BY <2>2, <4>2
      <4>4. QED BY <3>2, <4>1, <4>3
    <3>4. CASE step = 0
      <4>1. ~queried
        BY <3>4 DEF HandleInv
      <4>2. Rest({}, {}, 0) = {Holding(<<>>, {})} /\ Rest(Query, {}, 0) = {Holding(<<>>, Query)}
        BY RestBare
      <4>3. Held.open = open /\ Holding(<<>>, {}).open = {} /\ Holding(<<>>, Query).open = Query
        BY DEF Held, Holding
      <4>4. \/ Held = Holding(<<>>, {}) /\ open = {}
            \/ Held = Holding(<<>>, Query) /\ open = Query
        BY <2>2, <3>4, <4>2, <4>3 DEF Goal
      <4>5. queried' <=> "query" \in open
        BY <3>1, <3>4, <4>1, Zenon
      <4>6. Asked' = IF "query" \in open THEN Query ELSE {}
        BY <4>5 DEF Asked
      <4>7. Held = Holding(<<>>, Asked') /\ Asked' \in {{}, Query}
        BY <4>4, <4>6 DEF Query
      <4>8. Between(step + 1, Asked') = Rest(Asked', {}, 0)
        BY <3>4 DEF Between
      <4>9. Rest(Asked', {}, 0) = {Holding(<<>>, Asked')}
        BY <4>2, <4>7
      <4>10. QED BY <3>2, <3>4, <4>7, <4>8, <4>9
    <3>5. QED BY <3>2, <3>3, <3>4
  <2>5. step' # 0 /\ Goal' = Between(step + 2, Asked')
    <3>1. step' = step + 1 /\ step' # 0 /\ step' + 1 = step + 2
      BY <2>1, <2>3
    <3>2. QED BY <3>1 DEF Goal
  <2>6. Runs(ops', Held, Goal', Lost(Name'))
    <3> DEFINE q == Asked'
               k == step + 1
    <3>1. CASE step + 1 < Steps
      <4>1. /\ k \in 1..34 /\ k + 1 = step + 2 /\ Name' = Program[k + 1]
            /\ ops' \in Begins(Program[k + 1])
        BY <2>1, <2>3, <3>1 DEF Name
      <4>2. q \in {{}, Query} /\ (queried' <=> q = Query)
        BY DEF Asked, Query
      <4>3. k = 21 => (queried <=> q = Query)
        BY <2>3, <2>4, <4>2
      <4> HIDE DEF k, q
      <4>4. Meets(Begins(Program[k + 1]), Between(k, q), Between(k + 1, q), Lost(Program[k + 1]))
        BY <2>3, <4>1, <4>2, <4>3, StepGoes
      <4>5. Held \in Between(k, q) /\ Goal' = Between(k + 1, q)
        BY <2>4, <2>5, <4>1 DEF k, q
      <4>6. QED BY <4>1, <4>4, <4>5 DEF Meets
    <3>2. CASE ~(step + 1 < Steps)
      <4>1. k = 35 /\ step + 2 = 36 /\ ops' = <<>>
        BY <2>1, <2>3, <3>2
      <4>2. Between(k, q) = Rest({}, {}, 0) /\ Between(step + 2, q) = Rest({}, {}, 0)
        <5>1. \A p : Between(35, p) = Rest({}, {}, 0) /\ Between(36, p) = Rest({}, {}, 0)
          BY DEF Between
        <5> HIDE DEF k, q
        <5>2. QED BY <4>1, <5>1
      <4>3. Held \in Goal'
        BY <2>4, <2>5, <4>2
      <4>4. Held \in Holdings
        BY <2>4, <4>2 DEF Rest
      <4>5. QED BY <4>1, <4>3, <4>4, RunsNothing
    <3>3. QED BY <3>1, <3>2
  <2>7. HandlesMatch' /\ NothingLeftOpen' /\ err' = 0
    BY <1>1, <2>1 DEF HandlesMatch, NothingLeftOpen
  <2>8. QED BY <2>2, <2>5, <2>6, <2>7 DEF HandleInv
<1>12. CASE Finish
  <2>1. /\ message = Nil /\ err = 0 /\ ops = <<>> /\ step = Steps /\ CloseAll
        /\ UNCHANGED <<step, queried, err>>
    BY <1>12 DEF Finish
  <2>2. Goal = Rest({}, {}, 0)
    BY <2>1, ProgramFacts DEF Goal, Between
  <2>3. Held = Holding(<<>>, {})
    <3>1. Held \in Goal
      BY <2>1, RunsNothing DEF HandleInv
    <3>2. Rest({}, {}, 0) = {Holding(<<>>, {})}
      BY RestBare
    <3>3. QED BY <2>2, <3>1, <3>2
  <2>4. stack = <<>> /\ open = {}
    BY <2>3 DEF Held, Holding
  <2>5. Sound(stack, open)
    BY <2>4, RestBare
  <2>6. misuse' = misuse /\ open' = {}
    BY <1>1, <2>1, <2>4, <2>5, ClosedOnce
  <2>7. message' # Nil
    BY <1>12, MessageGiven, CapacityAssumption DEF Message
  <2>8. NothingLeftOpen'
    BY <2>6 DEF NothingLeftOpen
  <2>9. QED BY <1>1, <2>1, <2>6, <2>7, <2>8 DEF HandleInv, HandlesMatch
<1>13. CASE ErrorHandler
  <2>1. message = Nil /\ err # 0 /\ CloseAll /\ UNCHANGED <<step, queried, err>>
    BY <1>13 DEF ErrorHandler
  <2>2. step < Steps /\ Sound(stack, open) /\ open \ Deferred(stack) \subseteq Lost(Name)
    BY <2>1 DEF HandleInv
  <2>3. misuse' = misuse /\ open' = open \ Deferred(stack)
    BY <1>1, <2>1, <2>2, ClosedOnce
  <2>4. message' # Nil
    BY <1>13, MessageGiven, CapacityAssumption DEF Message
  <2>5. Lost(Name) = {"query", "event"} \cup Undeferred
    <3>1. step # Steps
      <4>1. step \in 0..Steps
        BY DEF ClientInv, ProgramOK
      <4>2. QED BY <2>2, <4>1, ProgramFacts
    <3>2. CASE Name \in {"ipconfig", "winroute"}
      <4>1. Undeferred = Child /\ Lost(Name) = Query \cup Child
        BY <3>1, <3>2 DEF Undeferred, Lost, Child, Name
      <4>2. QED BY <4>1 DEF Query
    <3>3. CASE Name = "eventlog"
      <4>1. Undeferred = Batch /\ Lost(Name) = Query \cup Batch
        BY <3>1, <3>3 DEF Undeferred, Lost, Batch, Name
      <4>2. QED BY <4>1 DEF Query
    <3>4. CASE Name \notin {"ipconfig", "winroute", "eventlog"}
      <4>1. Undeferred = {} /\ Lost(Name) = Query \cup {}
        BY <3>1, <3>4 DEF Undeferred, Lost, Name
      <4>2. QED BY <4>1 DEF Query
    <3>5. QED BY <3>2, <3>3, <3>4
  <2>6. Undeferred' = Undeferred
    BY <2>1 DEF Undeferred, Steps
  <2>7. NothingLeftOpen'
    BY <2>1, <2>2, <2>3, <2>5, <2>6 DEF NothingLeftOpen
  <2>8. QED BY <1>1, <2>1, <2>3, <2>4, <2>7 DEF HandleInv, HandlesMatch
<1>14. CASE UNCHANGED vars
  <2>1. UNCHANGED <<step, ops, stack, open, misuse, queried, err, message>>
    BY <1>14 DEF vars, handles
  <2>2. /\ Held' = Held /\ Goal' = Goal /\ Name' = Name /\ Undeferred' = Undeferred
        /\ Steps' = Steps
    BY <2>1 DEF Held, Goal, Name, Undeferred, Asked, Steps
  <2>3. HandlesMatch' /\ NothingLeftOpen'
    BY <2>1, <2>2 DEF HandleInv, HandlesMatch, NothingLeftOpen
  <2>4. QED BY <2>1, <2>2, <2>3 DEF HandleInv
<1>15. QED
  BY <1>2, <1>4, <1>5, <1>6, <1>7, <1>8, <1>9, <1>10, <1>11, <1>12, <1>13, <1>14 DEF Next

(* Every handle but the session of who is closed when its collector means  *)
(* to close it, and once only, however many the collectors before it left  *)
(* deferred and whatever clog_PopDeferAll closed of theirs; and the eight  *)
(* places of the stack are enough on every path through the code.          *)
THEOREM HandlesAlwaysMatch == Spec => []HandlesMatch
<1>1. Init => ClientInv /\ StackInv /\ FlagsTyped /\ HandleInv
  BY InitClient, StackInit, FlagsInit, HandleInit
<1>2. ClientInv /\ StackInv /\ FlagsTyped /\ HandleInv /\ [Next]_vars
        => (ClientInv /\ StackInv /\ FlagsTyped /\ HandleInv)'
  BY ClientInductive, StackStep, FlagsStep, HandleStays
<1>3. HandleInv => HandlesMatch
  BY DEF HandleInv
<1>4. QED BY <1>1, <1>2, <1>3, PTL DEF Spec

(* clientlog returns with nothing open; when it left by the long jump, only *)
(* the process query, the pipe and the process of a running command, and    *)
(* the events of a batch not yet deferred are lost.                         *)
THEOREM NothingIsLeftOpen == Spec => []NothingLeftOpen
<1>1. Init => ClientInv /\ StackInv /\ FlagsTyped /\ HandleInv
  BY InitClient, StackInit, FlagsInit, HandleInit
<1>2. ClientInv /\ StackInv /\ FlagsTyped /\ HandleInv /\ [Next]_vars
        => (ClientInv /\ StackInv /\ FlagsTyped /\ HandleInv)'
  BY ClientInductive, StackStep, FlagsStep, HandleStays
<1>3. HandleInv => NothingLeftOpen
  BY DEF HandleInv
<1>4. QED BY <1>1, <1>2, <1>3, PTL DEF Spec

=============================================================================
