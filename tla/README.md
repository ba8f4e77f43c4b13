# Specifications of MrBig

MrBig is a Windows service that watches the machine it runs on (disks, processor,
memory, processes, services, event logs, ...) and reports the colour of each test
to one or more Big Brother displays.  This directory holds TLA+ specifications of
its core, the TLC configurations that model-check them, and proofs that TLAPS
checks.  Source references are to `src/`.

## 1. Inventory

One thread, the *worker*, does nearly everything: `mrbig()` (mrbig.c) is an endless
loop of passes.  A second thread exists when the program runs as a service: the main
thread sits in the service dispatcher and runs `ServiceCtrlHandler` (service.c), the worker
runs in the thread of `ServiceStart`.

| component | state it keeps | operations | talks to |
|---|---|---|---|
| main loop, `mrbig()` mrbig.c:949-1068 | `mrloop`, `lastrun`, the flags from the command line | one pass: read_cfg, readcfg, the checks in order, sleep | everything, by calls |
| status tracker, `insert_status`, `mrsend` mrbig.c:598-722, 864-892 | the list `teststatus`: per (machine, test) last colour, time of the last report, deadline of a held alarm | decide: report, mask as green, or leave out | called by the checks; calls send_update; reads `mrsleep` and the grace list |
| report sender, `send_update`, `start_winsock`, `stop_winsock` mrbig.c:573-597, 730-862 | per display socket, position and rest of the message; `ws_started` | set up, select/send loop with a time limit, shut down, close | displays over TCP; `stop_winsock` also from the service control thread |
| section store, `add_cfg`, `get_cfg`, `clear_cfg` cfg.c:17-93 | the configuration lines by category | filled by read_cfg, emptied once a pass | read_cfg, readcfg, the checks |
| settings, `readcfg` mrbig.c:459-571 | the option variables, the lists of displays, grace times and option lines | re-read once a pass | main loop, tracker, sender, checks |
| configuration download, `recv_cfg`, `read_cfg` cfg.c:95-268 | the files `cfg.cache-` and `cfg.cache` | fetch over TCP, replace the cache, read it | minicfg over TCP; the file system |
| file and allocation tables, `big_*` and the `debug` wrappers mrbig.c | `chunks[]`, `files[]` | count what is open in debug builds | everybody |
| cpu check: cpu.c, readperf.c | the last processor sample, from call to call | two-sample load, uptime, colour | performance counters, the clock |
| process and service checks: procs.c, svcs.c | the lines of their section, one report per machine | count, judge the lines, send the reports | Windows, the section store |
| WMI check: wmi.c | page, query and fields, from line to line | run the section line by line | WMI, the section store |
| disk and memory checks: disk.c, memory.c | limits, within a call | compare, call mrsend | Windows, the section store |
| event log check: msgs.c, readlog.c | rules, the age limit, the `fastmsgs` marker file | read logs backwards, apply rules | Windows event log, the file system |
| external tests: ext_test.c | the pickup directory | start commands, collect files | other processes through files |
| service wrapper: service.c | `ServiceStatus` | install, delete, start, and the controls stop, pause, continue, interrogate | service manager; starts the worker and never speaks to it again |
| client log: clientlog/ | an arena with text at one end and deferred handles at the other | append, defer, long jump when full | Windows; called once a pass |
| minicfg.c, minibbd.c | none | serve configuration files; print reports | the agent, over TCP |
| disphelper, strlcpy | - | library code | - |

### What is hard

* **Time.** Everything is decided from wall-clock readings: keep-alive, grace times, the
  length of the sleep, both network time-outs.  Anybody may set that clock back.
* **Stale copies.** The tracker compares with its own copy of what was reported; the
  configuration it works with is replaced between any two passes; a deadline may stem
  from an older configuration or an older trouble.
* **Partial failure.** A display can refuse, hang or die; a transfer can stop anywhere; the
  result of `send_update` is not looked at by anyone.
* **Crashes.** The agent can die between any two file operations of a cache replacement.
* **Interleaving.** The service control thread shuts Winsock down under the worker's feet.  Status
  files are read and removed while other processes write them.
* **Jumps.** A full client log leaves every function between the append and `clientlog` at once;
  what those had open is only closed if it was deferred.

### What makes each component correct

* Tracker: it never claims trouble that is not there, never hides lasting trouble beyond its
  grace time, never fires before the grace time of its onset, and omits a report only while the display is up to date.
* Sender: every call returns, in bounded time; the message arrives unchanged and in full
  at every display that can take it, whatever the others do; no socket stays behind.
* Download: a configuration once received is not lost or replaced by half of one, no older
  one comes back, and the newest is reached when failures end.
* Main loop: every test is reported at least every so often; a lost report is made good;
  the sleep is neither negative, nor zero, nor longer than configured.
* Section store, settings: a pass uses the lines of that pass, in order and in their sections, and
  of the one before nothing but the three settings without a default; files are closed.
* Pickup: a status finished in time is reported once, and whole.  Event log: the report is as bad as
  the worst event that is young enough; a pass that died makes the next one use the short scan, and no other does.
* Processes, services: each machine's report is red exactly when one of its lines is not met.
  Cpu: the load is what the processor did between two good samples.  WMI: nothing of one page shows on the next.
* Tables: a slot is freed once, by the file it belongs to, whatever the debug level becomes.
* Client log: one message is sent, and it is all that was written or says that it was cut; text and
  scratch memory never meet; a handle is closed once, as what it is, and none stays open.
* Service: a stop ends the process, whatever the worker is doing.

## 2. Modules

```
StatusTracker ── GraceHistory                             SendUpdate   ConfigCache
      │               └─ Filter == INSTANCE ReportFilter      └── MCNetwork ──┘
      └───────── AgentLoop
FileTable ─────── Settings ────── MCSettings

Collectors ────── ClientLog                               EventLog  Pickup  Service  Inventory  Load  Wmi
                      └─ Display == INSTANCE ClientMessage      └───────┴──── MCChecks ────┴───────┘
```

Proofs stand in `X_proofs`, which extends `X`, for X = StatusTracker, GraceHistory, AgentLoop, SendUpdate, ConfigCache, Settings
and ClientLog; `Checks_proofs` extends EventLog, Load, Pickup, Inventory and Wmi.

Every module that models code names its actions after the functions, and each `return`
or branch that changes state is an action, or a disjunct of one.  A definition whose comment
begins with "Mutant:" is a plausible bug kept beside the definition it would replace; no
specification uses it.

**StatusTracker** (mrbig.c `insert_status`, `mrsend`).  `teststatus` is the list, a function from
(machine, test) to an entry or `Nil`; `NewTest`, `TimeDecreased`, `SleepExceeded`, `NoNeed`,
`BecameGreen`, `WasNotGreen`, `GraceExpired` and `SitOnHands` are the eight ways out of
`insert_status`, and `mrsend` turns the result (0, 1, 2) into nothing, a green report or the
real colour.  Around the calls, the clock moves either way, `readcfg` changes the keep-alive
interval and the grace times, and a restart empties the list.

**ReportFilter** says what the tracker promises, with no word about how it remembers: each
observation is passed on, masked by green (only while the display shows green), or left out
(only while the display was given that colour less than `mrsleep` seconds ago).  Every call
is in view, through the variable `call`, so that a call that reports nothing has to be justified too.

**GraceHistory** adds to StatusTracker what the grace-time properties are about: how long each
test has been in trouble (`run`), when the trouble behind a deadline was first seen (`firstBad`),
the longest grace time ever configured (`maxgrace`), whether the clock ran steadily, and the last
call.  These variables only watch: `HistoryWatches` proves that HSpec implements Spec.

**SendUpdate** (mrbig.c `send_update`, `start_winsock`, `stop_winsock`).  One step per socket
operation of one display, so that connections come up or die, the kernel delivers, the clock is
set and the control thread calls `stop_winsock` between any two of them.  The message is
its bytes, numbered from 1; `pdata` and `remaining` are the code's pointer and counter, and `taken` is
the history of the bytes each display's socket has accepted, in their order.

**ConfigCache** (cfg.c `recv_cfg`, `read_cfg`).  One step per file or network operation; every
one has its failing twin, and the agent may die between any two.  A rename may fail because the old file
is still there or, with `cfg.cache` already removed, because somebody holds `cfg.cache-` open (`RenameFails`, remembered in
`unmoved`); a `cfg.cache` that is there may not open (`read_cfg_fails`).  The contents of a file are
a version and whether it is whole.  The daemon publishes, stops and starts.

**MCNetwork** gives SendUpdate and ConfigCache their small instances.  One thread does both, one after the other, and
they share no state, so each behaviour there is one of either; the names in ConfigCache begin with `Cf` where both would have the same.

**AgentLoop** (mrbig.c `mrbig`, and the two lines of `readcfg` that limit `mrloop`).  Extends
StatusTracker: a pass downloads, reads settings, runs every check (each takes time, then calls
`mrsend`, whose report may be lost), and sleeps for what `sleeptime` computes.  `now` is the wall
clock; the history variables `age`, `quiet` and `since` count real seconds.

**FileTable** (mrbig.c `big_fopen`, `big_fclose`, `store_file`, `remove_file`).  Operators on one
record: the FILEs that are open, the list `files[]`, and two flags, a write past the end of
the list and the exit for want of a slot.  The C library hands out the first free FILE, so that
addresses are used again.

**Settings** (cfg.c `read_cfg`, `add_cfg`, `get_cfg`, `clear_cfg`; mrbig.c `readcfg`).  One step per
line: `read_cfg` calls itself, so its calls under way are a stack, each with the rest of its file,
the section it has reached and its FILE.  Then `readcfg` goes through the lines of section
[mrbig], one action per kind of line; the check (disk stands for all) reads its own file,
and `clear_cfg` ends the pass.  Files change at any time, the agent starts again at any time.  A line
is a key and a value: `atoi`, `inet_addr` and the splitting of lines are left out.  **MCSettings**
holds six configurations an administrator might write.

**Collectors** says of each part of the client log which operations it performs on the arena and on
handles, as a set of sequences, one for each way through its code: which Windows calls succeed, how often
its loops go round.  In `who` a query that fails leaves the pointer of the round before, which is then freed again: `Session` has
both outcomes, the second as a close of what was not opened.  **ClientLog** (clientlog/arena.c, clientlog.c) runs those sequences, for an arena of any
size from a set and appends of any size from a set: `ArenaAppend`, `ArenaAllocate`, `Defer`, `PopDefer`,
`PopDeferAll`, the jump of `ThrowError`, and the message at the end.  Text grows from one end and scratch
memory from the other; a collector called by reference (the process query) gives its scratch memory back to nobody,
one called with a copy of the arena gives it back when it returns.  **ClientMessage** is what the display
is promised: one message, which is all that was written, or says that something was cut.

**EventLog** (msgs.c, readlog.c).  One step per log: which events the query selects, how many batches are
read before a failure, what colour follows.  `Selected` is what the query asks for, `QueryReaches` when that is as far back as `msgage`.  Lines have a length and the report has `Room` for so much: `Written` adds a line
or cuts it, and after a cut nothing more fits (`left` is 0).  The level of an event is what Windows gives, 1 for critical, 2 for an error and so on;
`EventType` is what the code compares it with.  The process may die between any two steps, and an event that
cannot be rendered kills it; the marker file outlives it.

**Pickup** (ext_test.c).  Commands and other processes write status files piece by piece, holding the file open or
not; the agent starts a command, waits or terminates it, lists the directory, reads, removes, reports.  The listing, each open and each remove may fail for
reasons of the system's own, writers or not; `refused` and `stuck` remember which files that met.  Of a text longer than `report_size` the
beginning is read.  A report carries the name
of its file as history, so that a file reported twice can be told from two files.

**Service** (service.c, and `main` around it).  The service manager is an environment that starts the process and
delivers one control at a time; worker and handler share nothing but Winsock.

**Inventory** (procs.c, svcs.c).  Reading a section, judging it line by line into one report per machine, sending
the reports.  The item count that `read_svccfg` keeps from one line to the next is modelled as it is: `Items` is
the count of the last line `sscanf` was called for.  A process that cannot be opened is counted under the name `<unknown>` (`Seen`).
The reports of a call are a sequence, so that a second one for a machine would show.

**Load** (cpu.c, and what read_perfcounters of readperf.c can return).  Seconds go by in which the
processor is more or less idle, the clock is set, samples fail, the agent starts again.

**Wmi** (wmi.c).  The section is a small program; each key is an action.

**MCChecks** gives these six their small instances.  They share no state, so each of its behaviours is a
behaviour of one of them (`part`); one run does for all.

## 3. Runs

| run | module / cfg | result | what it shows |
|---|---|---|---|
| `grace` | GraceHistory | pass | one test, all orders of observations, clock changes, configurations and restarts: six properties of the tracker, among them that it implements ReportFilter |
| `premature_alarm` | GraceHistory, PrematureAlarm.cfg | violation | with fixed settings and a steady clock an alarm fires although its trouble has only begun |
| `network` | MCNetwork | pass | sending, to a healthy display and a hostile one: calls return, in time, nothing is given up early, the bytes are taken in order and once, no socket is left; downloading, three versions and four failures of any kind: the cache survives all but a death between remove and rename and a rename that fails after remove, stays whole, never gets older, and the newest version wins in the end |
| `close_wait` | SendUpdate, CloseWait.cfg | violation | the clean-up closes a socket with undelivered data without the wait its comments speak of |
| `cache_lost` | ConfigCache, CacheLost.cfg | violation | an agent that dies between remove and rename comes back without a configuration |
| `settings` | MCSettings | pass | six configurations, edited at any time: the store is what the files say, in order and by section; the settings follow from the lines; no file is lost; the list of files is true; every pass ends, even when a file includes itself |
| `client_log` | ClientLog | pass | every way through every collector, in arenas that hold nothing, a part, and everything: handles are closed once and as what they are (all but the session of `who`), none stays open over a jump, text is cut silently only behind scratch memory left by a returned collector, and the display gets the one message it is promised (ClientMessage) |
| `checks` | MCChecks, Checks.cfg | pass | six checks and the service around them: the marker, the worst event, the status files, the machines' reports, the load, the WMI pages, and the end after a stop |
| `old_events` | MCChecks, OldEvents.cfg | violation | events older than `msgage` are reported |
| `error_events` | MCChecks, ErrorEvents.cfg | violation | under `red type error` a young error event does not make the report red |
| `loop` | AgentLoop | pass | no test goes without a report beyond an exact bound, lost reports are made good, the sleep is sane |
| `late_loop` | AgentLoop, LateLoop.cfg | violation | checks and sleep fit into `mrsleep`, and still the next pass begins late, by what the download took |

### Bounds

* `grace`: one machine and one test, because `insert_status` looks at one list node only (a call
  about one key leaves all others alone: lemma `HSendOther`, proved for any number of keys).
  Three colours, as green and two that are not green can be told apart by the code.  Grace times
  0 and 3, keep-alives 2 and 4, seven clock readings: a grace time can be shorter or longer than
  a keep-alive, and a trouble can begin, be held, recover, begin again and expire within the seven.
* `network`, sending: two displays (one healthy, one that may do anything) are the fewest that can hinder each
  other; a message of three bytes can be sent in one piece, in two or in three, and a piece can be lost, doubled or out of its order; two close attempts stand for ten,
  a time limit of one second for ten; the clock is set once in a call, to any value below, at
  or beyond the limit.  Calls follow each other without end.
* `network`, downloading: four failures cover a failed download on top of a crash on top of a stopped daemon,
  with one to spare, and so a rename or an open that fails on top of each; three versions let an old one, a current one and a newer one exist at once.
* `loop`: one check, at most one second of work per check and of download, clock set back once
  between restarts.  `Gap` is the bound the code gives: keep-alive, plus a period, plus the jitter
  inside a pass, once more for each time the clock is set back.  TLC finds it attained: with
  keep-alive 3 the longest age is exactly 7, or 15 with one set-back, so no smaller bound would do.
  `MaxTime`, 13 clock readings, is enough for both to be attained.

* `settings`: four open files and three slots, so that the files run out before the list at debug 0
  and the list before the files at debug 2; a section holds seven lines, and one configuration
  fills it and has its last line cut off.  The six configurations have displays above and below a port
  line, a file that ends in another section than it began in, a log file opened before and after the
  debug level changes (up and down), two log files, and two files that include themselves.
  Edits go from any one to any other, between passes and in the middle of one, so that what is kept from one
  pass (`kept`, `logfp`, the list of files) meets every other configuration.
* `client_log`: arenas of 0, 5, 24 and 60 units against texts of 1 or 2 units: 0 stands for a malloc
  that failed, and the others fill up early, late, or only on the longest ways through the collectors.  Loops go round at most twice.
* `checks`, events: batches of 2 and logs of up to 3 events, so that a fast pass leaves one out; ages on both sides
  of `MsgAge` (2) and of what the query really asks for (3); events that two rules match, that have no message, or that cannot be rendered; lines of length 1, 2 and 5 for a
  report of 4, which is filled exactly, cut in the middle of a log, or too short for one line.
* `checks`, pickup: two files, each written by a command and by anybody else, in two pieces; the name of one has a machine in it, and its text is too long.
* `checks`, inventory: sections of one or two lines for two machines, all pairs in both orders, met and unmet,
  quoted and plain; up to one process more than there is room for; processes that cannot be opened, asked for and not.
* `checks`, load: four seconds, each idle, busy or in between, limits at 60 and 90 percent; the clock set to any value.
* `checks`, wmi: four sections with one or two pages, up to two rows and two fields, every outcome of every comparison.

Deadlock is checked in every run but `client_log`, where the call ends for good when there is no arena; no other
specification can stop.

### Fairness

* SendUpdate: `WF(Step)`: the worker is scheduled.  `SF(Select(1))`: `select` is given a time-out
  of one second and the wall clock goes on, so infinitely many waits do take time.  Nothing is assumed of
  displays, of the kernel's delivery, or of the service control thread.
* ConfigCache: `WF(Fetch)`: the main loop goes on.  `SF(Receive(TRUE))`: a daemon that keeps
  being reached gets through its reply.  `WF(DaemonStarts)`: a stopped daemon is started again.  Failures are
  bounded by `MaxFaults`, which is what "when the failures end" means in `Converges`.
* MCNetwork: each behaviour sends or downloads, and has the fairness of what it does; `FetchConverges` is `Converges` for those that download.
* Settings: `WF(Pass)`, the worker is scheduled.  `PassEnds` then rests on the limit on open
  files, which ends an endless include.
* Service: `WF` on the control handler, on the dispatcher's return and on main's way out: Windows schedules the main
  thread.  Nothing is assumed of the worker, which `StopEnds` must not need.
* The tracker and the loop state safety only; the loop's promise, a report "at least every so often",
  is stated as a bound on elapsed time, which needs no fairness.

### Findings

1. *Premature alarm* (mrbig.c:668).  A green observation in the no-change branch leaves the
   deadline of an earlier held alarm standing; a later, unrelated trouble inherits it and is
   reported at once.  What does hold is `AlarmAfterGrace`: the report comes at least a grace time
   after the *first* trouble since the test was last truly reported green.
2. *No wait at close* (mrbig.c:850).  The return value of `closesocket` is compared with
   `WSAEWOULDBLOCK`, a code only `WSAGetLastError` gives; the ten attempts follow each other
   without a pause, then the socket is closed by force.
3. *Cache lost* (cfg.c:226).  The cache is replaced by remove and rename; nothing looks at
   `cfg.cache-` after a death between the two.
4. *Late loop* (mrbig.c:1009).  The time of a pass is taken after the download, so the download
   is not taken off the sleep: with `loop` at its default and checks that take less than `mrsleep`,
   the next pass begins more than `mrsleep` after this one.
5. *Old events* (msgs.c:242).  The age limit handed to the query is a point in time in seconds and is read as an
   age in milliseconds: whatever `msgage` says, events of the last twenty days or so are reported.
6. *Error events* (readlog.c:68).  The level of an event goes into `type` unconverted: `type error` matches critical events,
   `type warning` matches errors, and warnings match nothing, where EVENTS and mrbig.cfg.dist offer
   `red type error` and `yellow type warning`.
Things the code does that the properties except by name, because no text says otherwise, or because what is said is about a
default, a name or a line that the rest of the property does not depend on:

* Download: a rename that fails after remove leaves the agent without `cfg.cache` until a download succeeds
  (`unmoved` in `CacheKept` and `NeverOlder`), and a pass that cannot open `cfg.cache` runs without it.
* Client log: `who` frees the session of the round before again when a query fails (`misuse` in `HandlesMatch`).
* Settings: without a `display` line there is no display and every report goes to nobody, where mrbig.cfg.dist:20 gives the default
  127.0.0.1; and a `cfgdir` line that was taken out keeps its effect until the agent is started again, where mrbig.cfg.dist:41 gives
  the install directory as the default.  `SettingsFollowLines` says nothing of displays without a display line, nor of `cfgdir` without its line.
* Pickup: a file with a dot in its name is reported for the machine before the dot (ext_test.c:33), where EXT:14-16 says that there is
  no way to report for other clients.  `IsReportOf` takes either machine.  A file that does not open is not reported in this pass (`refused`), one that cannot be removed is reported in every pass (`stuck`).
* Event log: behind a line that was cut nothing is on the report (`left`), though the colour is that of all events.
  `WorstEventShows` takes a rule to match what the code matches with it; what a rule should match is finding 6.
* Processes: one that cannot be opened is missed by the line that asks for it (`Hidden`); more than 1024 are not seen;
  a failing list counts as no processes at all.
* Services: a quoted name alone on its line, below any line with a status, is expected not to be installed
  (`Misread`; mrbig.cfg.dist gives 4 as the default); an empty list of services leaves the other machines without a report.
* Load: counters without a `_Total` instance show as a load far above 100; a clock set forward between two samples shows as load.
* WMI: a query that fails leaves its page green.  Service: a paused service goes on reporting.

Finding 5 has another side: with `msgage` beyond some twenty days the query does not reach back that far, and events younger than `msgage`
are missed.  `WorstEventReported` excludes that by name (`QueryReaches`).

Two things `settings` shows that no doc speaks of, and that its properties therefore exclude by
name: a configuration with two `logfile` lines loses a FILE every pass, until `mrbig.cfg` itself cannot be
opened and the agent runs on its defaults (`twice` in `NoFileLost`); and a `debug` line below a
`logfile` line makes the next pass write past the end of `files[]` (`late` in `TableIsTrue`).

## 4. Proofs

Eight modules hold theorems; each extends the specification it is about.  Every theorem holds for all values
of the constants that satisfy the assumptions named in the specifications (`TrackerAssumption`, `HistoryAssumption`,
`CacheAssumption`, `SendAssumption`, `LoopAssumption`, `FileAssumption`, `SettingsAssumption`, `CapacityAssumption`,
`EventLogAssumption`, `PickupAssumption`, `InventoryAssumption`, `LoadAssumption`, `WmiAssumption`).  They say that numbers are
numbers, that tables have the right domain, and what the code's own constants are; TLC evaluates them in every run.  One says something
of the administrator: an `always` line of the WMI section names a colour (wmi.c:55).

| module | theorems | rests on |
|---|---|---|
| StatusTracker_proofs | `TrackerTypeOK`, `TrackerBelieved` | the coupling itself is inductive once the result of a call is known by cases |
| GraceHistory_proofs | `TrackerIsFilter`, `HistoryTypeOK`, `TrackerNoFalseAlarm`, `TrackerNoOverdueAlarm`, `TrackerAlarmAfterGrace` | `GraceInv` |
| SendUpdate_proofs | `SendTypeOK`, `SendIntact`, `SendLeavesNoSocket`, `SendLoopBounded`, `SendAllOrTimeout`, `SendHealthyServed` | `SendInv`, `TakenInv`, `ClockInv`, `ServedInv`, `HealthyInv` |
| ConfigCache_proofs | `CacheTypeOK`, `ConfigurationKept`, `ConfigurationWhole`, `ConfigurationNeverOlder` | `ReplyOpen`, `ReplyWhole`, `VersionInv`, `ConfigHeld` |
| AgentLoop_proofs | `LoopTypeOK`, `SleepIsSane`, `LoopKeepsAlive`, `LossIsRepaired` | `LoopInvariant` |
| Settings_proofs | `SettingsTypeOK`, `NoFileIsLost`, `TableStaysTrue`, `SettingsFollow`, `StoreHoldsFiles` | `SettingsInv`, `FollowInv`, `StoreInv` |
| ClientLog_proofs | `ArenaSafe`, `CutBehindScratch`, `CallIsOneMessage`, `NeverPopsEmpty`, `ClientTypeOK`, `HandlesAlwaysMatch`, `NothingIsLeftOpen` | `ClientInv`, `StackInv`, `HandleInv` |
| Checks_proofs | `LoadReported`, `FastOnlyWhenAsked`, `WorstEventReported`, `FilesPickedUpOnce`, `EveryMachineJudged`, `PageShowsItsOwn` | `LoadInv`, `MarkerInv`, `WorstInv`, `PickupInv`, `InventoryInv`, `WmiInv` |

**Tracker.**  The alarm theorems rest on one inductive invariant, `GraceInv`.  None of them is inductive by itself:
a false alarm is ruled out only if the *recorded* colour is the run's too (`ColorIsObserved`),
which needs the coupling with what was sent (`BelievedIsSent`); a deadline's age is known only if a
ticking deadline is the onset plus its grace time and no deadline means no onset (`DeadlineIsOnset`);
an overdue alarm is ruled out only if a held test's deadline lies within the longest grace time of
the start of its run (`HeldHasDeadline`), which in turn needs deadlines to be near (`DeadlineIsNear`), since
a run may begin under a deadline left over from an earlier trouble, and runs to lie in the past
(`RunsInPast`).  The last three parts hold while the clock is not set back.  The step lemma for a
call, `HSendInv`, splits on the four things a call can do to its key (`HSendSame`) and on the key
being another one (`HSendOther`).

**Main loop.**  `KeepAlive` bounds the age of the last report.  `AgeInv` says for each test how the bound is used up
at each point of a pass: the loop runs as planned (`Steady`), one late pass is under way (`LatePass`), or the clock was set back and
the tracker counts anew (`Restarted`).  `NewInv` covers the first pass, `LossInv` ties a wrong display to the age of the loss,
so that `LossIsRepaired` follows from the same bound.

**Sender.**  For any number of displays: where the loops over the list stand says which sockets can be open (`SocketsInv`); what
is in flight was taken from the message (`InflightInv`); what is behind `pdata` and what remains make up the message (`OffsetsInv`), and the bytes a
socket has taken are those behind `pdata`, each once and in order (`TakenInv`); the clock lies within the time limit at each place of the loop (`ClockInv`);
the sockets set up are those the loop serves (`ServedInv`); a healthy display has had its `send` by the end of the first round (`HealthyInv`).

**Download.**  While a reply is awaited or put in place `cfg.cache-` exists (`ReplyOpen`), and what is put in place is whole, or was cut
short by others (`ReplyWhole`).  That no older version returns needs to know of each of the files, and of the reply on its way, that it
is as old as it may be: `VersionInv`.  That a running agent keeps what it has needs `cfg.cache` to be there while it runs on something, but for
the moment before rename and a rename that failed: `ConfigHeld`.

**Settings and files.**  `SettingsInv`: the calls of `read_cfg` under way and the log hold distinct open files, nothing else is open unless
one configuration names two logs, and the list names open files once each.  `FollowInv`: the settings are, at each line, those of
the lines above it (`SetInv`, `KeptInv`, `OptionsInv`, `DisplaysInv`, `GraceInv`), and `readcfg` goes through every line (`TodoInv`, `DoneInv`).
`StoreInv` looks at what is left, not at what was done: `Leads` says that the store, followed by what the rest of each file on the stack
stands for, innermost first, is what the files of the pass stand for.  A line moves its part from one side to the other (`LineLeads`), a
file that is opened puts its expansion in the place of the line (`CallLeads`), and the limit on open files is reached in the code exactly
where `Expansion` comes to level 0 (`OpenCount`, `Outside`).  What is left of a file is a file that begins in the section reached (`WholeFacts`).

**Client log.**  What a proof needs of a collector comes from how its set of paths is put together, one lemma for each way of
putting together (`On`, `Opt`, `Few`, `**`), and never from a list of the paths.  `ClientInv` then bounds the arena's two ends for any sizes;
`StackInv` says that what a collector still has to do never pops more than it has deferred.  For the handles themselves a *holding* is the
stack of deferred handles with the handles that are open; `Meets(A, P, Q, lost)` says that each path of A, begun in any holding of P, closes nothing by
mistake, ends in a holding of Q, and would lose only handles of `lost` if an append on its way did not fit.  Most collectors leave the holding as it was
(`Leaves`); seven do not: `bios` may leave a `NULL` deferred, which `winports` pops with its tables, `runningservices` the
service manager, which `applications` pops, `certificates` the store, which `reboots` pops, and the query lives from `StartQuery` to
`EndAppendQuery`.  The session of `who` is the one handle a path may close without having opened it; `HandlesMatch` says that nothing else is.  `Between(k, q)` is what is held when k steps are done; `HandleInv` says that the rest of the running step leads to it.

**Checks.**  `LoadInv`: a sound sample is `since` seconds and `idled` idle time old.  `MarkerInv`: the marker exists exactly while
a pass that looks for it reads the logs, or when one died.  `WorstInv`: what was found so far shows every event that is due, in the colour, and in its
line while nothing was cut.
`PickupInv`: a file in the directory is what its writer has written, and a file settled before the listing is met by it, unless it was refused.
`InventoryInv`: the reports sent, and those still to send, are the verdicts of the lines, no two for the same machine.  `WmiInv`: colour, alarm and bullets of the page agree.
`WorstEventReported` has a hypothesis, `QueryReaches`: `msgage` is small enough for the query, which reads a time as an age,
to reach back that far.

Functions that are defined by recursion over a sequence or a level (`Selected`, `ColorAfter`, `Upto`, `Expansion`) are reasoned about by
the first place where a claim about them fails (`FirstOf`): an induction without the library's rules of induction, which take an operator.
For the same reason the specifications have sets of indices or recursive functions where `SelectSeq` would be shorter.

Only model-checked, and why:

* `SendReturns`, `FetchConverges`, `PassEnds`, `StopEnds`: liveness under fairness is beyond the prover, as is `ENABLED`.  `StopEnds` is
  the only promise of Service.

## 5. Not modelled

* The text of reports, messages and logs: no property is about it.
* `disphelper`, `strlcpy`: library code.  `minibbd`, `minicfg`: peers, present as environments.
* What the collectors of clientlog/ write, and the walk of readperf.c through its binary block: straight-line code
  around Windows calls with no state between calls.
* In the WMI check the cut of a page at 10000 characters, and that the bullet of a line is compared by its pointer to a literal
  (wmi.c:138, 173), which works where the compiler keeps one copy of each literal.
* The disk and memory checks: each compares numbers it has just read with limits and keeps nothing.
* The crash logger: writes one file after a fault, and nothing follows.
* Start-up and command line: run once, keep flags.
* The list of allocations, `chunks[]`: kept under `-m` only, which never changes while the program
  runs; the same list as `files[]` without the changing level.

What is planned but not yet there is section 6.

## 6. Plan

Done, in this order: StatusTracker, ReportFilter, GraceHistory with proofs; SendUpdate;
ConfigCache with proofs; AgentLoop; FileTable and Settings; Collectors, ClientMessage and ClientLog;
EventLog, Pickup, Service, Inventory, Load and Wmi; proofs of every module but Service, whose one property is liveness.

Every safety property of a passing run is a theorem.  What remains are the hazards that no property covers: the stale item count
of a quoted service name (svcs.c:107), processes counted as unknown (procs.c:203), counters without a `_Total` instance (cpu.c:119),
the log written while it is closed (mrbig.c:490), the FILE lost to a second `logfile` line (mrbig.c:543), the line cut at the end of a
full section (cfg.c:43) and the session freed twice (who.c:82).
The models have each of them but the written log and the half line, and the properties except them by name.
