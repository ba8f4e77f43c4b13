------------------------------ MODULE EventLog ------------------------------
(***************************************************************************)
(* The event log check: msgs.c and readlog.c.  A pass reads every log but  *)
(* one, newest event first, judges each event by the first rule that       *)
(* matches and reports the worst colour.  Under fastmsgs=auto a marker     *)
(* file stands while a pass is under way: a pass that finds it there reads *)
(* one batch of each log only.                                             *)
(*                                                                         *)
(* The process may die at any point; reading itself kills it when an event *)
(* cannot be rendered (the null result is dereferenced) and may kill it    *)
(* when an event has no message (a literal is freed).  Texts are a set of  *)
(* words; of an event's line on the report only the length is modelled,    *)
(* for the buffer takes 5000 characters and what is beyond is cut off.     *)
(* Events without a provider, which Windows does not write, are left out.  *)
(***************************************************************************)
EXTENDS Integers, Sequences

CONSTANTS
  Logs,       \* the logs in the order of the registry
  RuleFiles,  \* what msgs.cfg may hold: sequences of [action, test, value]
  Contents,   \* what a log may hold, newest first: sequences of Events
  BatchSize,  \* EVENT_BATCH_SIZE (255 in the code)
  MsgAge,     \* the msgage directive, in seconds
  Clock,      \* time(NULL) when a pass begins
  PerSecond,  \* milliseconds in a second; timediff counts milliseconds
  Room        \* what the report takes of lines: sizeof b without the date

(* The age is in seconds, the size that of the line on the report.         *)
Events ==
  [level : Nat, source : STRING, id : STRING, words : SUBSET STRING, age : Nat,
   shape : {"full", "nomessage", "unrenderable"}, size : Nat \ {0}]

ASSUME EventLogAssumption ==
  /\ \A content \in Contents : content \in Seq(Events)
  /\ \A list \in RuleFiles : list \in Seq([action : STRING, test : STRING, value : STRING])
  /\ BatchSize \in Nat \ {0}
  /\ MsgAge \in Nat
  /\ Clock \in Nat
  /\ PerSecond \in Nat \ {0}
  /\ Room \in Nat

SkippedLog == "Directory Service"

VARIABLES
  ev_pc,     \* where the pass is; "idle" between two passes
  fastmsgs,  \* the fastmsgs= option: "on", "off" or "auto"
  rules,     \* the rules read from msgs.cfg
  marker,    \* the file fastmsgs.cfg exists
  fastfile,  \* the pass found it
  log,       \* index of the log to be read next
  mcolor,    \* colour of the report so far
  lines,     \* the events whose line is on the report as a whole
  left,      \* what the report can still take; 0 once a line was cut
  msgs_sent, \* colour of the last report that was sent
  asked,     \* history: a pass died at its work, or somebody made the marker
  due,       \* history: <<log, event>> the pass should have judged
  readable   \* history: no log refused to be read in this pass

ev_pass == <<log, mcolor, lines, left, due, readable>>
ev_vars == <<ev_pc, fastmsgs, rules, marker, fastfile, log, mcolor, lines, left,
             msgs_sent, asked, due, readable>>

EvInit ==
  /\ ev_pc = "idle"
  /\ fastmsgs = "auto"
  /\ rules = <<>>
  /\ marker = FALSE
  /\ fastfile = FALSE
  /\ log = 1
  /\ mcolor = "green"
  /\ lines = {}
  /\ left = Room
  /\ msgs_sent = "none"
  /\ asked = FALSE
  /\ due = {}
  /\ readable = TRUE

-----------------------------------------------------------------------------
(* The type test compares the level byte of the event (1 critical, 2       *)
(* error, 3 warning, 4 information) with the old event types.              *)
EventType == [error |-> 1, warning |-> 2, information |-> 4,
              audit_success |-> 8, audit_failure |-> 16]

Matches(r, e, l) ==
  \/ r.test = "type" /\ r.value \in DOMAIN EventType /\ e.level = EventType[r.value]
  \/ r.test = "source" /\ e.source = r.value
  \/ r.test = "message" /\ r.value \in e.words
  \/ r.test = "id" /\ e.id = r.value
  \/ r.test = "log" /\ l = r.value

(* The action of the first rule that matches; "ignore" when none does.     *)
match_rules(e, l) ==
  LET hits == {k \in 1 .. Len(rules) : Matches(rules[k], e, l)}
  IN IF hits = {} THEN "ignore"
     ELSE rules[CHOOSE k \in hits : \A j \in hits : k <= j].action

(* Mutant: yellow takes the place of red.                                  *)
WorseLast(c, mine) == IF mine = "green" THEN c ELSE mine

(* Green gives way to anything, everything gives way to red.               *)
Worse(c, mine) == IF c = "green" \/ mine = "red" THEN mine ELSE c

(* The list is built from the newest event on, each in front of the last:  *)
(* the oldest is judged first.                                             *)
ColorAfter(events, l) ==
  LET upto[k \in 0 .. Len(events)] ==
        IF k = 0 THEN mcolor
        ELSE LET mine == match_rules(events[Len(events) + 1 - k], l)
             IN IF mine = "ignore" THEN upto[k - 1] ELSE Worse(upto[k - 1], mine)
  IN upto[Len(events)]

(* snprcat appends what fits: behind a line that was cut nothing fits.     *)
Written(page, d) ==
  IF d[2].size <= page.left
  THEN [lines |-> page.lines \union {d}, left |-> page.left - d[2].size]
  ELSE [page EXCEPT !.left = 0]

(* The report behind the events of a log, oldest first as well.            *)
Reported(events, l) ==
  LET upto[k \in 0 .. Len(events)] ==
        IF k = 0 THEN [lines |-> lines, left |-> left]
        ELSE LET e == events[Len(events) + 1 - k]
             IN IF match_rules(e, l) = "ignore" THEN upto[k - 1]
                ELSE Written(upto[k - 1], <<l, e>>)
  IN upto[Len(events)]

(* What the query selects.  msgs passes t0-msgage, a point in time, as the *)
(* age in milliseconds that an event may have.                             *)
Selected(content) ==
  LET upto[k \in 0 .. Len(content)] ==
        IF k = 0 THEN <<>>
        ELSE IF content[k].age * PerSecond <= Clock - MsgAge
             THEN Append(upto[k - 1], content[k])
             ELSE upto[k - 1]
  IN upto[Len(content)]

Fast == fastmsgs = "on" \/ fastfile

(* How many of n selected events are read: all, or the first batch of a    *)
(* fast pass; whole batches only when the query or a later EvtNext fails.  *)
Depths(n) ==
  LET all == IF Fast /\ n > BatchSize THEN BatchSize ELSE n
  IN [whole |-> all, cut |-> {k \in 0 .. all : k % BatchSize = 0 /\ k # all}]

-----------------------------------------------------------------------------
EvUnchanged == UNCHANGED <<fastmsgs, rules, asked>>

(* option no_msgs.                                                         *)
EvDisabled ==
  /\ ev_pc = "idle"
  /\ msgs_sent' = "clear"
  /\ UNCHANGED <<ev_pc, fastmsgs, rules, marker, fastfile, asked, ev_pass>>

(* Options and rules are read anew in every pass.                          *)
EvBegin ==
  /\ ev_pc = "idle"
  /\ rules' \in RuleFiles
  /\ fastmsgs' \in {"on", "off", "auto"}
  /\ fastfile' = FALSE
  /\ mcolor' = "green"
  /\ lines' = {}
  /\ left' = Room
  /\ due' = {}
  /\ readable' = TRUE
  /\ log' = 1
  /\ ev_pc' = IF fastmsgs' = "auto" THEN "marker" ELSE "logs"
  /\ UNCHANGED <<marker, msgs_sent, asked>>

(* The marker is looked for and then written.                              *)
EvMarker ==
  /\ ev_pc = "marker"
  /\ fastfile' = marker
  /\ marker' = TRUE
  /\ ev_pc' = "logs"
  /\ EvUnchanged /\ UNCHANGED <<msgs_sent, ev_pass>>

ReadLog(content) ==
  LET l == Logs[log]
      sel == Selected(content)
      depths == Depths(Len(sel))
  IN \E n \in depths.cut \union {depths.whole} :
       LET events == SubSeq(sel, 1, n)
       IN /\ \A k \in 1 .. n : events[k].shape # "unrenderable"
          /\ mcolor' = ColorAfter(events, l)
          /\ lines' = Reported(events, l).lines
          /\ left' = Reported(events, l).left
          /\ readable' = (readable /\ n = depths.whole)
          /\ due' = due \union {<<l, content[k]>> : k \in
                      {j \in 1 .. Len(content) :
                         content[j].age <= MsgAge /\ (Fast => j <= BatchSize)}}

EvReadLog ==
  /\ ev_pc = "logs"
  /\ log <= Len(Logs)
  /\ Logs[log] # SkippedLog
  /\ \E content \in Contents : ReadLog(content)
  /\ log' = log + 1
  /\ EvUnchanged /\ UNCHANGED <<ev_pc, marker, fastfile, msgs_sent>>

EvSkipLog ==
  /\ ev_pc = "logs"
  /\ log <= Len(Logs)
  /\ Logs[log] = SkippedLog
  /\ log' = log + 1
  /\ EvUnchanged
  /\ UNCHANGED <<ev_pc, marker, fastfile, mcolor, lines, left, msgs_sent, due, readable>>

(* The registry key of the logs cannot be opened.                          *)
EvNoLogs ==
  /\ ev_pc = "logs"
  /\ log = 1
  /\ log' = Len(Logs) + 1
  /\ readable' = FALSE
  /\ EvUnchanged
  /\ UNCHANGED <<ev_pc, marker, fastfile, mcolor, lines, left, msgs_sent, due>>

(* Mutant: the marker stays when the pass was slow.                        *)
EvEndMarkerKeeps ==
  /\ ev_pc = "logs"
  /\ log > Len(Logs)
  /\ ev_pc' = "report"
  /\ EvUnchanged /\ UNCHANGED <<marker, fastfile, msgs_sent, ev_pass>>

(* A fast pass writes the marker again, and so the next one is fast.       *)
EvEndMarker ==
  /\ ev_pc = "logs"
  /\ log > Len(Logs)
  /\ marker' = (fastfile \/ (marker /\ fastmsgs # "auto"))
  /\ ev_pc' = "report"
  /\ EvUnchanged /\ UNCHANGED <<fastfile, msgs_sent, ev_pass>>

EvReport ==
  /\ ev_pc = "report"
  /\ msgs_sent' = mcolor
  /\ ev_pc' = "idle"
  /\ EvUnchanged /\ UNCHANGED <<marker, fastfile, ev_pass>>

(* The process dies: killed, the marker cannot be written, or by an event. *)
EvDie ==
  /\ ev_pc \notin {"idle", "dead"}
  /\ ev_pc' = "dead"
  /\ asked' = (asked \/ (fastmsgs = "auto" /\ ev_pc = "logs"))
  /\ UNCHANGED <<fastmsgs, rules, marker, fastfile, msgs_sent, ev_pass>>

EvRestart ==
  /\ ev_pc = "dead"
  /\ ev_pc' = "idle"
  /\ EvUnchanged /\ UNCHANGED <<marker, fastfile, msgs_sent, ev_pass>>

(* The administrator asks for fast passes, or for slow ones again.         *)
EvAdmin ==
  /\ ev_pc = "idle"
  /\ marker' = ~marker
  /\ asked' = marker'
  /\ UNCHANGED <<ev_pc, fastmsgs, rules, fastfile, msgs_sent, ev_pass>>

EvNext ==
  \/ EvDisabled \/ EvBegin \/ EvMarker \/ EvReadLog \/ EvSkipLog \/ EvNoLogs
  \/ EvEndMarker \/ EvReport \/ EvDie \/ EvRestart \/ EvAdmin

EvSpec == EvInit /\ [][EvNext]_ev_vars

-----------------------------------------------------------------------------
(* Under fastmsgs=auto a pass is fast exactly when an earlier one died     *)
(* while it read the logs, or the administrator asked for it: a slow pass  *)
(* that ends well leaves no marker behind (ChangeLog, 090112); a fast one  *)
(* does, and the passes behind it stay fast.                               *)
FastWhenAsked ==
  ev_pc = "logs" /\ fastmsgs = "auto" => (fastfile <=> asked)

(* The query reaches back as far as msgage: with the clock at seconds since *)
(* 1970 and milliseconds in a second, msgage is below some twenty days.    *)
QueryReaches == MsgAge * PerSecond <= Clock - MsgAge

(* A report whose logs could all be read is as bad as the worst event no   *)
(* older than msgage (in a fast pass: among the newest of each log), each  *)
(* taken by the first rule that matches it, whatever lies between them;    *)
(* and it shows each of them unless it is full.  A type rule matches here  *)
(* what it matches in the code, see ErrorsAlarm.                           *)
WorstEventShows ==
  ev_pc = "report" /\ readable =>
    \A d \in due :
      LET a == match_rules(d[2], d[1])
      IN /\ a # "ignore" => d \in lines \/ left = 0
         /\ a = "red" => mcolor = "red"
         /\ a = "yellow" => mcolor # "green"

(* With "red type error" as the first rule a young error event turns the   *)
(* report red (EVENTS, 44: "red type error [...] This will give the same   *)
(* default behaviour as the current BB client").  Windows gives an error   *)
(* the level 2.                                                            *)
ErrorLevel == 2

ErrorsAlarm ==
  /\ ev_pc = "report" /\ readable
  /\ rules # <<>> /\ Head(rules) = [action |-> "red", test |-> "type", value |-> "error"]
  => \A d \in due : d[2].level = ErrorLevel => mcolor = "red"

(* Every event on a report is at most msgage old (EVENTS, 3-6: "Has a      *)
(* maximum age beyond which any entries are ignored. The maximum age is    *)
(* determined by the msgage directive").                                   *)
OldEventsIgnored == \A r \in lines : r[2].age <= MsgAge
=============================================================================
