------------------------------ MODULE MCChecks ------------------------------
(***************************************************************************)
(* The checks of a pass, and the service around it, on small instances.    *)
(* They share no state, so a behaviour here is a behaviour of one of them, *)
(* the one named by part, while the others stay as they begin.             *)
(***************************************************************************)
EXTENDS EventLog, Pickup, Service, Inventory, Load, Wmi

VARIABLE part

all_vars == <<part, ev_vars, ext_vars, sv_vars, inv_vars, ld_vars, wm_vars>>

Parts == {"events", "pickup", "service", "inventory", "load", "wmi"}

MCInit ==
  /\ part \in Parts
  /\ EvInit /\ ExtInit /\ SvInit /\ InvInit /\ LdInit /\ WmInit

MCNext ==
  /\ UNCHANGED part
  /\ \/ /\ part = "events" /\ EvNext
        /\ UNCHANGED <<ext_vars, sv_vars, inv_vars, ld_vars, wm_vars>>
     \/ /\ part = "pickup" /\ ExtNext
        /\ UNCHANGED <<ev_vars, sv_vars, inv_vars, ld_vars, wm_vars>>
     \/ /\ part = "service" /\ SvNext
        /\ UNCHANGED <<ev_vars, ext_vars, inv_vars, ld_vars, wm_vars>>
     \/ /\ part = "inventory" /\ InvNext
        /\ UNCHANGED <<ev_vars, ext_vars, sv_vars, ld_vars, wm_vars>>
     \/ /\ part = "load" /\ LdNext
        /\ UNCHANGED <<ev_vars, ext_vars, sv_vars, inv_vars, wm_vars>>
     \/ /\ part = "wmi" /\ WmNext
        /\ UNCHANGED <<ev_vars, ext_vars, sv_vars, inv_vars, ld_vars>>

MCSpec == MCInit /\ [][MCNext]_all_vars /\ SvFairness

-----------------------------------------------------------------------------
(* EventLog: two logs and the one that is skipped.  Batches of two events; *)
(* contents of up to three, so that a batch does not hold them all; and a  *)
(* report that takes four, or nothing of the longest line.                 *)
MCLogs == <<"Application", "Directory Service", "System">>

Rule(action, on, value) == [action |-> action, test |-> on, value |-> value]

MCRuleFiles ==
  {<<>>,
   <<Rule("red", "type", "error"), Rule("yellow", "type", "warning")>>,
   <<Rule("ignore", "source", "dhcp"), Rule("green", "message", "browser"),
     Rule("yellow", "id", "7"), Rule("red", "log", "System")>>}

Event(level, source, id, words, age, shape, size) ==
  [level |-> level, source |-> source, id |-> id, words |-> words, age |-> age,
   shape |-> shape, size |-> size]

Critical == Event(1, "disk", "7", {}, 0, "full", 1)
Error == Event(2, "disk", "9", {"browser"}, 1, "full", 2)
Lease == Event(1, "dhcp", "7", {}, 1, "nomessage", 1)
Notice == Event(4, "setup", "9", {"browser"}, 2, "full", 5)
Stale == Event(1, "disk", "7", {}, 3, "full", 1)
Broken == Event(1, "disk", "7", {}, 0, "unrenderable", 1)

MCContents ==
  {<<>>, <<Critical>>, <<Error>>, <<Lease, Notice>>, <<Critical, Error, Lease>>,
   <<Notice, Stale>>, <<Error, Lease, Stale>>, <<Broken, Error>>}

-----------------------------------------------------------------------------
(* Pickup: two commands, one status with a machine in its name and one     *)
(* without; anybody may write either file, and one has too long a text.    *)
Backup == [machine |-> "", test |-> "backup"]
Remote == [machine |-> "web", test |-> "mail"]
MCPickupFiles == {Backup, Remote}
MCCommand == <<Backup, Remote>>
MCLong == {Remote}

-----------------------------------------------------------------------------
(* Inventory: two machines, a name in two spellings, processes that cannot *)
(* be opened.                                                              *)
MCComma == [m \in {"web.site"} |-> "web,site"]
MCFold == [n \in {"apache", "Apache", "mysql", Unknown, "Apache Server", "MySQL Server"} |->
             IF n = "Apache" THEN "apache" ELSE n]

Line(name, quoted, nums, machine) ==
  [name |-> name, quoted |-> quoted, nums |-> nums, machine |-> machine]

UpTo2(S) == {<<x>> : x \in S} \union {<<x, y>> : x, y \in S}

MCProcLines ==
  UpTo2({Line("apache", FALSE, <<>>, ""), Line("mysql", FALSE, <<0>>, ""),
         Line("apache", FALSE, <<1, 2>>, "web.site"), Line("mysql", TRUE, <<1, 1>>, "web.site")})

MCSvcLines ==
  UpTo2({Line("apache", FALSE, <<>>, ""), Line("mysql", FALSE, <<1>>, "web.site"),
         Line("Apache Server", TRUE, <<>>, ""), Line("MySQL Server", TRUE, <<4>>, "web.site"),
         Line("MySQL Server", TRUE, <<0>>, "")})

MCProcessLists ==
  LET Open(n) == [name |-> n, opens |-> TRUE]
      Shut(n) == [name |-> n, opens |-> FALSE]
  IN {<<>>, <<Open("apache")>>, <<Open("Apache"), Open("apache")>>,
      <<Open("mysql"), Shut("apache"), Open("Apache")>>, <<Shut("mysql"), Open("apache")>>,
      <<Open("apache"), Open("Apache"), Open("apache"), Open("mysql")>>}

Svc(name, display, state) == [name |-> name, display |-> display, status |-> state]

MCServiceLists ==
  {<<Svc("Apache", "Apache Server", 4)>>,
   <<Svc("apache", "Apache Server", 1), Svc("mysql", "MySQL Server", 4)>>,
   <<Svc("mysql", "MySQL Server", 1)>>}

-----------------------------------------------------------------------------
(* Wmi: one or two pages, with one or two queries each, a query that spans *)
(* two pages, a fixed colour, and lines out of their order.                *)
Cmd(key, value) == [key |-> key, value |-> value]

MCWmiSections ==
  LET open(p) == Cmd("begin", p)
      q == Cmd("query", "")
      go == Cmd("go", "")
      close == Cmd("end", "")
      text == Cmd("text", "")
      f(op) == Cmd("field", op)
      fix(c) == Cmd("always", c)
  IN {<<close, fix("yellow"), open("wmi1"), go, q, f("none"), f("full"), go, close>>,
      <<open("wmi1"), text, q, f("full"), go, q, f("op"), go, close, close>>,
      <<open("wmi1"), q, f("full"), go, close, open("wmi2"), text, close>>,
      <<open("wmi1"), fix("green"), q, f("full"), go, close, open("wmi2"), go, close>>}
=============================================================================
