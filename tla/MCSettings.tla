----------------------------- MODULE MCSettings -----------------------------
(***************************************************************************)
(* Settings with the configurations an administrator might write.          *)
(***************************************************************************)
EXTENDS Settings

L(key, val) == [key |-> key, val |-> val]

Display(addr, port) == L("display", [addr |-> addr, port |-> port])

Grace(test, grace) == L("gracetime", [test |-> test, grace |-> grace])

(* An ordinary configuration: ports above and below displays, a file that  *)
(* ends in another section.                                                *)
Ordinary ==
  [main |-> <<Display("a", Nil), L("port", 2000), Display("b", Nil), L("include", "inc"),
              L("sleep", 60), L("loop", 90), L("section", "disk"), L("C", 1), L("D", 1)>>,
   inc |-> <<Display("c", 3000), L("section", "disk"), L("E", 1)>>,
   disk |-> <<L("F", 1)>>,
   other |-> Nil]

(* The log file is opened before the debug level is set; the section is    *)
(* full, and cfgdir leads to a file that adds to it.                       *)
LogFirst ==
  [main |-> <<L("bind", "10.0.0.1"), L("logfile", "log"), L("debug", 2), L("report_size", 99),
              Grace("cpu", 30), Grace("disk", 9), Grace("cpu", 20), L("cfgdir", "other")>>,
   inc |-> Nil, disk |-> Nil, other |-> <<L("section", "mrbig"), L("sleep", 1)>>]

(* The debug level is set first, up or down.                               *)
DebugFirst(debug) ==
  [main |-> <<L("debug", debug), L("logfile", "log"), L("include", "inc"), L("include", "nofile")>>,
   inc |-> <<L("memsize", 8)>>, disk |-> <<L("C", 1)>>, other |-> Nil, nofile |-> Nil]

(* Two log files, the second in an included file; the check is left out.   *)
TwoLogs ==
  [main |-> <<L("logfile", "log"), L("include", "inc")>>,
   inc |-> <<L("logfile", "log2"), L("option", "no_disk")>>, disk |-> <<L("C", 1)>>, other |-> Nil]

(* A file that includes itself.                                            *)
Cycle ==
  [main |-> <<L("debug", 2), L("include", "main"), L("port", 1)>>,
   inc |-> Nil, disk |-> <<L("include", "disk"), L("C", 1)>>, other |-> Nil]

MCFiles == {"main", "inc", "disk", "other", "nofile"}

MCContents ==
  {[f \in MCFiles |-> IF f \in DOMAIN c THEN c[f] ELSE Nil] :
     c \in {Ordinary, LogFirst, DebugFirst(0), DebugFirst(2), TwoLogs, Cycle}}

=============================================================================
