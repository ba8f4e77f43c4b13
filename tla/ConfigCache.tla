---------------------------- MODULE ConfigCache ----------------------------
(***************************************************************************)
(* Central configuration: recv_cfg of cfg.c, called by read_cfg for every  *)
(* .config line at the start of every pass of the main loop.  The reply of *)
(* the configuration daemon is written to cfg.cache-; a reply that ended   *)
(* in order replaces cfg.cache (remove, then rename, as Windows does not   *)
(* rename over an existing file); then cfg.cache is read, whether the      *)
(* download went well or not.                                              *)
(*                                                                         *)
(* A configuration is told apart by its version and by whether it is       *)
(* whole.  Every failure is an action of its own and counts against        *)
(* MaxFaults: the agent or the daemon dies, the disk is full, a file       *)
(* cannot be opened, removed or renamed, Winsock or the network fails.     *)
(***************************************************************************)
EXTENDS Integers

CONSTANTS
  MaxVersion,  \* bound: versions of the configuration published
  MaxFaults,   \* bound: failures of any kind
  Nil          \* no such file, or no configuration

Content == [v : Nat, whole : BOOLEAN]

(* A file opened for writing and not yet written to.                       *)
Empty == [v |-> 0, whole |-> FALSE]

ASSUME CacheAssumption ==
  /\ MaxVersion \in Nat \ {0}
  /\ MaxFaults \in Nat
  /\ Nil \notin Content

VARIABLES
  cf_pc,     \* where recv_cfg and read_cfg are; "idle" between two passes
  newfile,   \* the file cfg.cache-
  cache,     \* the file cfg.cache
  config,    \* what the last pass read; Nil when there was nothing to read
  version,   \* the newest configuration the daemon has
  up,        \* the daemon runs
  serving,   \* the version the daemon sends on the current connection
  faults,    \* failures so far
  had,       \* history: a download has replaced cfg.cache at least once
  torn,      \* history: the agent died between remove and rename, and no
             \* download has replaced cfg.cache since
  unmoved,   \* history: rename failed after remove, and none worked since
  cut,       \* history: a reply was cut short, by the daemon or a full disk
  newest     \* history: the newest whole configuration the agent has run

files == <<newfile, cache>>
daemon == <<version, up>>
cf_hist == <<had, torn, unmoved, cut, newest>>
cf_vars == <<cf_pc, newfile, cache, config, version, up, serving, faults,
             had, torn, unmoved, cut, newest>>

CfDataOK ==
  /\ cf_pc \in {"idle", "open", "connect", "receive", "remove", "rename", "use"}
  /\ newfile \in Content \cup {Nil}
  /\ cache \in Content \cup {Nil}
  /\ config \in Content \cup {Nil}
  /\ version \in 1 .. MaxVersion
  /\ serving \in 0 .. MaxVersion
  /\ faults \in 0 .. MaxFaults
  /\ newest \in Nat

CfFlagsOK ==
  /\ up \in BOOLEAN /\ had \in BOOLEAN
  /\ torn \in BOOLEAN /\ unmoved \in BOOLEAN /\ cut \in BOOLEAN

(* The two files and the applied configuration are absent or some version  *)
(* of the configuration, and counts stay within their bounds.              *)
CfTypeOK == CfDataOK /\ CfFlagsOK

CfInit ==
  /\ cf_pc = "idle"
  /\ newfile = Nil
  /\ cache = Nil
  /\ config = Nil
  /\ version = 1
  /\ up = TRUE
  /\ serving = 0
  /\ faults = 0
  /\ had = FALSE /\ torn = FALSE /\ unmoved = FALSE /\ cut = FALSE
  /\ newest = 0

Fault == faults < MaxFaults /\ faults' = faults + 1

Goto(from, to) == cf_pc = from /\ cf_pc' = to

-----------------------------------------------------------------------------
(* recv_cfg.                                                               *)

(* The .config line is reached.                                            *)
recv_cfg ==
  /\ Goto("idle", "open")
  /\ UNCHANGED <<files, config, daemon, serving, faults, cf_hist>>

(* Mutant: the old cache is given up before the new one is there.          *)
OpenInPlace ==
  /\ Goto("open", "connect")
  /\ newfile' = Empty
  /\ cache' = Nil
  /\ UNCHANGED <<config, daemon, serving, faults, cf_hist>>

Open ==
  /\ Goto("open", "connect")
  /\ newfile' = Empty
  /\ UNCHANGED <<cache, config, daemon, serving, faults, cf_hist>>

(* cfg.cache- cannot be opened: nothing is fetched.                        *)
OpenFails ==
  /\ Goto("open", "use")
  /\ Fault
  /\ UNCHANGED <<files, config, daemon, serving, cf_hist>>

Connect ==
  /\ Goto("connect", "receive")
  /\ up
  /\ serving' = version
  /\ UNCHANGED <<files, config, daemon, faults, cf_hist>>

(* Winsock does not start, the socket cannot be set up, or nobody answers. *)
ConnectFails ==
  /\ Goto("connect", "use")
  /\ \/ Fault
     \/ ~up /\ UNCHANGED faults
  /\ UNCHANGED <<files, config, daemon, serving, cf_hist>>

(* recv returns data, and fwrite takes it: some of the reply, or its rest. *)
Receive(whole) ==
  /\ cf_pc = "receive" /\ up
  /\ newfile # [v |-> serving, whole |-> TRUE]
  /\ newfile' = [v |-> serving, whole |-> whole]
  /\ UNCHANGED <<cf_pc, cache, config, daemon, serving, faults, cf_hist>>

(* recv returns 0: the daemon has sent everything and closed.              *)
EndOfReply ==
  /\ Goto("receive", "remove")
  /\ newfile = [v |-> serving, whole |-> TRUE]
  /\ UNCHANGED <<files, config, daemon, serving, faults, cf_hist>>

(* recv returns 0 although the reply was cut short: the daemon's process   *)
(* ended in mid-reply, or fwrite wrote less than it was given.             *)
EndCutShort ==
  /\ Goto("receive", "remove")
  /\ newfile.whole = FALSE
  /\ Fault
  /\ cut' = TRUE
  /\ UNCHANGED <<files, config, daemon, serving, had, torn, unmoved, newest>>

(* Mutant: a failed transfer is installed all the same.                    *)
ReceiveFailsUnnoticed ==
  /\ Goto("receive", "remove")
  /\ \/ Fault
     \/ ~up /\ UNCHANGED faults
  /\ UNCHANGED <<files, config, daemon, serving, cf_hist>>

(* Mutant: the result of a failed recv, -1, is written out as data.        *)
ReceiveFailsWritten ==
  /\ Goto("receive", "use")
  /\ \/ Fault
     \/ ~up /\ UNCHANGED faults
  /\ newfile' = [v |-> -1, whole |-> FALSE]
  /\ UNCHANGED <<cache, config, daemon, serving, cf_hist>>

(* recv fails, or ten seconds have passed, or the clock was set back:      *)
(* failure, and cfg.cache is left alone.  (The exception set handed to     *)
(* select is never filled, so that exit is never taken.)                   *)
ReceiveFails ==
  /\ Goto("receive", "use")
  /\ \/ Fault
     \/ ~up /\ UNCHANGED faults
  /\ UNCHANGED <<files, config, daemon, serving, cf_hist>>

(* Mutant: the old file is not removed first.                              *)
RemoveForgotten ==
  /\ Goto("remove", "rename")
  /\ UNCHANGED <<files, config, daemon, serving, faults, cf_hist>>

Remove ==
  /\ Goto("remove", "rename")
  /\ cache' = Nil
  /\ UNCHANGED <<newfile, config, daemon, serving, faults, cf_hist>>

(* Another program holds cfg.cache open.                                   *)
RemoveFails ==
  /\ Goto("remove", "rename")
  /\ cache # Nil
  /\ Fault
  /\ UNCHANGED <<files, config, daemon, serving, cf_hist>>

(* rename fails when cfg.cache is still there; its result is not looked at.*)
Rename ==
  /\ Goto("rename", "use")
  /\ IF cache = Nil
     THEN /\ cache' = newfile /\ newfile' = Nil
          /\ had' = TRUE /\ torn' = FALSE /\ unmoved' = FALSE
     ELSE UNCHANGED <<files, had, torn, unmoved>>
  /\ UNCHANGED <<config, daemon, serving, faults, cut, newest>>

(* cfg.cache is gone, and rename fails all the same: another program holds *)
(* cfg.cache- open.  The reply stays there until the next download starts. *)
RenameFails ==
  /\ Goto("rename", "use")
  /\ cache = Nil
  /\ Fault
  /\ unmoved' = TRUE
  /\ UNCHANGED <<files, config, daemon, serving, had, torn, cut, newest>>

(* What the pass runs on, and the newest version that was whole.           *)
Apply(content) ==
  /\ config' = content
  /\ newest' = IF content # Nil /\ content.whole THEN content.v ELSE newest
  /\ UNCHANGED <<files, daemon, serving, had, torn, unmoved, cut>>

(* Mutant: cfg.cache is read only after a successful download.             *)
read_cfg_fresh ==
  /\ Goto("use", "idle")
  /\ Apply(IF cache # Nil /\ cache.v = serving THEN cache ELSE Nil)
  /\ UNCHANGED faults

(* read_cfg(category, "cfg.cache"): a missing file reads as nothing.       *)
read_cfg ==
  /\ Goto("use", "idle")
  /\ Apply(cache)
  /\ UNCHANGED faults

(* cfg.cache is there and cannot be opened: it reads as nothing, too.      *)
read_cfg_fails ==
  /\ Goto("use", "idle")
  /\ cache # Nil
  /\ Fault
  /\ Apply(Nil)

-----------------------------------------------------------------------------
(* The agent dies and is started again; the files stay.                    *)
Crash ==
  /\ Fault
  /\ cf_pc' = "idle"
  /\ config' = Nil
  /\ torn' = (torn \/ (cf_pc = "rename" /\ cache = Nil))
  /\ UNCHANGED <<files, daemon, serving, had, unmoved, cut, newest>>

(* The administrator publishes a new configuration.                        *)
Publish ==
  /\ version < MaxVersion
  /\ version' = version + 1
  /\ UNCHANGED <<cf_pc, files, config, up, serving, faults, cf_hist>>

DaemonStops ==
  /\ up
  /\ Fault
  /\ up' = FALSE
  /\ UNCHANGED <<cf_pc, files, config, version, serving, cf_hist>>

DaemonStarts ==
  /\ ~up
  /\ up' = TRUE
  /\ UNCHANGED <<cf_pc, files, config, version, serving, faults, cf_hist>>

Fetch ==
  \/ recv_cfg \/ Open \/ OpenFails \/ Connect \/ ConnectFails
  \/ \E whole \in BOOLEAN : Receive(whole)
  \/ EndOfReply \/ EndCutShort \/ ReceiveFails
  \/ Remove \/ RemoveFails \/ Rename \/ RenameFails \/ read_cfg \/ read_cfg_fails

CfNext == Fetch \/ Crash \/ Publish \/ DaemonStops \/ DaemonStarts

CfSpec == CfInit /\ [][CfNext]_cf_vars

(* The main loop goes on, a connected daemon gets through its reply, and a *)
(* stopped daemon is started again.                                        *)
CfFairness ==
  WF_cf_vars(Fetch) /\ SF_cf_vars(Receive(TRUE)) /\ WF_cf_vars(DaemonStarts)

CfFairSpec == CfSpec /\ CfFairness

-----------------------------------------------------------------------------
(* Parts of the inductive invariant: while a reply is awaited and put in   *)
(* place cfg.cache- exists, and what is put in place is whole, or somebody *)
(* cut it short.                                                           *)
ReplyOpen == cf_pc \in {"connect", "receive", "remove", "rename"} => newfile # Nil

ReplyWhole == cf_pc \in {"remove", "rename"} /\ ~cut => newfile.whole

(* A configuration that was once downloaded stays on disk, whatever became *)
(* of the daemon, the network and later downloads: cfg.cache is there for  *)
(* every pass unless, since it was last replaced, the agent died between   *)
(* remove and rename or rename failed after remove.  (recv_cfg ignores     *)
(* what rename returns: from then until a download succeeds there is no    *)
(* cfg.cache.)                                                             *)
CacheKept == had /\ ~torn /\ ~unmoved /\ cf_pc # "rename" => cache # Nil

(* A download that failed half-way never becomes the configuration: only a *)
(* reply the daemon itself cut short, or a full disk, can put a partial    *)
(* file in place of cfg.cache.                                             *)
CacheWhole == cache # Nil /\ ~cut => cache.whole

(* A running agent loses the configuration it runs on only by dying, by a  *)
(* rename that failed after remove, or in a pass in which cfg.cache cannot *)
(* be opened; and a whole configuration it takes up, in this life or       *)
(* another, is never older than one it has run before.                     *)
NeverOlder ==
  [][/\ config # Nil /\ config' = Nil
          => unmoved \/ (cf_pc' = "idle" /\ faults' > faults)
     /\ config' # config /\ config' # Nil /\ config'.whole
          => config'.v >= newest]_cf_vars

(* When the failures end, the agent comes to run the newest configuration, *)
(* and keeps it.                                                           *)
Converges == <>[](config = [v |-> version, whole |-> TRUE])

(* What INSTALL says of the cache: "The downloaded configuration is cached *)
(* so that the client can continue running even if the configuration       *)
(* daemon is unavailable."  A crash between remove and rename loses it.    *)
(* (Replies cut short and a rename that fails are left aside: whenever the *)
(* daemon is asked and is not there, the cache should be.)                 *)
StaysConfigured == had /\ ~cut /\ ~unmoved /\ cf_pc = "connect" /\ ~up => cache # Nil

=============================================================================
