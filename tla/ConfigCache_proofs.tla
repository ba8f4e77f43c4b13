------------------------- MODULE ConfigCache_proofs ------------------------
(***************************************************************************)
(* Proofs about the configuration cache, for any number of versions and    *)
(* failures: its type, when a configuration once downloaded is kept, that  *)
(* no half-way download takes its place, and that no older one comes back. *)
(***************************************************************************)
EXTENDS ConfigCache, TLAPS

LEMMA EmptyIsContent == Empty \in Content
BY DEF Empty, Content

(* Every step keeps the data well typed.                                   *)
LEMMA DataStep == ASSUME CfTypeOK, [CfNext]_cf_vars PROVE CfDataOK'
<1> USE CacheAssumption, EmptyIsContent
    DEF CfTypeOK, CfDataOK, files, daemon, cf_hist, Goto, Fault
<1>1. CASE recv_cfg \/ Open \/ OpenFails
  BY <1>1 DEF recv_cfg, Open, OpenFails
<1>2. CASE Connect \/ ConnectFails
  BY <1>2 DEF Connect, ConnectFails
<1>3. ASSUME NEW whole \in BOOLEAN, Receive(whole) PROVE CfDataOK'
  <2>1. [v |-> serving, whole |-> whole] \in Content
    BY <1>3 DEF Content
  <2>2. QED BY <1>3, <2>1 DEF Receive
<1>4. CASE EndOfReply \/ EndCutShort \/ ReceiveFails
  BY <1>4 DEF EndOfReply, EndCutShort, ReceiveFails
<1>5. CASE Remove \/ RemoveFails
  BY <1>5 DEF Remove, RemoveFails
<1>6. CASE Rename \/ RenameFails \/ read_cfg \/ read_cfg_fails
  BY <1>6 DEF Rename, RenameFails, read_cfg, read_cfg_fails, Apply, Content
<1>7. CASE Crash \/ Publish
  BY <1>7 DEF Crash, Publish
<1>8. CASE DaemonStops \/ DaemonStarts
  BY <1>8 DEF DaemonStops, DaemonStarts
<1>9. CASE UNCHANGED cf_vars
  BY <1>9 DEF cf_vars
<1>10. QED BY <1>1, <1>2, <1>3, <1>4, <1>5, <1>6, <1>7, <1>8, <1>9 DEF CfNext, Fetch

(* Every step keeps the flags Boolean.                                     *)
LEMMA FlagsStep == ASSUME CfTypeOK, [CfNext]_cf_vars PROVE CfFlagsOK'
BY Zenon
DEF CfTypeOK, CfFlagsOK, CfNext, Fetch, cf_vars, files, daemon, cf_hist, recv_cfg, Open, OpenFails,
    Connect, ConnectFails, Receive, EndOfReply, EndCutShort, ReceiveFails, Remove,
    RemoveFails, Rename, RenameFails, Apply, read_cfg, read_cfg_fails, Crash, Publish,
    DaemonStops, DaemonStarts

(* Every reachable state of the cache is well typed.                       *)
THEOREM CacheTypeOK == CfSpec => []CfTypeOK
<1>1. CfInit => CfDataOK
  BY CacheAssumption DEF CfInit, CfDataOK
<1>2. CfInit => CfFlagsOK
  BY Zenon DEF CfInit, CfFlagsOK
<1>3. QED BY <1>1, <1>2, DataStep, FlagsStep, PTL DEF CfSpec, CfTypeOK

-----------------------------------------------------------------------------
(* While a reply is awaited, cfg.cache- is there.                          *)
LEMMA ReplyOpenInvariant == CfSpec => []ReplyOpen
<1> USE DEF ReplyOpen
<1>1. CfInit => ReplyOpen
  BY DEF CfInit
<1>2. CfTypeOK /\ ReplyOpen /\ [CfNext]_cf_vars => ReplyOpen'
  <2> SUFFICES ASSUME CfTypeOK, ReplyOpen, [CfNext]_cf_vars PROVE ReplyOpen' OBVIOUS
  <2> USE DEF files, daemon, cf_hist, Goto
  <2>1. CASE recv_cfg \/ OpenFails \/ Connect \/ ConnectFails
    BY <2>1 DEF recv_cfg, OpenFails, Connect, ConnectFails
  <2>2. CASE Open
    BY <2>2, EmptyIsContent, CacheAssumption DEF Open
  <2>3. ASSUME NEW whole \in BOOLEAN, Receive(whole) PROVE ReplyOpen'
    <3>1. [v |-> serving, whole |-> whole] \in Content
      BY <2>3, CacheAssumption DEF Content, CfTypeOK, CfDataOK
    <3>2. QED BY <2>3, <3>1, CacheAssumption DEF Receive
  <2>4. CASE EndOfReply \/ EndCutShort \/ ReceiveFails
    BY <2>4 DEF EndOfReply, EndCutShort, ReceiveFails
  <2>5. CASE Remove \/ RemoveFails \/ Rename \/ RenameFails \/ read_cfg \/ read_cfg_fails
    BY <2>5 DEF Remove, RemoveFails, Rename, RenameFails, Apply, read_cfg, read_cfg_fails
  <2>6. CASE Crash \/ Publish \/ DaemonStops \/ DaemonStarts \/ UNCHANGED cf_vars
    BY <2>6 DEF Crash, Publish, DaemonStops, DaemonStarts, cf_vars
  <2>7. QED BY <2>1, <2>2, <2>3, <2>4, <2>5, <2>6 DEF CfNext, Fetch
<1>3. QED BY <1>1, <1>2, CacheTypeOK, PTL DEF CfSpec

(* A configuration once downloaded is kept, unless the agent dies between  *)
(* remove and rename, or rename fails after remove.                        *)
THEOREM ConfigurationKept == CfSpec => []CacheKept
<1> USE DEF CacheKept
<1>1. CfInit => CacheKept
  BY DEF CfInit
<1>2. ReplyOpen /\ CacheKept /\ [CfNext]_cf_vars => CacheKept'
  <2> SUFFICES ASSUME ReplyOpen, CacheKept, [CfNext]_cf_vars PROVE CacheKept' OBVIOUS
  <2> USE DEF files, daemon, cf_hist, Goto
  <2>1. CASE Rename \/ RenameFails
    BY <2>1 DEF Rename, RenameFails, ReplyOpen
  <2>2. CASE Remove \/ RemoveFails
    BY <2>2 DEF Remove, RemoveFails
  <2>3. CASE Crash
    BY <2>3 DEF Crash
  <2>4. CASE recv_cfg \/ Open \/ OpenFails \/ Connect \/ ConnectFails
    BY <2>4 DEF recv_cfg, Open, OpenFails, Connect, ConnectFails
  <2>5. CASE \/ \E whole \in BOOLEAN : Receive(whole)
             \/ EndOfReply \/ EndCutShort \/ ReceiveFails \/ read_cfg \/ read_cfg_fails
    BY <2>5 DEF Receive, EndOfReply, EndCutShort, ReceiveFails, Apply, read_cfg, read_cfg_fails
  <2>6. CASE Publish \/ DaemonStops \/ DaemonStarts \/ UNCHANGED cf_vars
    BY <2>6 DEF Publish, DaemonStops, DaemonStarts, cf_vars
  <2>7. QED BY <2>1, <2>2, <2>3, <2>4, <2>5, <2>6 DEF CfNext, Fetch
<1>3. QED BY <1>1, <1>2, ReplyOpenInvariant, PTL DEF CfSpec

(* Only a reply cut short by the daemon or a full disk leaves a partial    *)
(* cfg.cache behind.                                                       *)
THEOREM ConfigurationWhole == CfSpec => []CacheWhole
<1> DEFINE Inv == CacheWhole /\ ReplyWhole
<1> USE DEF CacheWhole, ReplyWhole
<1>1. CfInit => Inv
  BY DEF CfInit
<1>2. Inv /\ [CfNext]_cf_vars => Inv'
  <2> SUFFICES ASSUME Inv, [CfNext]_cf_vars PROVE Inv' OBVIOUS
  <2> USE DEF files, daemon, cf_hist, Goto
  <2>1. CASE Rename \/ RenameFails
    BY <2>1 DEF Rename, RenameFails
  <2>2. CASE Remove \/ RemoveFails
    BY <2>2 DEF Remove, RemoveFails
  <2>3. CASE Crash
    BY <2>3 DEF Crash
  <2>4. CASE recv_cfg \/ Open \/ OpenFails \/ Connect \/ ConnectFails
    BY <2>4 DEF recv_cfg, Open, OpenFails, Connect, ConnectFails
  <2>5. CASE EndOfReply
    BY <2>5 DEF EndOfReply
  <2>6. CASE \/ \E whole \in BOOLEAN : Receive(whole)
             \/ EndCutShort \/ ReceiveFails \/ read_cfg \/ read_cfg_fails
    BY <2>6 DEF Receive, EndCutShort, ReceiveFails, Apply, read_cfg, read_cfg_fails
  <2>7. CASE Publish \/ DaemonStops \/ DaemonStarts \/ UNCHANGED cf_vars
    BY <2>7 DEF Publish, DaemonStops, DaemonStarts, cf_vars
  <2>8. QED BY <2>1, <2>2, <2>3, <2>4, <2>5, <2>6, <2>7 DEF CfNext, Fetch
<1>3. QED BY <1>1, <1>2, PTL DEF CfSpec

-----------------------------------------------------------------------------
(* Versions only grow: a whole reply carries the version being served,     *)
(* which is no older than anything the agent has run when the connection   *)
(* was made; a whole cache is no older than that either; and nothing is    *)
(* newer than what was published.                                          *)
ReplyIsServed ==
  /\ cf_pc = "connect" => ~newfile.whole
  /\ cf_pc \in {"receive", "remove", "rename"} /\ newfile.whole => newfile.v = serving

NewestIsPublished ==
  /\ serving <= version
  /\ newest <= version
  /\ cf_pc \in {"receive", "remove", "rename"} => newest <= serving

CacheIsNewest ==
  cache # Nil /\ cache.whole => newest <= cache.v /\ cache.v <= version

VersionInv == ReplyIsServed /\ NewestIsPublished /\ CacheIsNewest

LEMMA VersionStep == ASSUME CfTypeOK, ReplyOpen, VersionInv, [CfNext]_cf_vars PROVE VersionInv'
<1> USE CacheAssumption
    DEF CfTypeOK, CfDataOK, VersionInv, ReplyIsServed, NewestIsPublished, CacheIsNewest,
        Content, files, daemon, cf_hist, Goto, Fault
<1>1. CASE recv_cfg \/ OpenFails
  BY <1>1 DEF recv_cfg, OpenFails
<1>2. CASE Open
  BY <1>2 DEF Open, Empty
<1>3. CASE Connect
  BY <1>3 DEF Connect, ReplyOpen
<1>4. CASE ConnectFails
  BY <1>4 DEF ConnectFails
<1>5. ASSUME NEW whole \in BOOLEAN, Receive(whole) PROVE VersionInv'
  BY <1>5 DEF Receive
<1>6. CASE EndOfReply \/ EndCutShort \/ ReceiveFails
  BY <1>6 DEF EndOfReply, EndCutShort, ReceiveFails
<1>7. CASE Remove \/ RemoveFails
  BY <1>7 DEF Remove, RemoveFails
<1>8. CASE Rename \/ RenameFails
  BY <1>8 DEF Rename, RenameFails
<1>9. CASE read_cfg \/ read_cfg_fails
  BY <1>9 DEF read_cfg, read_cfg_fails, Apply
<1>10. CASE Crash
  BY <1>10 DEF Crash
<1>11. CASE Publish
  BY <1>11 DEF Publish
<1>12. CASE DaemonStops \/ DaemonStarts \/ UNCHANGED cf_vars
  BY <1>12 DEF DaemonStops, DaemonStarts, cf_vars
<1>13. QED BY <1>1, <1>2, <1>3, <1>4, <1>5, <1>6, <1>7, <1>8, <1>9, <1>10, <1>11, <1>12
           DEF CfNext, Fetch

(* While the agent runs on a configuration cfg.cache is there, but between *)
(* remove and rename or after a rename that failed.                        *)
ConfigHeld == config # Nil /\ ~unmoved /\ cf_pc # "rename" => cache # Nil

LEMMA HeldStep == ASSUME CfTypeOK, ReplyOpen, ConfigHeld, [CfNext]_cf_vars PROVE ConfigHeld'
<1> USE DEF ConfigHeld, files, daemon, cf_hist, Goto
<1>1. CASE Rename \/ RenameFails
  BY <1>1 DEF Rename, RenameFails, ReplyOpen
<1>2. CASE Remove \/ RemoveFails
  BY <1>2 DEF Remove, RemoveFails
<1>3. CASE read_cfg \/ read_cfg_fails
  BY <1>3 DEF read_cfg, read_cfg_fails, Apply
<1>4. CASE Crash
  BY <1>4 DEF Crash
<1>5. CASE recv_cfg \/ Open \/ OpenFails \/ Connect \/ ConnectFails
  BY <1>5 DEF recv_cfg, Open, OpenFails, Connect, ConnectFails
<1>6. CASE (\E whole \in BOOLEAN : Receive(whole)) \/ EndOfReply \/ EndCutShort \/ ReceiveFails
  BY <1>6 DEF Receive, EndOfReply, EndCutShort, ReceiveFails
<1>7. CASE Publish \/ DaemonStops \/ DaemonStarts \/ UNCHANGED cf_vars
  BY <1>7 DEF Publish, DaemonStops, DaemonStarts, cf_vars
<1>8. QED BY <1>1, <1>2, <1>3, <1>4, <1>5, <1>6, <1>7 DEF CfNext, Fetch

(* One step as NeverOlder asks for it.                                     *)
Forward ==
  /\ config # Nil /\ config' = Nil
       => unmoved \/ (cf_pc' = "idle" /\ faults' > faults)
  /\ config' # config /\ config' # Nil /\ config'.whole => config'.v >= newest

(* Only read_cfg and the death of the agent touch what is applied, and     *)
(* read_cfg finds the cache there, and no older.                           *)
LEMMA AppliedStep == ASSUME CfTypeOK, VersionInv, ConfigHeld, [CfNext]_cf_vars PROVE Forward
<1> USE CacheAssumption DEF Forward, CfTypeOK, CfDataOK, Content, Fault, Goto
<1>1. CASE read_cfg
  BY <1>1 DEF read_cfg, Apply, ConfigHeld, VersionInv, CacheIsNewest
<1>2. CASE read_cfg_fails \/ Crash
  BY <1>2 DEF read_cfg_fails, Apply, Crash
<1>3. CASE UNCHANGED config
  BY <1>3
<1>4. QED
  BY <1>1, <1>2, <1>3
  DEF CfNext, Fetch, cf_vars, recv_cfg, Open, OpenFails, Connect, ConnectFails, Receive, EndOfReply,
      EndCutShort, ReceiveFails, Remove, RemoveFails, Rename, RenameFails, Publish, DaemonStops,
      DaemonStarts

(* A running agent loses its configuration only by dying, by a rename that *)
(* failed after remove or in a pass that cannot open cfg.cache, and what   *)
(* it takes up is never older than what it has run.                        *)
THEOREM ConfigurationNeverOlder == CfSpec => NeverOlder
<1>1. CfInit => VersionInv /\ ConfigHeld
  BY CacheAssumption
  DEF CfInit, VersionInv, ReplyIsServed, NewestIsPublished, CacheIsNewest, ConfigHeld
<1>2. CfTypeOK /\ VersionInv /\ ConfigHeld /\ [CfNext]_cf_vars => [Forward]_cf_vars
  BY AppliedStep
<1>3. NeverOlder <=> [][Forward]_cf_vars
  BY PTL DEF NeverOlder, Forward
<1>4. QED
  BY <1>1, <1>2, <1>3, VersionStep, HeldStep, CacheTypeOK, ReplyOpenInvariant, PTL DEF CfSpec

=============================================================================
