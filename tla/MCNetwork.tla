----------------------------- MODULE MCNetwork ------------------------------
(***************************************************************************)
(* The agent's two uses of the network on small instances: a report on its *)
(* way to the displays, and a configuration on its way from the daemon.    *)
(* One thread does both, one after the other, and they share no state: a   *)
(* behaviour here is a behaviour of one of them, the one named by part,    *)
(* while the other stays as it begins.                                     *)
(***************************************************************************)
EXTENDS SendUpdate, ConfigCache

VARIABLE part

all_vars == <<part, vars, cf_vars>>

MCInit == part \in {"send", "config"} /\ Init /\ CfInit

MCNext ==
  /\ UNCHANGED part
  /\ \/ part = "send" /\ Next /\ UNCHANGED cf_vars
     \/ part = "config" /\ CfNext /\ UNCHANGED vars

MCSpec ==
  /\ MCInit /\ [][MCNext]_all_vars
  /\ part = "send" => Fairness
  /\ part = "config" => CfFairness

(* When the failures end, an agent that fetches its configuration comes to *)
(* run the newest one, and keeps it (Converges of ConfigCache).            *)
FetchConverges == part = "config" => Converges
=============================================================================
