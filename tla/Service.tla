------------------------------ MODULE Service -------------------------------
(***************************************************************************)
(* The agent as a Windows service: service.c, and main of mrbig.c around   *)
(* it.  The service manager starts the process and delivers one control at *)
(* a time to the handler, which runs in the main thread; ServiceStart runs *)
(* mrbig in a thread of its own, and neither ever looks at the other.  A   *)
(* pause changes what is reported and nothing else; a stop is reported     *)
(* while the worker goes on, and takes effect when the dispatcher returns  *)
(* and main leaves.  SetServiceStatus does not fail: it could only with a  *)
(* handle that is not the service's.                                       *)
(***************************************************************************)

VARIABLES
  registered,     \* the service is in the manager's database: "no", "yes", "marked"
  process,        \* "down", "up", or "leaving" once the dispatcher has returned
  worker,         \* the thread of ServiceStart
  dwCurrentState, \* ServiceStatus.dwCurrentState; "unset" is zero
  told,           \* the state the manager knows
  control,        \* the control being delivered
  winsock         \* Winsock is up

sv_vars == <<registered, process, worker, dwCurrentState, told, control, winsock>>

SvInit ==
  /\ registered = "no"
  /\ process = "down"
  /\ worker = "none"
  /\ dwCurrentState = "unset"
  /\ told = "stopped"
  /\ control = "none"
  /\ winsock = FALSE

-----------------------------------------------------------------------------
(* mrbig -i and mrbig -u, each a process of its own.  The manager refuses  *)
(* a name it has; it drops one at once only when the service is not there. *)
install_service ==
  /\ registered = "no"
  /\ registered' = "yes"
  /\ UNCHANGED <<process, worker, dwCurrentState, told, control, winsock>>

delete_service ==
  /\ registered = "yes"
  /\ registered' = IF process = "down" THEN "no" ELSE "marked"
  /\ UNCHANGED <<process, worker, dwCurrentState, told, control, winsock>>

(* The manager starts the process, whose main calls the dispatcher.        *)
service_main ==
  /\ registered = "yes"
  /\ process = "down"
  /\ process' = "up"
  /\ worker' = "none"
  /\ dwCurrentState' = "unset"
  /\ told' = "start_pending"
  /\ control' = "none"
  /\ winsock' = FALSE
  /\ UNCHANGED registered

(* The handler is registered; when that fails the thread is gone and the   *)
(* manager is left waiting.                                                *)
ServiceStart ==
  /\ process = "up"
  /\ worker = "none"
  /\ dwCurrentState' = "start_pending"
  /\ worker' \in {"starting", "returned"}
  /\ UNCHANGED <<registered, process, told, control, winsock>>

ReportRunning ==
  /\ process = "up"
  /\ worker = "starting"
  /\ dwCurrentState' = "running"
  /\ told' = "running"
  /\ worker' = "mrbig"
  /\ UNCHANGED <<registered, process, control, winsock>>

(* The worker sends a report, whatever state has been reported: Winsock is *)
(* started again when a stop has shut it down.                             *)
WorkerSends ==
  /\ process \in {"up", "leaving"}
  /\ worker = "mrbig"
  /\ winsock' = TRUE
  /\ UNCHANGED <<registered, process, worker, dwCurrentState, told, control>>

-----------------------------------------------------------------------------
(* The manager sends a control to a service that has reported it runs.     *)
SendControl ==
  /\ process = "up"
  /\ control = "none"
  /\ told \in {"running", "paused"}
  /\ control' \in {"pause", "continue", "interrogate", "stop"}
  /\ UNCHANGED <<registered, process, worker, dwCurrentState, told, winsock>>

(* Mutant: a stop is noted and not reported.                               *)
HandleStopSilently ==
  /\ process = "up"
  /\ control = "stop"
  /\ dwCurrentState' = "stopped"
  /\ control' = "none"
  /\ winsock' = FALSE
  /\ UNCHANGED <<registered, process, worker, told>>

(* ServiceCtrlHandler, case by case; the state is reported in every one.   *)
Respond(c, state) ==
  /\ process = "up"
  /\ control = c
  /\ dwCurrentState' = state
  /\ told' = state
  /\ control' = "none"
  /\ UNCHANGED <<registered, process, worker>>

HandlePause == Respond("pause", "paused") /\ UNCHANGED winsock
HandleContinue == Respond("continue", "running") /\ UNCHANGED winsock
HandleInterrogate == Respond("interrogate", dwCurrentState) /\ UNCHANGED winsock
HandleStop == Respond("stop", "stopped") /\ winsock' = FALSE

ServiceCtrlHandler ==
  HandlePause \/ HandleContinue \/ HandleInterrogate \/ HandleStop

-----------------------------------------------------------------------------
(* The dispatcher returns when the service has reported that it stopped.   *)
DispatcherReturns ==
  /\ process = "up"
  /\ told = "stopped"
  /\ process' = "leaving"
  /\ UNCHANGED <<registered, worker, dwCurrentState, told, control, winsock>>

Gone ==
  /\ process' = "down"
  /\ worker' = "none"
  /\ told' = "stopped"
  /\ control' = "none"
  /\ winsock' = FALSE
  /\ registered' = IF registered = "marked" THEN "no" ELSE registered
  /\ UNCHANGED dwCurrentState

(* main returns, or check_chunks ends it while the worker is at the table. *)
Leave == process = "leaving" /\ Gone

(* The process may end at any point: mrexit, a fault, or somebody kills it.*)
Dies == process \in {"up", "leaving"} /\ Gone

SvNext ==
  \/ install_service \/ delete_service \/ service_main \/ ServiceStart
  \/ ReportRunning \/ WorkerSends \/ SendControl \/ ServiceCtrlHandler
  \/ DispatcherReturns \/ Leave \/ Dies

(* The main thread is scheduled: a control reaches the handler, and what   *)
(* follows a stop is done.  Nothing is assumed of the worker.              *)
SvFairness ==
  /\ WF_sv_vars(ServiceCtrlHandler)
  /\ WF_sv_vars(DispatcherReturns)
  /\ WF_sv_vars(Leave)

SvSpec == SvInit /\ [][SvNext]_sv_vars /\ SvFairness

-----------------------------------------------------------------------------
(* A stop that the manager delivers ends the process, paused or not and    *)
(* whatever the worker is doing: it never waits for the worker.            *)
StopEnds == control = "stop" ~> process = "down"
=============================================================================
