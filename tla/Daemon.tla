------------------------------- MODULE Daemon -------------------------------
(***************************************************************************)
(* The life of the daemon process: startDaemon's way up, the two handlers  *)
(* of SIGINT and SIGTERM (one in main, one at the end of startDaemon), the *)
(* order of the shutdown, and the channels the heartbeat is stopped with   *)
(* (cmd/pars/main.go, cmd/pars/runner.go, core/heartbeat/heartbeat.go),    *)
(* with the database pools it opens and closes.                            *)
(***************************************************************************)
EXTENDS DatabasePools

VARIABLES
  stage,         \* how far startDaemon is
  process,       \* alive, or how it ended
  signalled,     \* a signal has come: every handler registered by then has it
  hbLoop,        \* the goroutine of heartbeat.Start
  stopChan,      \* the heartbeat's channels and the context, closed or not
  cleanupStopChan,
  cancelled

daemonVars == <<stage, process, signalled, hbLoop, stopChan, cleanupStopChan,
                cancelled>>
lifeVars == <<daemonVars, poolVars>>

UpStages == {"config", "brains", "stores", "tools", "services", "heartbeat",
             "whatsapp", "kangal", "waiting"}
DownStages == {"stopServices", "hbStop", "hbClose", "ipc", "databases", "cancel",
               "exit"}

Up == process = "up"
Enter(s) == stage' = s /\ UNCHANGED process
ExitWith(s) == process' = s /\ UNCHANGED stage

heartbeatVars == <<hbLoop, stopChan, cleanupStopChan>>

DaemonInit ==
  /\ stage = "config" /\ process = "up" /\ signalled = FALSE
  /\ hbLoop = "none" /\ stopChan = "open" /\ cleanupStopChan = "open"
  /\ cancelled = FALSE
  /\ PoolInit

-----------------------------------------------------------------------------
(* The way up                                                              *)

\* config.Load or the db directory may fail: os.Exit(1).
Configure ==
  /\ Up /\ stage = "config"
  /\ Enter("brains") \/ ExitWith("failed")
  /\ UNCHANGED <<signalled, heartbeatVars, cancelled, poolVars>>

\* A missing key or an unknown provider of the primary brain ends the daemon;
\* of the secondary, leaves it out.
ChooseBrains ==
  /\ Up /\ stage = "brains"
  /\ Enter("stores") \/ ExitWith("failed")
  /\ UNCHANGED <<signalled, heartbeatVars, cancelled, poolVars>>

\* A memory store that does not open is reported, and the daemon goes on; without
\* the Python environment it ends.
OpenStores ==
  /\ Up /\ stage = "stores"
  /\ Enter("tools") \/ ExitWith("failed")
  /\ UNCHANGED <<signalled, heartbeatVars, cancelled, poolVars>>

\* Native and task tools, the plugins (whose errors are warnings) and the agent.
RegisterTools ==
  /\ Up /\ stage = "tools"
  /\ Enter("services") \/ ExitWith("failed")
  /\ UNCHANGED <<signalled, heartbeatVars, cancelled, poolVars>>

\* Telemetry, security, IPC server and the watcher of user skills.
StartServices ==
  /\ Up /\ stage = "services"
  /\ Enter("heartbeat")
  /\ UNCHANGED <<signalled, heartbeatVars, cancelled, poolVars>>

\* NewHeartbeatService and Start, and the SSH cleanup worker.
StartHeartbeat ==
  /\ Up /\ stage = "heartbeat"
  /\ Enter("whatsapp")
  /\ hbLoop' = "select"
  /\ UNCHANGED <<signalled, stopChan, cleanupStopChan, cancelled, poolVars>>

\* With a pairing to make, tail -f keeps startDaemon here until a signal ends it.
StartWhatsApp ==
  /\ Up /\ stage = "whatsapp"
  /\ Enter("kangal")
  /\ UNCHANGED <<signalled, heartbeatVars, cancelled, poolVars>>

\* The listener of system events, Kangal, and the registration of the handler.
StartKangal ==
  /\ Up /\ stage = "kangal"
  /\ Enter("waiting")
  /\ UNCHANGED <<signalled, heartbeatVars, cancelled, poolVars>>

-----------------------------------------------------------------------------
(* The way down                                                            *)

\* A signal finds main's handler registered, and startDaemon's when it waits;
\* startDaemon's channel is made after the way up, and does not see an earlier one.
Signal ==
  /\ Up /\ ~signalled
  /\ signalled' = TRUE
  /\ IF stage = "waiting" THEN Enter("stopServices") ELSE UNCHANGED <<stage, process>>
  /\ UNCHANGED <<heartbeatVars, cancelled, poolVars>>

\* Mutant: the handler is registered when the daemon is up.
MainExitsWhenUp ==
  /\ Up /\ signalled /\ stage \in {"stopServices", "ipc", "databases"}
  /\ ExitWith("exited")
  /\ UNCHANGED <<signalled, heartbeatVars, cancelled, poolVars>>

\* main's handler says goodbye, sleeps half a second and exits, however far the
\* shutdown is; the half second is over in a step that may take as long.
MainExits ==
  /\ Up /\ signalled /\ stage \notin {"hbStop", "hbClose", "cancel", "exit"}
  /\ ExitWith("exited")
  /\ UNCHANGED <<signalled, heartbeatVars, cancelled, poolVars>>

\* Telemetry, security, Kangal and WhatsApp are stopped.  Kangal.Stop may wait
\* for good (module Kangal), so nothing promises this step.
StopServices ==
  /\ Up /\ stage = "stopServices"
  /\ Enter("hbStop")
  /\ UNCHANGED <<signalled, heartbeatVars, cancelled, poolVars>>

\* heartbeat.Stop closes stopChan, and then cleanupStopChan.
HeartbeatStop ==
  /\ Up /\ stage = "hbStop"
  /\ stopChan' = "closed"
  /\ Enter("hbClose")
  /\ UNCHANGED <<signalled, hbLoop, cleanupStopChan, cancelled, poolVars>>

\* A second close of a channel panics, in whichever goroutine, and ends the process.
CloseCleanupStopChan ==
  /\ cleanupStopChan' = "closed"
  /\ process' = IF cleanupStopChan = "closed" THEN "panicked" ELSE process

HeartbeatStopCleanup ==
  /\ Up /\ stage = "hbClose"
  /\ CloseCleanupStopChan
  /\ stage' = "ipc"
  /\ UNCHANGED <<signalled, hbLoop, stopChan, cancelled, poolVars>>

\* ssh's StopCleanupWorker does nothing by now; server.Shutdown waits for the
\* streams that are open until ShutdownTimeout is over.
StopIpc ==
  /\ Up /\ stage = "ipc"
  /\ Enter("databases")
  /\ UNCHANGED <<signalled, heartbeatVars, cancelled, poolVars>>

CloseDatabases ==
  /\ Up /\ stage = "databases"
  /\ CloseAll
  /\ Enter("cancel")
  /\ UNCHANGED <<signalled, heartbeatVars, cancelled>>

Cancel ==
  /\ Up /\ stage = "cancel"
  /\ cancelled' = TRUE
  /\ Enter("exit")
  /\ UNCHANGED <<signalled, heartbeatVars, poolVars>>

Exit ==
  /\ Up /\ stage = "exit"
  /\ ExitWith("exited")
  /\ UNCHANGED <<signalled, heartbeatVars, cancelled, poolVars>>

\* The goroutine of heartbeat.Start is in a pulse, or in its select.
HeartbeatPulse ==
  /\ Up /\ hbLoop \in {"select", "pulse"}
  /\ hbLoop' = IF hbLoop = "select" THEN "pulse" ELSE "select"
  /\ UNCHANGED <<stage, process, signalled, stopChan, cleanupStopChan, cancelled,
                 poolVars>>

HeartbeatLeaves ==
  /\ Up /\ hbLoop = "select"
  /\ stopChan = "closed" \/ cancelled
  /\ hbLoop' = "ended"
  /\ CloseCleanupStopChan
  /\ UNCHANGED <<stage, signalled, stopChan, cancelled, poolVars>>

\* Everybody who wants a database, from the stores on.
Databases ==
  /\ Up /\ stage \notin {"config", "brains"}
  /\ \E c \in DbCallers : WantHandle(c) \/ HandleStep(c)
  /\ UNCHANGED daemonVars

WayUp ==
  \/ Configure \/ ChooseBrains \/ OpenStores \/ RegisterTools \/ StartServices
  \/ StartHeartbeat \/ StartWhatsApp \/ StartKangal

WayDown ==
  \/ HeartbeatStop \/ HeartbeatStopCleanup \/ StopIpc \/ CloseDatabases
  \/ Cancel \/ Exit

DaemonNext ==
  \/ WayUp \/ Signal \/ MainExits \/ StopServices \/ WayDown
  \/ HeartbeatPulse \/ HeartbeatLeaves \/ Databases

\* The main goroutine, main's handler and the callers are runnable goroutines; a
\* ping has a time limit.  Nothing is assumed of StopServices, WhatsApp or signals.
DaemonFairness ==
  /\ WF_lifeVars(Configure \/ ChooseBrains \/ OpenStores \/ RegisterTools
                 \/ StartServices \/ StartHeartbeat \/ StartKangal)
  /\ WF_lifeVars(MainExits)
  /\ WF_lifeVars(WayDown)
  /\ \A c \in DbCallers :
       WF_lifeVars(Up /\ HandleStep(c) /\ UNCHANGED daemonVars)

DaemonSpec == DaemonInit /\ [][DaemonNext]_lifeVars

-----------------------------------------------------------------------------
(* Properties                                                              *)

DaemonTypeOK ==
  /\ stage \in UpStages \cup DownStages
  /\ process \in {"up", "failed", "exited", "panicked"}
  /\ signalled \in BOOLEAN /\ cancelled \in BOOLEAN
  /\ hbLoop \in {"none", "select", "pulse", "ended"}
  /\ stopChan \in {"open", "closed"} /\ cleanupStopChan \in {"open", "closed"}
  /\ PoolTypeOK

\* A signal ends the daemon wherever it is: on its way up, at the pairing of
\* WhatsApp, and when a service does not let itself be stopped.
SignalsEnd == signalled ~> ~Up

\* main.go:21: "SIGINT/SIGTERM sinyali alindi, sistem guvenli sekilde durduruluyor"
\* (the system is being stopped safely): a daemon that was up and is told to stop
\* closes, and with that checkpoints, the databases it has open before it ends.
DatabasesClosedAtEnd ==
  process \in {"exited", "panicked"} /\ stage \in DownStages => closedAll
=============================================================================
