----------------------------- MODULE MCMonitors -----------------------------
(***************************************************************************)
(* The monitors of the daemon, its SSH sessions and its life from start to *)
(* shutdown, one of them at a time.  The monitors have only the event      *)
(* channel in common, and to each of them the others are senders that fill *)
(* it and the agent is a receiver that empties it; the other two share no  *)
(* state with them.  So a behaviour looks at one part, chosen at the start *)
(* from Parts, while the others rest.                                      *)
(***************************************************************************)
EXTENDS Kangal, Telemetry, SshSessions, Daemon

CONSTANT Parts

VARIABLE focus

monitors == <<focus, kangalVars, telemetryVars, sshVars, lifeVars>>

MC_Severity == [p \in Patterns |-> CASE p = CrashPattern -> "critical"
                                     [] p = "timeout"    -> "warning"
                                     [] OTHER            -> "info"]
MC_ResourceCooldown == [r \in Resources |-> 2]

restOfKangal    == <<running, stopping, detecting, notifying, level, call,
                     monitorVars, age, testAge>>
restOfTelemetry == <<observed, sent, strikes, online>>

MCInit ==
  /\ focus \in Parts
  /\ KangalInit /\ TelemetryInit /\ SshInit /\ DaemonInit

MCNext ==
  /\ UNCHANGED focus
  /\ \/ /\ focus = "kangal" /\ KangalNext
        /\ UNCHANGED <<restOfTelemetry, sshVars, lifeVars>>
     \/ /\ focus = "telemetry" /\ TelemetryNext
        /\ UNCHANGED <<restOfKangal, sshVars, lifeVars>>
     \/ /\ focus = "ssh" /\ SshNext
        /\ UNCHANGED <<kangalVars, restOfTelemetry, lifeVars>>
     \/ /\ focus = "daemon" /\ DaemonNext
        /\ UNCHANGED <<kangalVars, restOfTelemetry, sshVars>>

\* The fairness of each part, of its actions while it is the one looked at.
\* Said action by action: as four implications it costs TLC sixteen branches.
MCKangalFairness ==
  LET On == focus = "kangal"
  IN  /\ WF_kangalVars(On /\ ScanMatch) /\ WF_kangalVars(On /\ ScanLookup)
      /\ WF_kangalVars(On /\ ScanSend) /\ WF_kangalVars(On /\ ScanEnd)
      /\ SF_kangalVars(On /\ CrashLookup) /\ WF_kangalVars(On /\ CrashSend)
      /\ SF_kangalVars(On /\ ScanStop) /\ SF_kangalVars(On /\ CrashStop)
      /\ SF_kangalVars(On /\ Stop)
      /\ \A c \in Callers : SF_kangalVars(On /\ Handle(c))

MCTelemetryFairness ==
  /\ WF_telemetryVars(focus = "telemetry" /\ TelemetryTick)
  /\ WF_telemetryVars(focus = "telemetry" /\ SampleCpu)

MCSshFairness ==
  LET On == focus = "ssh"
  IN  /\ \A c \in SshCallers : WF_sshVars(On /\ SshStep(c))
      /\ \A k \in Tunnels : WF_sshVars(On /\ KeepAliveFails(k))
      /\ WF_sshVars(On /\ Sweep) /\ WF_sshVars(On /\ SessionsAge)

MCDaemonFairness ==
  LET On == focus = "daemon"
  IN  /\ WF_lifeVars(On /\ (Configure \/ ChooseBrains \/ OpenStores \/ RegisterTools
                            \/ StartServices \/ StartHeartbeat \/ StartKangal))
      /\ WF_lifeVars(On /\ MainExits) /\ WF_lifeVars(On /\ WayDown)
      /\ \A c \in DbCallers :
           WF_lifeVars(On /\ Up /\ HandleStep(c) /\ UNCHANGED daemonVars)

\* The type invariants of the parts.
MonitorsTypeOK == KangalTypeOK /\ TelemetryTypeOK /\ SshTypeOK /\ DaemonTypeOK

MCSpec ==
  /\ MCInit /\ [][MCNext]_monitors
  /\ MCKangalFairness /\ MCTelemetryFairness
  /\ MCSshFairness /\ MCDaemonFairness
=============================================================================
