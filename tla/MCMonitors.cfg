\* Kangal with one caller of kangal_control at a time, or the telemetry with
\* two services; every cooldown is one or two units of time; one SSH call
\* at a time; the daemon with one goroutine that wants a database.
SPECIFICATION MCSpec
CONSTANTS
  BusCap = 1
  Callers = {c1}
  Patterns = {"process_crash", "generic_error"}
  CrashPattern = "process_crash"
  Severity <- MC_Severity
  Cooldown = 1
  TestCooldown = 1
  Services = {s1, s2}
  Resources = {r1}
  ServiceCooldown = 2
  ResourceCooldown <- MC_ResourceCooldown
  CpuCooldown = 2
  StrikeLimit = 2
  StrikeCap = 3
  Hosts = {h1}
  Tunnels = {t1, t2}
  SshCallers = {c1}
  NoTunnel = NoTunnel
  NoCaller = NoCaller
  IdleTimeout = 0
  MaxAge = 1
  Managed = {"tasks.db"}
  Queried = {"other.db"}
  Handles = {1}
  DbCallers = {d1}
  NoHandle = NoHandle
  Parts = {"kangal", "telemetry", "ssh", "daemon"}
INVARIANTS MonitorsTypeOK
PROPERTIES CallsReturn MonitorsEnd EachCrashReported LoadReported
   SignalsEnd
CHECK_DEADLOCK FALSE
