----------------------------- MODULE Telemetry -----------------------------
(***************************************************************************)
(* The telemetry service (internal/skills/healt/telemetry.go): one         *)
(* goroutine per resource that takes samples and reports to the agent, and *)
(* the cooldowns that keep it from repeating itself.                       *)
(***************************************************************************)
EXTENDS EventBus

CONSTANTS
  Services,        \* targetServices
  Resources,       \* resources with a threshold: RAM, swap, disk
  ServiceCooldown, \* cooldown of "svc_down_...", in units of Tick
  ResourceCooldown,\* per resource, the cooldown of its alert
  CpuCooldown,     \* cooldown of "cpu_critical"
  StrikeLimit,     \* high samples in a row that raise the CPU alert
  StrikeCap        \* bound: from here the count goes back to
                   \* StrikeLimit, so that each sample is a step

ASSUME TelemetryAssumption ==
  /\ ServiceCooldown \in Nat /\ CpuCooldown \in Nat
  /\ ResourceCooldown \in [Resources -> Nat]
  /\ StrikeLimit \in Nat \ {0} /\ StrikeCap \in Nat /\ StrikeCap > StrikeLimit
  /\ "cpu" \notin Services \cup Resources
  /\ Services \cap Resources = {}

VARIABLES
  observed,   \* serviceState: per service, what the last sample found
  sent,       \* alertTracker.lastSent: per key, its age, or Never
  strikes,    \* highLoadStrikes
  online      \* lastNetStat

telemetryVars == <<observed, sent, strikes, online, bus>>

Never    == -1
Keys     == Services \cup Resources \cup {"cpu"}
CooldownOf(k) == IF k \in Services THEN ServiceCooldown
                 ELSE IF k \in Resources THEN ResourceCooldown[k] ELSE CpuCooldown

TelemetryInit ==
  /\ observed = [s \in Services |-> "unknown"]
  /\ sent = [k \in Keys |-> Never]
  /\ strikes = 0 /\ online = TRUE /\ bus = 0

\* An entry older than its cooldown reads as one that has just expired.
TelemetryTick ==
  /\ sent' = [k \in Keys |-> IF sent[k] # Never /\ sent[k] < CooldownOf(k)
                             THEN sent[k] + 1 ELSE sent[k]]
  /\ UNCHANGED <<observed, strikes, online, bus>>

CanSend(k) == sent[k] = Never \/ sent[k] >= CooldownOf(k)

\* CanSend records the alert; the send that follows may drop it.
Report(k) == sent' = [sent EXCEPT ![k] = 0] /\ Offer

-----------------------------------------------------------------------------
(* The monitors                                                            *)

\* Mutant: the service that is back keeps its cooldown.
ServiceBackKeepingCooldown(s) ==
  /\ observed[s] = "down" /\ observed' = [observed EXCEPT ![s] = "up"]
  /\ Offer
  /\ UNCHANGED <<sent, strikes, online>>

\* monitorCriticalServices, a sample of one service.
ServiceUnchanged(s) ==
  /\ \E now \in {"up", "down"} :
       /\ observed[s] \in {"unknown", now}
       /\ observed' = [observed EXCEPT ![s] = now]
  /\ UNCHANGED <<sent, strikes, online, bus>>

ServiceDown(s) ==
  /\ observed[s] = "up" /\ observed' = [observed EXCEPT ![s] = "down"]
  /\ IF CanSend(s) THEN Report(s) ELSE UNCHANGED <<sent, bus>>
  /\ UNCHANGED <<strikes, online>>

ServiceBack(s) ==
  /\ observed[s] = "down" /\ observed' = [observed EXCEPT ![s] = "up"]
  /\ sent' = [sent EXCEPT ![s] = Never] /\ Offer
  /\ UNCHANGED <<strikes, online>>

\* Mutant: the alert is raised by the StrikeLimit-th strike only.
SampleCpuExactly ==
  /\ \E high \in BOOLEAN :
       LET n == IF high THEN strikes + 1 ELSE 0 IN
         IF n = StrikeLimit /\ CanSend("cpu")
         THEN Report("cpu") /\ strikes' = 0
         ELSE /\ strikes' = IF n > StrikeCap THEN StrikeLimit ELSE n
              /\ UNCHANGED <<sent, bus>>
  /\ UNCHANGED <<observed, online>>

\* monitorCPU.
SampleCpu ==
  /\ \E high \in BOOLEAN :
       LET n == IF high THEN strikes + 1 ELSE 0 IN
         IF n >= StrikeLimit /\ CanSend("cpu")
         THEN Report("cpu") /\ strikes' = 0
         ELSE /\ strikes' = IF n > StrikeCap THEN StrikeLimit ELSE n
              /\ UNCHANGED <<sent, bus>>
  /\ UNCHANGED <<observed, online>>

\* monitorRAM and monitorDisk, a sample over the threshold.
ResourceOver(r) ==
  /\ CanSend(r) /\ Report(r)
  /\ UNCHANGED <<observed, strikes, online>>

\* monitorNetwork: only the return of the connection is reported.
SampleNetwork ==
  /\ \E now \in BOOLEAN :
       /\ online' = now
       /\ IF ~online /\ now THEN Offer ELSE UNCHANGED bus
  /\ UNCHANGED <<observed, sent, strikes>>

TelemetryNext ==
  \/ TelemetryTick \/ SampleCpu \/ SampleNetwork
  \/ \E s \in Services : ServiceUnchanged(s) \/ ServiceDown(s) \/ ServiceBack(s)
  \/ \E r \in Resources : ResourceOver(r)
  \/ /\ Deliver \/ OthersSend
     /\ UNCHANGED <<observed, sent, strikes, online>>

TelemetrySpec == TelemetryInit /\ [][TelemetryNext]_telemetryVars

\* Samples are taken and time goes on.
TelemetryFairness ==
  WF_telemetryVars(TelemetryTick) /\ WF_telemetryVars(SampleCpu)

-----------------------------------------------------------------------------
(* Properties                                                              *)

\* The type invariant.
TelemetryTypeOK ==
  /\ observed \in [Services -> {"unknown", "up", "down"}]
  /\ sent \in [Keys -> Nat \cup {Never}]
  /\ \A k \in Keys : sent[k] <= CooldownOf(k)
  /\ strikes \in 0..StrikeCap /\ online \in BOOLEAN /\ bus \in 0..BusCap

\* Whenever a service that was running is found dead an alert is raised, also
\* when the previous one is younger than the cooldown: the code asks CanSend
\* each time and forgets the earlier alert when the service is back.
EachCrashReported ==
  [][\A s \in Services :
       observed[s] = "up" /\ observed'[s] = "down" => sent'[s] = 0]_telemetryVars

\* A CPU that has been high for StrikeLimit samples is reported or calms
\* down, also when it reached the limit within the cooldown of an alert.
LoadReported == strikes >= StrikeLimit ~> strikes = 0
=============================================================================
