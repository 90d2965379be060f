--------------------------- MODULE MonitorsProofs ---------------------------
(***************************************************************************)
(* Proofs about the monitors of the daemon, for any services, patterns,    *)
(* callers and cooldowns: the telemetry service and Kangal, and the type   *)
(* invariant of these two, of the SSH sessions and of the daemon's life    *)
(* where they are looked at together.                                      *)
(***************************************************************************)
EXTENDS MCMonitors, ConnectionsProofs, TLAPS

-----------------------------------------------------------------------------
(* The telemetry service                                                   *)

USE DEF Never

\* While a service is not known to be down the tracker holds no alert about
\* it: ServiceDown's CanSend never finds an earlier one.
Forgotten == \A s \in Services : observed[s] # "down" => sent[s] = Never

\* The types the proof below needs.
Tables ==
  /\ observed \in [Services -> {"unknown", "up", "down"}]
  /\ sent \in [Keys -> Nat \cup {Never}]

TelemetryIInv == Tables /\ Forgotten

\* A report of something that is not a service leaves the services' entries
\* in the tracker alone.
LEMMA ReportElsewhere ==
  ASSUME TelemetryIInv, NEW k \in Keys \ Services, Report(k), observed' = observed
  PROVE  TelemetryIInv'
BY DEF TelemetryIInv, Tables, Forgotten, Report, Keys

\* The initial state has the tables empty.
LEMMA TelemetryInitial == TelemetryInit => TelemetryIInv
BY DEF TelemetryInit, TelemetryIInv, Tables, Forgotten, Keys

\* Each sample of each monitor keeps the tables and what they say of the
\* services.
LEMMA TelemetryInductive ==
  TelemetryIInv /\ [TelemetryNext]_telemetryVars => TelemetryIInv'
<1> SUFFICES ASSUME TelemetryIInv, [TelemetryNext]_telemetryVars
             PROVE  TelemetryIInv'
  OBVIOUS
<1> USE DEF TelemetryIInv, Tables, Forgotten
<1>1. CASE TelemetryTick
  <2>1. \A k \in Keys : sent'[k] \in Nat \cup {Never} /\ (sent[k] = Never => sent'[k] = Never)
    BY <1>1 DEF TelemetryTick
  <2>2. sent' \in [Keys -> Nat \cup {Never}]
    BY <1>1, <2>1 DEF TelemetryTick
  <2> QED
    BY <1>1, <2>1, <2>2 DEF TelemetryTick, Keys
<1>2. CASE SampleCpu
  <2>1. "cpu" \in Keys \ Services
    BY TelemetryAssumption DEF Keys
  <2>2. CASE UNCHANGED <<sent, bus>>
    BY <1>2, <2>2 DEF SampleCpu
  <2>3. CASE Report("cpu")
    BY <1>2, <2>1, <2>3, ReportElsewhere DEF SampleCpu
  <2> QED
    BY <1>2, <2>2, <2>3 DEF SampleCpu
<1>3. CASE SampleNetwork
  BY <1>3 DEF SampleNetwork
<1>4. ASSUME NEW s \in Services, ServiceUnchanged(s)
      PROVE  TelemetryIInv'
  BY <1>4 DEF ServiceUnchanged
<1>5. ASSUME NEW s \in Services, ServiceDown(s)
      PROVE  TelemetryIInv'
  BY <1>5 DEF ServiceDown, Report, Keys
<1>6. ASSUME NEW s \in Services, ServiceBack(s)
      PROVE  TelemetryIInv'
  BY <1>6 DEF ServiceBack, Keys
<1>7. ASSUME NEW r \in Resources, ResourceOver(r)
      PROVE  TelemetryIInv'
  BY <1>7, ReportElsewhere, TelemetryAssumption DEF ResourceOver, Keys
<1>8. CASE UNCHANGED <<observed, sent>>
  BY <1>8
<1> QED
  BY <1>1, <1>2, <1>3, <1>4, <1>5, <1>6, <1>7, <1>8 DEF TelemetryNext, telemetryVars

\* Every service that is found dead after it was found running is reported,
\* however short its last recovery was.
THEOREM CrashesReported == TelemetrySpec => EachCrashReported
<1>1. ASSUME TelemetryIInv, TelemetryNext, NEW s \in Services,
             observed[s] = "up", observed'[s] = "down"
      PROVE  sent'[s] = 0
  <2> USE DEF TelemetryIInv, Tables, Forgotten
  <2>1. PICK t \in Services : ServiceUnchanged(t) \/ ServiceDown(t) \/ ServiceBack(t)
    BY <1>1 DEF TelemetryNext, TelemetryTick, SampleCpu, SampleNetwork, ResourceOver
  <2>2. ~ServiceUnchanged(t)
    BY <1>1 DEF ServiceUnchanged
  <2>3. ~ServiceBack(t)
    BY <1>1 DEF ServiceBack
  <2>4. ServiceDown(t) /\ t = s
    BY <1>1, <2>1, <2>2, <2>3 DEF ServiceDown
  <2>5. CanSend(s)
    BY <1>1 DEF CanSend
  <2> QED
    BY <1>1, <2>4, <2>5 DEF ServiceDown, Report, Keys
<1>2. TelemetryIInv /\ [TelemetryNext]_telemetryVars =>
        [\A s \in Services :
           observed[s] = "up" /\ observed'[s] = "down" => sent'[s] = 0]_telemetryVars
  BY <1>1
<1> QED
  BY <1>2, TelemetryInitial, TelemetryInductive, PTL DEF TelemetrySpec, EachCrashReported

\* The event channel is within its capacity, whoever sends and receives.
LEMMA BusBounded ==
  ASSUME bus \in 0..BusCap, Offer \/ Deliver \/ OthersSend \/ UNCHANGED bus
  PROVE  bus' \in 0..BusCap
<1>1. BusCap \in Nat
  BY BusAssumption
<1>2. CASE Offer
  BY <1>1, <1>2 DEF Offer
<1>3. CASE Deliver
  BY <1>1, <1>3 DEF Deliver
<1>4. CASE OthersSend
  BY <1>1, <1>4 DEF OthersSend
<1> QED
  BY <1>2, <1>3, <1>4

\* Cooldowns are natural numbers.
LEMMA CooldownsTyped == \A k \in Keys : CooldownOf(k) \in Nat
BY TelemetryAssumption DEF Keys, CooldownOf

LEMMA TelemetryInitiallyTyped == TelemetryInit => TelemetryTypeOK
<1> SUFFICES ASSUME TelemetryInit PROVE TelemetryTypeOK
  OBVIOUS
<1>1. \A k \in Keys : sent[k] = Never /\ sent[k] <= CooldownOf(k)
  BY CooldownsTyped DEF TelemetryInit
<1> QED
  BY <1>1, TelemetryAssumption, BusAssumption DEF TelemetryInit, TelemetryTypeOK

\* What is sent is recorded with its age; ages grow up to the cooldown.
LEMMA SentTyped ==
  ASSUME TelemetryTypeOK, TelemetryNext
  PROVE  /\ sent' \in [Keys -> Nat \cup {Never}]
         /\ \A k \in Keys : sent'[k] <= CooldownOf(k)
<1>0. sent \in [Keys -> Nat \cup {Never}] /\ \A k \in Keys : sent[k] <= CooldownOf(k)
  BY DEF TelemetryTypeOK
<1>1. CASE TelemetryTick
  <2>1. ASSUME NEW k \in Keys
        PROVE  sent'[k] \in Nat \cup {Never} /\ sent'[k] <= CooldownOf(k)
    BY <1>0, <1>1, <2>1, CooldownsTyped DEF TelemetryTick
  <2>2. sent' = [k \in Keys |-> sent'[k]]
    BY <1>1 DEF TelemetryTick
  <2> QED
    BY <2>1, <2>2
<1>2. ASSUME NEW k \in Keys, NEW a \in {0, Never}, sent' = [sent EXCEPT ![k] = a]
      PROVE  /\ sent' \in [Keys -> Nat \cup {Never}]
             /\ \A j \in Keys : sent'[j] <= CooldownOf(j)
  BY <1>0, <1>2, CooldownsTyped
<1>3. CASE UNCHANGED sent
  BY <1>0, <1>3
<1>4. ASSUME NEW s \in Services, ServiceDown(s) \/ ServiceBack(s)
      PROVE  \/ UNCHANGED sent
             \/ \E k \in Keys, a \in {0, Never} : sent' = [sent EXCEPT ![k] = a]
  BY <1>4 DEF ServiceDown, ServiceBack, Report, Keys
<1>5. ASSUME SampleCpu \/ \E r \in Resources : ResourceOver(r)
      PROVE  \/ UNCHANGED sent
             \/ \E k \in Keys, a \in {0, Never} : sent' = [sent EXCEPT ![k] = a]
  BY <1>5 DEF SampleCpu, ResourceOver, Report, Keys
<1> QED
  BY <1>1, <1>2, <1>3, <1>4, <1>5 DEF TelemetryNext, SampleNetwork, ServiceUnchanged

LEMMA TelemetryStaysTyped == TelemetryTypeOK /\ [TelemetryNext]_telemetryVars => TelemetryTypeOK'
<1> SUFFICES ASSUME TelemetryTypeOK, [TelemetryNext]_telemetryVars
             PROVE  TelemetryTypeOK'
  OBVIOUS
<1>1. CASE TelemetryNext
  <2>1. observed' \in [Services -> {"unknown", "up", "down"}]
    <3>1. CASE UNCHANGED observed
      BY <3>1 DEF TelemetryTypeOK
    <3>2. ASSUME NEW s \in Services, ServiceUnchanged(s) \/ ServiceDown(s) \/ ServiceBack(s)
          PROVE  observed' \in [Services -> {"unknown", "up", "down"}]
      BY <3>2 DEF TelemetryTypeOK, ServiceUnchanged, ServiceDown, ServiceBack
    <3> QED
      BY <1>1, <3>1, <3>2 DEF TelemetryNext, TelemetryTick, SampleCpu, SampleNetwork, ResourceOver
  <2>2. strikes' \in 0..StrikeCap
    <3>1. CASE UNCHANGED strikes
      BY <3>1 DEF TelemetryTypeOK
    <3>2. CASE SampleCpu
      <4>1. PICK high \in BOOLEAN :
              LET n == IF high THEN strikes + 1 ELSE 0
              IN  strikes' \in {0, IF n > StrikeCap THEN StrikeLimit ELSE n}
        BY <3>2 DEF SampleCpu
      <4>2. strikes \in 0..StrikeCap
        BY DEF TelemetryTypeOK
      <4> QED
        BY <4>1, <4>2, TelemetryAssumption
    <3> QED
      BY <1>1, <3>1, <3>2 DEF TelemetryNext, TelemetryTick, SampleNetwork, ResourceOver,
                              ServiceUnchanged, ServiceDown, ServiceBack
  <2>3. online' \in BOOLEAN
    BY <1>1 DEF TelemetryTypeOK, TelemetryNext, TelemetryTick, SampleCpu, SampleNetwork,
                ResourceOver, ServiceUnchanged, ServiceDown, ServiceBack
  <2>4. Offer \/ Deliver \/ OthersSend \/ UNCHANGED bus
    BY <1>1 DEF TelemetryNext, TelemetryTick, SampleCpu, SampleNetwork, ResourceOver, Report,
                ServiceUnchanged, ServiceDown, ServiceBack
  <2>5. bus' \in 0..BusCap
    BY <2>4, BusBounded DEF TelemetryTypeOK
  <2> QED
    BY <1>1, <2>1, <2>2, <2>3, <2>5, SentTyped DEF TelemetryTypeOK
<1>2. CASE UNCHANGED telemetryVars
  BY <1>2 DEF telemetryVars, TelemetryTypeOK
<1> QED
  BY <1>1, <1>2

-----------------------------------------------------------------------------
(* Kangal                                                                  *)

ScanRecords == [pc : {"idle", "match", "lookup", "send", "ended"}, left : SUBSET Patterns]

LEMMA KangalInitiallyTyped == KangalInit => KangalTypeOK
BY KangalAssumption, BusAssumption DEF KangalInit, KangalTypeOK, ScanIdle, Levels, CallSteps

\* What the tracker says of the patterns.
LEMMA AgesTyped ==
  ASSUME KangalTypeOK
  PROVE  /\ \A p \in Patterns : Marked(p) => age' \in [Patterns -> 0..Cooldown]
         /\ KangalTick =>
              age' \in [Patterns -> 0..Cooldown] /\ testAge' \in 0..TestCooldown
         /\ Restart =>
              age' \in [Patterns -> 0..Cooldown] /\ testAge' \in 0..TestCooldown
<1>1. Cooldown \in Nat /\ TestCooldown \in Nat
  BY KangalAssumption
<1>2. age \in [Patterns -> 0..Cooldown] /\ testAge \in 0..TestCooldown
  BY DEF KangalTypeOK
<1>3. ASSUME NEW p \in Patterns, Marked(p)
      PROVE  age' \in [Patterns -> 0..Cooldown]
  BY <1>1, <1>2, <1>3 DEF Marked
<1>4. ASSUME KangalTick
      PROVE  age' \in [Patterns -> 0..Cooldown] /\ testAge' \in 0..TestCooldown
  BY <1>1, <1>2, <1>4 DEF KangalTick
<1>5. ASSUME Restart
      PROVE  age' \in [Patterns -> 0..Cooldown] /\ testAge' \in 0..TestCooldown
  BY <1>1, <1>5 DEF Restart
<1> QED
  BY <1>3, <1>4, <1>5

\* A step of the event log scanner.
LEMMA ScannerTyped ==
  ASSUME KangalTypeOK, Scanner
  PROVE  KangalTypeOK'
<1> USE DEF KangalTypeOK, monitorVars
<1>1. CASE ScanBegin
  BY <1>1 DEF ScanBegin
<1>2. CASE ScanMatch
  <2>1. PICK p \in scan.left :
          /\ Marked(p) \/ UNCHANGED age
          /\ \/ scan' = [scan EXCEPT !.left = @ \ {p}]
             \/ scan' = [pc |-> "lookup", left |-> scan.left \ {p}]
    BY <1>2 DEF ScanMatch
  <2>2. age' \in [Patterns -> 0..Cooldown]
    BY <2>1, AgesTyped
  <2>3. scan' \in ScanRecords
    BY <2>1 DEF ScanRecords
  <2> QED
    BY <1>2, <2>2, <2>3 DEF ScanMatch, ScanRecords
<1>3. CASE ScanLookup \/ ScanEnd \/ ScanStop
  BY <1>3 DEF ScanLookup, ScanEnd, ScanStop, ScanIdle
<1>4. CASE ScanSend
  <2>1. bus' \in 0..BusCap
    BY <1>4, BusBounded DEF ScanSend
  <2> QED
    BY <1>4, <2>1 DEF ScanSend
<1> QED
  BY <1>1, <1>2, <1>3, <1>4 DEF Scanner

\* A step of the watcher of crashed processes.
LEMMA WatcherTyped ==
  ASSUME KangalTypeOK, Watcher
  PROVE  KangalTypeOK'
<1> USE DEF KangalTypeOK, monitorVars
<1>1. CASE CrashSeen
  <2>1. age' \in [Patterns -> 0..Cooldown]
    BY <1>1, AgesTyped, KangalAssumption DEF CrashSeen
  <2> QED
    BY <1>1, <2>1 DEF CrashSeen
<1>2. CASE CrashSend
  <2>1. bus' \in 0..BusCap
    BY <1>2, BusBounded DEF CrashSend
  <2> QED
    BY <1>2, <2>1 DEF CrashSend
<1>3. CASE CrashLookup \/ CrashStop
  BY <1>3 DEF CrashLookup, CrashStop
<1> QED
  BY <1>1, <1>2, <1>3 DEF Watcher

\* A step of a kangal_control call.
LEMMA CallTyped ==
  ASSUME KangalTypeOK, NEW c \in Callers, Invoke(c) \/ Handle(c)
  PROVE  KangalTypeOK'
<1> USE DEF KangalTypeOK, monitorVars
<1>1. call' \in [Callers -> CallSteps]
  <2>1. \A a \in CallSteps : [call EXCEPT ![c] = a] \in [Callers -> CallSteps]
    OBVIOUS
  <2> QED
    BY <2>1 DEF CallSteps, Invoke, Handle, Status, Enable, Disable, DisableNotification, Test,
                Sensitivity, SetPatterns
<1>2. CASE Invoke(c) \/ Status(c) \/ Disable(c) \/ DisableNotification(c) \/ Sensitivity(c)
  BY <1>1, <1>2 DEF Invoke, Status, Disable, DisableNotification, Sensitivity
<1>3. CASE Enable(c)
  <2>1. CASE Restart
    BY <1>1, <1>3, <2>1, AgesTyped DEF Enable, Restart, ScanIdle, Levels
  <2>2. CASE UNCHANGED <<running, detecting, notifying, level, monitorVars, age, testAge>>
    BY <1>1, <1>3, <2>2 DEF Enable
  <2> QED
    BY <1>3, <2>1, <2>2 DEF Enable
<1>4. CASE Test(c)
  <2>1. testAge' \in 0..TestCooldown
    BY <1>4, KangalAssumption DEF Test
  <2>2. bus' \in 0..BusCap
    BY <1>4, BusBounded DEF Test
  <2> QED
    BY <1>1, <1>4, <2>1, <2>2 DEF Test
<1>5. CASE SetPatterns(c)
  BY <1>1, <1>5 DEF SetPatterns
<1> QED
  BY <1>2, <1>3, <1>4, <1>5 DEF Handle

LEMMA KangalStaysTyped == KangalTypeOK /\ [KangalNext]_kangalVars => KangalTypeOK'
<1> SUFFICES ASSUME KangalTypeOK, [KangalNext]_kangalVars
             PROVE  KangalTypeOK'
  OBVIOUS
<1>1. CASE KangalTick
  BY <1>1, AgesTyped DEF KangalTick, KangalTypeOK, monitorVars
<1>2. CASE RequestStop \/ Stop
  BY <1>2 DEF RequestStop, Stop, KangalTypeOK, monitorVars
<1>3. CASE /\ Deliver \/ OthersSend
           /\ UNCHANGED <<running, stopping, detecting, notifying, level, call, monitorVars,
                          age, testAge>>
  <2>1. bus' \in 0..BusCap
    BY <1>3, BusBounded DEF KangalTypeOK
  <2> QED
    BY <1>3, <2>1 DEF KangalTypeOK, monitorVars
<1>4. CASE UNCHANGED kangalVars
  BY <1>4 DEF kangalVars, KangalTypeOK, monitorVars
<1> QED
  BY <1>1, <1>2, <1>3, <1>4, ScannerTyped, WatcherTyped, CallTyped DEF KangalNext

\* The type invariant of Kangal, for any patterns, callers and cooldowns.
THEOREM KangalTyped == KangalSpec => []KangalTypeOK
BY KangalInitiallyTyped, KangalStaysTyped, PTL DEF KangalSpec

-----------------------------------------------------------------------------
(* The parts together                                                      *)

MonitorsIInv == KangalTypeOK /\ TelemetryTypeOK /\ SshIInv /\ DaemonTyped /\ PoolIInv

LEMMA MonitorsIInvSuffices == MonitorsIInv => MonitorsTypeOK
BY DEF MonitorsIInv, MonitorsTypeOK, SshIInv, DaemonTyped, DaemonTypeOK, PoolIInv

\* A part that rests keeps what is known of it.
LEMMA MonitorsStep == MonitorsIInv /\ [MCNext]_monitors => MonitorsIInv'
<1> SUFFICES ASSUME MonitorsIInv, [MCNext]_monitors
             PROVE  MonitorsIInv'
  OBVIOUS
<1> USE DEF MonitorsIInv
<1>1. ASSUME UNCHANGED sshVars PROVE SshIInv'
  BY <1>1, SshInductive
<1>2. ASSUME UNCHANGED lifeVars PROVE DaemonTyped' /\ PoolIInv'
  BY <1>2, DaemonStaysTyped, PoolInductive
<1>3. CASE KangalNext /\ UNCHANGED <<restOfTelemetry, sshVars, lifeVars>>
  <2>1. KangalTypeOK'
    BY <1>3, KangalStaysTyped
  <2>2. TelemetryTypeOK'
    BY <1>3, <2>1 DEF KangalTypeOK, TelemetryTypeOK, restOfTelemetry
  <2> QED
    BY <1>1, <1>2, <1>3, <2>1, <2>2
<1>4. CASE TelemetryNext /\ UNCHANGED <<restOfKangal, sshVars, lifeVars>>
  <2>1. TelemetryTypeOK'
    BY <1>4, TelemetryStaysTyped
  <2>2. KangalTypeOK'
    BY <1>4, <2>1 DEF KangalTypeOK, TelemetryTypeOK, restOfKangal, monitorVars
  <2> QED
    BY <1>1, <1>2, <1>4, <2>1, <2>2
<1>5. ASSUME UNCHANGED <<kangalVars, restOfTelemetry>>
      PROVE  KangalTypeOK' /\ TelemetryTypeOK'
  BY <1>5 DEF kangalVars, restOfTelemetry, KangalTypeOK, TelemetryTypeOK, monitorVars
<1>6. CASE SshNext /\ UNCHANGED <<kangalVars, restOfTelemetry, lifeVars>>
  BY <1>2, <1>5, <1>6, SshInductive
<1>7. CASE DaemonNext /\ UNCHANGED <<kangalVars, restOfTelemetry, sshVars>>
  BY <1>1, <1>5, <1>7, DaemonStaysTyped, PoolInductive
<1>8. CASE UNCHANGED monitors
  BY <1>1, <1>2, <1>5, <1>8 DEF monitors, telemetryVars, restOfTelemetry
<1> QED
  BY <1>3, <1>4, <1>6, <1>7, <1>8 DEF MCNext

\* The type invariant of the four parts, whichever of them is looked at.
THEOREM MonitorsTyped == MCSpec => []MonitorsTypeOK
<1>1. MCInit => MonitorsIInv
  BY KangalInitiallyTyped, TelemetryInitiallyTyped, SshInitial, DaemonInitial
  DEF MCInit, MonitorsIInv
<1> QED
  BY <1>1, MonitorsStep, MonitorsIInvSuffices, PTL DEF MCSpec
=============================================================================
