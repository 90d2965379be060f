------------------------------- MODULE Kangal -------------------------------
(***************************************************************************)
(* Kangal, the watchdog of the user's machine (internal/skills/kangal):    *)
(* its error detector with an event log scanner and a process monitor, its *)
(* notification engine, the kangal_control tool and the stop at shutdown.  *)
(*                                                                         *)
(* Two locks are held over several steps and are modelled.  Kangal.mu is   *)
(* held by a sensitivity change until it has the pattern lock.             *)
(* ErrorDetector.patternMu is a sync.RWMutex: the scanner reads under it,  *)
(* and a writer that waits keeps new readers out, the scanner's own second *)
(* RLock included.                                                         *)
(***************************************************************************)
EXTENDS EventBus

CONSTANTS
  Callers,        \* concurrent kangal_control calls
  Patterns,       \* the error patterns
  CrashPattern,   \* the pattern "process_crash"
  Severity,       \* per pattern, its severity
  Cooldown,       \* alert cooldown of a pattern, in units of Tick
  TestCooldown    \* cooldown of the test notification

ASSUME KangalAssumption ==
  /\ CrashPattern \in Patterns
  /\ Severity \in [Patterns -> {"critical", "warning", "info"}]
  /\ Severity[CrashPattern] = "critical"
  /\ Cooldown \in Nat \ {0} /\ TestCooldown \in Nat \ {0}

VARIABLES
  running,     \* Kangal.isRunning
  stopping,    \* where the shutdown is in Kangal.Stop
  detecting,   \* the error detector runs, its context is not cancelled
  notifying,   \* NotificationEngine.isRunning
  level,       \* the sensitivity the patterns' Enabled flags are set to
  call,        \* per caller, the kangal_control call under way
  scan,        \* the goroutine monitorEventLog
  crash,       \* the goroutine monitorProcessCrashes
  age,         \* per pattern, time since its entry in alertTracker, capped
  testAge      \* time since the test notification's entry, capped

monitorVars == <<scan, crash>>
kangalVars == <<running, stopping, detecting, notifying, level, call, monitorVars, age,
                testAge, bus>>

-----------------------------------------------------------------------------
(* Locks and patterns                                                      *)

Levels    == {"low", "balanced", "high"}
CallSteps == {"idle", "status", "enable", "disable", "notification", "test",
              "sensitivity", "pattern"}
ScanIdle  == [pc |-> "idle", left |-> {}]

\* Kangal.mu is free: no sensitivity change has it, nor the shutdown.
MuFree == \A c \in Callers : call[c] # "pattern"

\* A writer of patternMu waits, so RLock does not return.
WriterWaits == \E c \in Callers : call[c] = "pattern"

ReadLocked == scan.pc \in {"match", "lookup", "send"}

Enabled(p) == CASE level = "low"      -> Severity[p] = "critical"
                [] level = "balanced" -> Severity[p] # "info"
                [] OTHER              -> TRUE

\* canAlert: checks the cooldown and records the alert in one lock section.
CanAlert(p) == age[p] >= Cooldown
Marked(p)   == age' = [age EXCEPT ![p] = 0]

\* Start at boot.  initPatterns enables every pattern, whatever sensitivity
\* the configuration asks for.
KangalInit ==
  /\ running = TRUE /\ stopping = "no"
  /\ detecting = TRUE /\ notifying = TRUE /\ level = "high"
  /\ scan = ScanIdle /\ crash = "idle"
  /\ age = [p \in Patterns |-> Cooldown] /\ testAge = TestCooldown
  /\ call = [c \in Callers |-> "idle"]
  /\ bus = 0

\* Start of a Kangal that is not running: new sub-modules.
Restart ==
  /\ running' = TRUE
  /\ detecting' = TRUE /\ notifying' = TRUE /\ level' = "high"
  /\ scan' = ScanIdle /\ crash' = "idle"
  /\ age' = [p \in Patterns |-> Cooldown] /\ testAge' = TestCooldown

KangalTick ==
  /\ age' = [p \in Patterns |-> IF age[p] < Cooldown THEN age[p] + 1 ELSE age[p]]
  /\ testAge' = IF testAge < TestCooldown THEN testAge + 1 ELSE testAge
  /\ UNCHANGED <<running, stopping, detecting, notifying, level, call, monitorVars, bus>>

-----------------------------------------------------------------------------
(* monitorEventLog                                                         *)

\* checkWindowsEventLog: the query's output is matched under RLock, after the
\* detector was stopped too when the query was answered before.
ScanBegin ==
  /\ scan.pc = "idle" /\ ~WriterWaits
  /\ \E found \in SUBSET Patterns :
       scan' = [scan EXCEPT !.pc = "match",
                            !.left = {p \in found : Enabled(p)}]
  /\ UNCHANGED <<running, stopping, detecting, notifying, level, call, crash, age,
                 testAge, bus>>

\* handleDetectedError for one match: within its cooldown it is skipped, an
\* info is only logged, anything else is going to be sent.
ScanMatch ==
  /\ scan.pc = "match"
  /\ \E p \in scan.left :
       IF CanAlert(p)
       THEN /\ Marked(p)
            /\ scan' = IF Severity[p] = "info"
                       THEN [scan EXCEPT !.left = @ \ {p}]
                       ELSE [pc |-> "lookup", left |-> scan.left \ {p}]
       ELSE scan' = [scan EXCEPT !.left = @ \ {p}] /\ UNCHANGED age
  /\ UNCHANGED <<running, stopping, detecting, notifying, level, call, crash, testAge, bus>>

\* getPattern: RLock again, under the RLock of the scan.
ScanLookup ==
  /\ scan.pc = "lookup" /\ ~WriterWaits
  /\ scan' = [scan EXCEPT !.pc = "send"]
  /\ UNCHANGED <<running, stopping, detecting, notifying, level, call, crash, age,
                 testAge, bus>>

ScanSend ==
  /\ scan.pc = "send"
  /\ Offer
  /\ scan' = [scan EXCEPT !.pc = "match"]
  /\ UNCHANGED <<running, stopping, detecting, notifying, level, call, crash, age, testAge>>

\* The end of the loop over the patterns, RUnlock.
ScanEnd ==
  /\ scan.pc = "match" /\ scan.left = {}
  /\ scan' = ScanIdle
  /\ UNCHANGED <<running, stopping, detecting, notifying, level, call, crash, age,
                 testAge, bus>>

\* Mutant: the loop of the monitor does not look at its context.
ScanStopForgotten == scan.pc = "gone" /\ UNCHANGED kangalVars

ScanStop ==
  /\ scan.pc = "idle" /\ ~detecting
  /\ scan' = [scan EXCEPT !.pc = "ended"]
  /\ UNCHANGED <<running, stopping, detecting, notifying, level, call, crash, age,
                 testAge, bus>>

-----------------------------------------------------------------------------
(* monitorProcessCrashes                                                   *)

\* A tracked process is gone.  The select may take its tick although the
\* context is done.
CrashSeen ==
  /\ crash = "idle"
  /\ CanAlert(CrashPattern) /\ Marked(CrashPattern)
  /\ crash' = "lookup"
  /\ UNCHANGED <<running, stopping, detecting, notifying, level, call, scan, testAge, bus>>

CrashLookup ==
  /\ crash = "lookup" /\ ~WriterWaits
  /\ crash' = "send"
  /\ UNCHANGED <<running, stopping, detecting, notifying, level, call, scan, age,
                 testAge, bus>>

CrashSend ==
  /\ crash = "send"
  /\ Offer
  /\ crash' = "idle"
  /\ UNCHANGED <<running, stopping, detecting, notifying, level, call, scan, age, testAge>>

CrashStop ==
  /\ crash = "idle" /\ ~detecting
  /\ crash' = "ended"
  /\ UNCHANGED <<running, stopping, detecting, notifying, level, call, scan, age,
                 testAge, bus>>

-----------------------------------------------------------------------------
(* kangal_control                                                          *)

Invoke(c) ==
  /\ call[c] = "idle" /\ stopping # "done"
  /\ \E a \in {"status", "enable", "disable", "test", "sensitivity"} :
       call' = [call EXCEPT ![c] = a]
  /\ UNCHANGED <<running, stopping, detecting, notifying, level, monitorVars, age,
                 testAge, bus>>

\* status: GetStatus, which reads the sub-modules' state under Kangal.mu.
Status(c) ==
  /\ call[c] = "status" /\ MuFree
  /\ call' = [call EXCEPT ![c] = "idle"]
  /\ UNCHANGED <<running, stopping, detecting, notifying, level, monitorVars, age,
                 testAge, bus>>

\* enable: Start, which refuses when isRunning is set.  The monitors of a
\* stopped detector end by themselves and are not followed any further.
Enable(c) ==
  /\ call[c] = "enable" /\ MuFree
  /\ call' = [call EXCEPT ![c] = "idle"]
  /\ IF running
     THEN UNCHANGED <<running, detecting, notifying, level, monitorVars, age,
                      testAge>>
     ELSE Restart
  /\ UNCHANGED <<stopping, bus>>

\* disable: IsRunning, then stopSubModules without Kangal.mu, the detector
\* first and the notification engine after it.  isRunning stays set.
Disable(c) ==
  /\ call[c] = "disable" /\ MuFree
  /\ IF running
     THEN detecting' = FALSE /\ call' = [call EXCEPT ![c] = "notification"]
     ELSE call' = [call EXCEPT ![c] = "idle"] /\ UNCHANGED detecting
  /\ UNCHANGED <<running, stopping, notifying, level, monitorVars, age, testAge, bus>>

DisableNotification(c) ==
  /\ call[c] = "notification"
  /\ notifying' = FALSE
  /\ call' = [call EXCEPT ![c] = "idle"]
  /\ UNCHANGED <<running, stopping, detecting, level, monitorVars, age, testAge, bus>>

\* test: SendAlert.  An alert kept back by the quiet hours has used up its
\* cooldown all the same.
Test(c) ==
  /\ call[c] = "test"
  /\ IF notifying /\ testAge >= TestCooldown
     THEN testAge' = 0 /\ (Offer \/ UNCHANGED bus)
     ELSE UNCHANGED <<testAge, bus>>
  /\ call' = [call EXCEPT ![c] = "idle"]
  /\ UNCHANGED <<running, stopping, detecting, notifying, level, monitorVars, age>>

\* SetSensitivity up to patternMu.Lock, which it announces.
Sensitivity(c) ==
  /\ call[c] = "sensitivity" /\ MuFree
  /\ call' = [call EXCEPT ![c] = "pattern"]
  /\ UNCHANGED <<running, stopping, detecting, notifying, level, monitorVars, age,
                 testAge, bus>>

\* Mutant: the change returns with the locks held.
SetPatternsKeepingLocks(c) ==
  /\ call[c] = "pattern" /\ ~ReadLocked
  /\ \E l \in Levels : level' = l
  /\ UNCHANGED <<running, stopping, detecting, notifying, call, monitorVars, age,
                 testAge, bus>>

\* ErrorDetector.SetSensitivity under patternMu; both locks are released.
SetPatterns(c) ==
  /\ call[c] = "pattern" /\ ~ReadLocked
  /\ \E l \in Levels : level' = l
  /\ call' = [call EXCEPT ![c] = "idle"]
  /\ UNCHANGED <<running, stopping, detecting, notifying, monitorVars, age, testAge, bus>>

-----------------------------------------------------------------------------
(* Shutdown                                                                *)

RequestStop ==
  /\ stopping = "no"
  /\ stopping' = "asked"
  /\ UNCHANGED <<running, detecting, notifying, level, call, monitorVars, age, testAge, bus>>

\* Stop, under Kangal.mu: the sub-modules are stopped, isRunning is cleared.
Stop ==
  /\ stopping = "asked" /\ MuFree
  /\ stopping' = "done" /\ running' = FALSE
  /\ detecting' = FALSE /\ notifying' = FALSE
  /\ UNCHANGED <<level, call, monitorVars, age, testAge, bus>>

Scanner == ScanBegin \/ ScanMatch \/ ScanLookup \/ ScanSend \/ ScanEnd \/ ScanStop
Watcher == CrashSeen \/ CrashLookup \/ CrashSend \/ CrashStop
Handle(c) == \/ Status(c) \/ Enable(c) \/ Disable(c) \/ DisableNotification(c) \/ Test(c)
             \/ Sensitivity(c) \/ SetPatterns(c)

KangalNext ==
  \/ Scanner \/ Watcher \/ RequestStop \/ Stop \/ KangalTick
  \/ \E c \in Callers : Invoke(c) \/ Handle(c)
  \/ /\ Deliver \/ OthersSend
     /\ UNCHANGED <<running, stopping, detecting, notifying, level, call,
                    monitorVars, age, testAge>>

KangalSpec == KangalInit /\ [][KangalNext]_kangalVars

\* Goroutines that can move do.  A select whose context is done takes that
\* branch in the end, a lock is had by each of those who keep asking for it.
KangalFairness ==
  /\ WF_kangalVars(ScanMatch) /\ WF_kangalVars(ScanLookup)
  /\ WF_kangalVars(ScanSend) /\ WF_kangalVars(ScanEnd)
  /\ SF_kangalVars(CrashLookup) /\ WF_kangalVars(CrashSend)
  /\ SF_kangalVars(ScanStop) /\ SF_kangalVars(CrashStop)
  /\ SF_kangalVars(Stop) /\ \A c \in Callers : SF_kangalVars(Handle(c))

KangalFairSpec == KangalSpec /\ KangalFairness

-----------------------------------------------------------------------------
(* Properties                                                              *)

\* The type invariant.
KangalTypeOK ==
  /\ running \in BOOLEAN /\ stopping \in {"no", "asked", "done"}
  /\ detecting \in BOOLEAN /\ notifying \in BOOLEAN /\ level \in Levels
  /\ call \in [Callers -> CallSteps]
  /\ scan \in [pc : {"idle", "match", "lookup", "send", "ended"},
               left : SUBSET Patterns]
  /\ crash \in {"idle", "lookup", "send", "ended"}
  /\ age \in [Patterns -> 0..Cooldown] /\ testAge \in 0..TestCooldown
  /\ bus \in 0..BusCap

\* A scanner that wants the pattern lock a second time and a sensitivity
\* change that waits for the first one to be given back wait for each other.
Wedged == scan.pc = "lookup" /\ WriterWaits

\* Every kangal_control call returns, unless the scanner and a sensitivity
\* change have wedged: nothing else can hold up a call, neither a full event
\* channel nor the pattern lock itself.
CallsReturn == \A c \in Callers : call[c] # "idle" ~> call[c] = "idle" \/ Wedged

\* Both monitors of a detector that was stopped end, whether the tool or the
\* shutdown stopped it and whatever they were doing, or it is started again,
\* or they have wedged.
MonitorsEnd ==
  ~detecting ~>
    \/ scan.pc = "ended" /\ crash = "ended"
    \/ detecting \/ Wedged

-----------------------------------------------------------------------------
(* What the documentation says and the code does not do                    *)

\* "Tüm servisler güvenli şekilde kapatıldı" (runner.go), all services closed:
\* the shutdown gets through Kangal.Stop.
ShutdownPassesKangal == stopping = "asked" ~> stopping = "done"
=============================================================================
