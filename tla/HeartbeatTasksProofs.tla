------------------------ MODULE HeartbeatTasksProofs ------------------------
(***************************************************************************)
(* Theorems about HeartbeatTasks, for every value of its constants.        *)
(***************************************************************************)
EXTENDS HeartbeatTasks, TLAPS

-----------------------------------------------------------------------------
(* Types                                                                   *)

\* What ageing, a status update and the empty row make of rows.
LEMMA RowOperators ==
  /\ NoRow \in Row
  /\ \A r \in Row : Aged(r) \in Row
  /\ \A r \in Row, s \in Statuses : WithStatus(r, s) \in Row
<1>0. AgeCap \in Nat BY TimeAssumption
<1>1. NoRow \in Row
  BY <1>0 DEF NoRow, Row, Ages, Never, Statuses
<1>2. ASSUME NEW r \in Row PROVE Aged(r) \in Row
  <2>1. \A a \in Ages : Older(a) \in Ages
    BY <1>0 DEF Older, Ages, Never
  <2>2. \A a \in Ages \cup {Never} : Older(a) \in Ages \cup {Never}
    BY <1>0 DEF Older, Ages, Never
  <2>3. CASE r.taskType = "none"
    BY <2>3 DEF Aged
  <2>4. CASE r.taskType # "none"
    <3> DEFINE c == Older(r.createdAge)
               d == Older(r.completedAge)
               l == Older(r.lastRunAge)
    <3>1. c \in Ages /\ d \in Ages \cup {Never} /\ l \in Ages
      BY <2>1, <2>2 DEF Row
    <3>2. Aged(r) = [r EXCEPT !.createdAge = c, !.completedAge = d,
                              !.lastRunAge = l]
      BY <2>4 DEF Aged
    <3> HIDE DEF c, d, l
    <3> QED BY <3>1, <3>2 DEF Row
  <2> QED BY <2>3, <2>4
<1>3. ASSUME NEW r \in Row, NEW s \in Statuses PROVE WithStatus(r, s) \in Row
  <2>1. 0 \in Ages
    BY <1>0 DEF Ages
  <2>2. CASE s = "completed"
    BY <2>1, <2>2 DEF WithStatus, Row
  <2>3. CASE s # "completed"
    BY <2>3 DEF WithStatus, Row
  <2> QED BY <2>2, <2>3
<1> QED BY <1>1, <1>2, <1>3

\* A write of the daemon keeps the table a table.
LEMMA UpdateTyped ==
  ASSUME TypeOK, NEW i \in Ids, NEW r \in Row, Update(i, r)
  PROVE  /\ row' \in [Ids -> Row] /\ nextId' = nextId
         /\ failures' \in 0..MaxFailures
BY BoundsAssumption DEF TypeOK, Update

LEMMA TypeInit == Init => TypeOK
<1> SUFFICES ASSUME Init PROVE TypeOK
  OBVIOUS
<1>1. row \in [Ids -> Row]
  BY RowOperators DEF Init
<1>2. worker \in [Goroutines -> [pc : WorkerPcs, task : Task] \cup {Free}]
  BY DEF Init
<1>3. del \in [Callers -> Ids \cup {NoId}] /\ cur \in Task \cup {NoTask}
  BY DEF Init
<1>4. nextId \in 1..(MaxTasks + 1) /\ minutes \in 0..(CleanupInterval - 1)
      /\ inbox \in 0..NotifyCap /\ crashes \in 0..MaxCrashes
      /\ failures \in 0..MaxFailures
  BY BoundsAssumption DEF Init
<1>5. running \subseteq Ids /\ todo \subseteq Snapshot /\ victims \subseteq Ids
  BY DEF Init
<1> QED BY <1>1, <1>2, <1>3, <1>4, <1>5 DEF Init, TypeOK

LEMMA TypePulse == TypeOK /\ Pulse => TypeOK'
<1> SUFFICES ASSUME TypeOK, Pulse PROVE TypeOK'
  OBVIOUS
<1> USE DEF TypeOK, rowVars, pulseVars, cleanupVars
<1>1. CASE PulseSelect
  <2>1. todo' \subseteq Snapshot
    BY <1>1 DEF PulseSelect, Snapshot, Row, Selected
  <2> QED BY <1>1, <2>1 DEF PulseSelect, PulseIdle
<1>2. CASE PulseSkip
  BY <1>2 DEF PulseSkip
<1>3. CASE PulseFire
  BY <1>3 DEF PulseFire, Snapshot, Task
<1>4. CASE PulseMark
  <2>1. cur.id \in Ids /\ "running" \in Statuses
    BY <1>4 DEF PulseMark, Task, Statuses
  <2>2. WithStatus(row[cur.id], "running") \in Row
    BY <2>1, RowOperators
  <2> QED BY <1>4, <2>1, <2>2, UpdateTyped DEF PulseMark
<1>5. CASE PulseRegister
  BY <1>5 DEF PulseRegister, Task
<1>6. CASE PulseSpawn
  <2>1. cur \in Task /\ cur.id \in Ids
    BY <1>6 DEF PulseSpawn, Task
  <2>2. [row[cur.id] EXCEPT !.lastRunAge = 0] \in Row
    BY <2>1, TimeAssumption DEF Row, Ages
  <2>3. worker' \in [Goroutines -> [pc : WorkerPcs, task : Task] \cup {Free}]
    BY <1>6, <2>1 DEF PulseSpawn, WorkerPcs
  <2> QED BY <1>6, <2>1, <2>2, <2>3, UpdateTyped DEF PulseSpawn
<1> QED BY <1>1, <1>2, <1>3, <1>4, <1>5, <1>6 DEF Pulse

LEMMA TypeWork == \A g \in Goroutines : TypeOK /\ Work(g) => TypeOK'
<1> SUFFICES ASSUME NEW g \in Goroutines, TypeOK, Work(g) PROVE TypeOK'
  OBVIOUS
<1> USE DEF TypeOK, rowVars, pulseVars, cleanupVars
<1>0. ASSUME worker[g].pc # "free"
      PROVE  /\ worker[g] \in [pc : WorkerPcs, task : Task]
             /\ worker[g].task.id \in Ids
  BY <1>0 DEF Free, Task
<1>1. CASE RunnerReturns(g)
  BY <1>0, <1>1 DEF RunnerReturns, WorkerPcs
<1>2. CASE Complete(g)
  <2>1. worker[g].task.id \in Ids /\ "completed" \in Statuses
    BY <1>0, <1>2 DEF Complete, Statuses
  <2>2. WithStatus(row[worker[g].task.id], "completed") \in Row
    BY <2>1, RowOperators
  <2>3. worker' \in [Goroutines -> [pc : WorkerPcs, task : Task] \cup {Free}]
    BY <1>0, <1>2 DEF Complete, WorkerPcs
  <2> QED BY <1>2, <2>1, <2>2, <2>3, UpdateTyped DEF Complete
<1>3. CASE NotifyUser(g)
  BY <1>0, <1>3, BoundsAssumption DEF NotifyUser, WorkerPcs
<1>4. CASE Release(g)
  BY <1>0, <1>4 DEF Release
<1> QED BY <1>1, <1>2, <1>3, <1>4 DEF Work

LEMMA TypeCleanup == TypeOK /\ Cleanup => TypeOK'
<1> SUFFICES ASSUME TypeOK, Cleanup PROVE TypeOK'
  OBVIOUS
<1> USE DEF TypeOK, rowVars, pulseVars, cleanupVars
<1>1. CASE CleanupSelect
  BY <1>1 DEF CleanupSelect
<1>2. CASE CleanupDelete
  <2> PICK i \in victims :
        /\ victims' = victims \ {i}
        /\ Update(i, IF IsAgent(i) THEN NoRow ELSE row[i])
    BY <1>2 DEF CleanupDelete
  <2>1. i \in Ids /\ (IF IsAgent(i) THEN NoRow ELSE row[i]) \in Row
    BY RowOperators
  <2> QED BY <1>2, <2>1, UpdateTyped DEF CleanupDelete
<1> QED BY <1>1, <1>2 DEF Cleanup

LEMMA TypeTools == TypeOK /\ Tools => TypeOK'
<1> SUFFICES ASSUME TypeOK, Tools PROVE TypeOK'
  OBVIOUS
<1> USE DEF TypeOK, rowVars, pulseVars, cleanupVars
<1>1. ASSUME NEW type \in TaskTypes, NEW ttl \in TTLArgs,
             NEW iv \in Intervals, CreateTask(type, ttl, iv)
      PROVE  TypeOK'
  <2>1. StoredTTL(type, ttl) \in Int
    BY <1>1, TimeAssumption DEF StoredTTL
  <2>2. [NoRow EXCEPT !.taskType = type, !.intervalMin = iv,
                      !.ttlMinutes = StoredTTL(type, ttl)] \in Row
    BY <2>1, RowOperators, IdentityAssumption, TimeAssumption DEF Row, Ages
  <2>3. nextId \in Ids /\ nextId' \in 1..(MaxTasks + 1)
    BY <1>1, BoundsAssumption DEF CreateTask, Ids
  <2> QED BY <1>1, <2>2, <2>3 DEF CreateTask
<1>2. ASSUME NEW i \in Ids, NEW status \in ToolStatuses,
             SetTaskStatus(i, status)
      PROVE  TypeOK'
  <2>1. WithStatus(row[i], status) \in Row
    BY RowOperators, IdentityAssumption DEF Statuses
  <2> QED BY <1>2, <2>1 DEF SetTaskStatus
<1>3. ASSUME NEW c \in Callers, NEW i \in Ids, DeleteRead(c, i) PROVE TypeOK'
  BY <1>3 DEF DeleteRead
<1>4. ASSUME NEW c \in Callers, DeleteExec(c) PROVE TypeOK'
  BY <1>4, RowOperators DEF DeleteExec
<1> QED BY <1>1, <1>2, <1>3, <1>4 DEF Tools

LEMMA TypeRest ==
  TypeOK /\ (Tick \/ Crash \/ Restart \/ TakeNotification) => TypeOK'
<1> SUFFICES ASSUME TypeOK, Tick \/ Crash \/ Restart \/ TakeNotification
             PROVE  TypeOK'
  OBVIOUS
<1> USE DEF TypeOK, rowVars, pulseVars, cleanupVars
<1>1. CASE Tick
  <2>1. row' \in [Ids -> Row]
    BY <1>1, RowOperators DEF Tick
  <2>2. minutes' \in 0..(CleanupInterval - 1) /\ cleanupDue' \in BOOLEAN
    BY <1>1, BoundsAssumption DEF Tick
  <2> QED BY <1>1, <2>1, <2>2 DEF Tick
<1>2. CASE Crash
  <2>1. worker' \in [Goroutines -> [pc : WorkerPcs, task : Task] \cup {Free}]
    BY <1>2 DEF Crash
  <2>2. del' \in [Callers -> Ids \cup {NoId}] /\ cur' \in Task \cup {NoTask}
    BY <1>2 DEF Crash
  <2>3. crashes' \in 0..MaxCrashes /\ minutes' \in 0..(CleanupInterval - 1)
        /\ inbox' \in 0..NotifyCap
    BY <1>2, BoundsAssumption DEF Crash
  <2> QED BY <1>2, <2>1, <2>2, <2>3 DEF Crash
<1>3. CASE Restart
  BY <1>3 DEF Restart
<1>4. CASE TakeNotification
  BY <1>4, BoundsAssumption DEF TakeNotification
<1> QED BY <1>1, <1>2, <1>3, <1>4

LEMMA TypeStep == TypeOK /\ [Next]_vars => TypeOK'
<1> SUFFICES ASSUME TypeOK, [Next]_vars PROVE TypeOK'
  OBVIOUS
<1>1. CASE Next
  BY <1>1, TypePulse, TypeWork, TypeCleanup, TypeTools, TypeRest DEF Next
<1>2. CASE UNCHANGED vars
  BY <1>2 DEF TypeOK, vars, rowVars, pulseVars, cleanupVars
<1> QED BY <1>1, <1>2

\* The table, the pulse, the goroutines and the cleanup keep their types.
THEOREM TypeCorrect == Spec => []TypeOK
BY TypeInit, TypeStep, PTL DEF Spec

-----------------------------------------------------------------------------
(* Executions do not overlap                                               *)

\* The inductive invariant: exclusion holds because runningTasks is accurate
\* and because the pulse, the only one to add to it, holds a task that is not
\* in it from its check to its registration.
Claims == ExclusiveExecution /\ RunningTasksAccurate /\ PulseHoldsFreshTask

LEMMA ClaimsInit == Init => Claims
<1> SUFFICES ASSUME Init PROVE Claims
  OBVIOUS
<1>1. Active = {} /\ Executing = {}
  BY DEF Init, Active, Executing, Free
<1> QED BY <1>1 DEF Init, Claims, ExclusiveExecution, RunningTasksAccurate,
                    PulseHoldsFreshTask

\* Whoever leaves goroutines, pulse and runningTasks alone leaves the claims.
LEMMA ClaimsUntouched ==
  Claims /\ UNCHANGED <<running, worker, pulsePc, cur>> => Claims'
BY DEF Claims, ExclusiveExecution, RunningTasksAccurate, PulseHoldsFreshTask,
       Executing, Active

LEMMA ClaimsPulse == TypeOK /\ Claims /\ Pulse => Claims'
<1> SUFFICES ASSUME TypeOK, Claims, Pulse PROVE Claims'
  OBVIOUS
<1> USE DEF Claims, ExclusiveExecution, RunningTasksAccurate,
            PulseHoldsFreshTask
<1>1. CASE PulseSelect
  BY <1>1, ClaimsUntouched DEF PulseSelect
<1>2. CASE PulseSkip
  BY <1>2, ClaimsUntouched DEF PulseSkip
<1>3. CASE PulseFire
  <2>1. Active' = Active /\ Executing' = Executing
    BY <1>3 DEF PulseFire, Active, Executing
  <2> QED BY <1>3, <2>1 DEF PulseFire
<1>4. CASE PulseMark
  <2>1. Active' = Active /\ Executing' = Executing
    BY <1>4 DEF PulseMark, Active, Executing
  <2> QED BY <1>4, <2>1 DEF PulseMark
<1>5. CASE PulseRegister
  <2>1. Active' = Active /\ Executing' = Executing
    BY <1>5 DEF PulseRegister, Active, Executing
  <2> QED BY <1>5, <2>1 DEF PulseRegister
<1>6. CASE PulseSpawn
  <2> PICK g \in Goroutines \ Active :
        worker' = [worker EXCEPT ![g] = [pc |-> "run", task |-> cur]]
    BY <1>6 DEF PulseSpawn
  <2>1. /\ worker'[g] = [pc |-> "run", task |-> cur]
        /\ \A h \in Goroutines \ {g} : worker'[h] = worker[h]
    BY DEF TypeOK
  <2>2. Active' = Active \cup {g}
    BY <2>1 DEF Active
  <2>3. Executing' = Executing \cup {cur.id}
    BY <2>1, <2>2 DEF Executing, Active
  <2>4. ExclusiveExecution'
    BY <1>6, <2>1, <2>2 DEF PulseSpawn, Executing, Active
  <2> QED BY <1>6, <2>3, <2>4 DEF PulseSpawn
<1> QED BY <1>1, <1>2, <1>3, <1>4, <1>5, <1>6 DEF Pulse

\* A goroutine that moves on without ending keeps its task.
LEMMA ClaimsSameTask ==
  ASSUME TypeOK, Claims, NEW g \in Active, NEW pc \in WorkerPcs,
         worker' = [worker EXCEPT ![g].pc = pc],
         UNCHANGED <<running, pulsePc, cur>>
  PROVE  Claims'
<1>1. \A h \in Goroutines : worker'[h].task = worker[h].task
  BY DEF TypeOK, Active
<1>2. Active' = Active
  BY DEF TypeOK, Active, WorkerPcs
<1>3. Executing' = Executing
  BY <1>1, <1>2 DEF Executing, Active
<1> QED BY <1>1, <1>2, <1>3 DEF Claims, ExclusiveExecution,
           RunningTasksAccurate, PulseHoldsFreshTask, Active

LEMMA ClaimsWork ==
  \A g \in Goroutines : TypeOK /\ Claims /\ Work(g) => Claims'
<1> SUFFICES ASSUME NEW g \in Goroutines, TypeOK, Claims, Work(g)
             PROVE  Claims'
  OBVIOUS
<1>1. CASE RunnerReturns(g)
  BY <1>1, ClaimsSameTask DEF RunnerReturns, pulseVars, WorkerPcs, Active
<1>2. CASE Complete(g)
  BY <1>2, ClaimsSameTask DEF Complete, pulseVars, WorkerPcs, Active
<1>3. CASE NotifyUser(g)
  BY <1>3, ClaimsSameTask DEF NotifyUser, pulseVars, WorkerPcs, Active
<1>4. CASE Release(g)
  <2> DEFINE i == worker[g].task.id
  <2>1. g \in Active
    BY <1>4 DEF Release, Active
  <2>2. /\ worker'[g].pc = "free"
        /\ \A h \in Goroutines \ {g} : worker'[h] = worker[h]
    BY <1>4 DEF Release, TypeOK, Free
  <2>3. Active' = Active \ {g}
    BY <2>2 DEF Active
  <2>4. \A h \in Active \ {g} : worker[h].task.id # i
    BY <2>1 DEF Claims, ExclusiveExecution
  <2>5. Executing' = Executing \ {i}
    BY <2>1, <2>2, <2>3, <2>4 DEF Executing, Active
  <2>6. ExclusiveExecution'
    BY <2>2, <2>3 DEF Claims, ExclusiveExecution, Active
  <2>7. i \in Executing
    BY <2>1 DEF Executing
  <2>8. pulsePc = "spawn" => cur.id # i
    BY <2>7 DEF Claims, PulseHoldsFreshTask
  <2>9. running' = running \ {i} /\ UNCHANGED <<pulsePc, cur>>
    BY <1>4 DEF Release, pulseVars
  <2> QED BY <2>5, <2>6, <2>8, <2>9 DEF Claims, RunningTasksAccurate,
             PulseHoldsFreshTask
<1> QED BY <1>1, <1>2, <1>3, <1>4 DEF Work

LEMMA ClaimsStep == TypeOK /\ Claims /\ [Next]_vars => Claims'
<1> SUFFICES ASSUME TypeOK, Claims, [Next]_vars PROVE Claims'
  OBVIOUS
<1> USE DEF pulseVars
<1>1. CASE Pulse
  BY <1>1, ClaimsPulse
<1>2. CASE \E g \in Goroutines : Work(g)
  BY <1>2, ClaimsWork
<1>3. CASE Cleanup
  BY <1>3, ClaimsUntouched DEF Cleanup, CleanupSelect, CleanupDelete
<1>4. CASE Tools
  BY <1>4, ClaimsUntouched DEF Tools, CreateTask, SetTaskStatus, DeleteRead,
     DeleteExec
<1>5. CASE Tick \/ Restart \/ TakeNotification
  BY <1>5, ClaimsUntouched DEF Tick, Restart, TakeNotification
<1>6. CASE Crash
  <2>1. Active' = {} /\ Executing' = {}
    BY <1>6 DEF Crash, Active, Executing, Free
  <2> QED BY <1>6, <2>1 DEF Crash, Claims, ExclusiveExecution,
             RunningTasksAccurate, PulseHoldsFreshTask
<1>7. CASE UNCHANGED vars
  BY <1>7, ClaimsUntouched DEF vars
<1> QED BY <1>1, <1>2, <1>3, <1>4, <1>5, <1>6, <1>7 DEF Next

\* No task is executed by two goroutines at a time.
THEOREM ExecutionExclusive == Spec => []ExclusiveExecution
<1>1. Init => TypeOK /\ Claims
  BY TypeInit, ClaimsInit
<1>2. (TypeOK /\ Claims) /\ [Next]_vars => (TypeOK /\ Claims)'
  BY TypeStep, ClaimsStep
<1>3. TypeOK /\ Claims => ExclusiveExecution
  BY DEF Claims
<1> QED BY <1>1, <1>2, <1>3, PTL DEF Spec

\* runningTasks never locks a task out and never misses an execution.
THEOREM RegistryAccurate == Spec => []RunningTasksAccurate
<1>1. Init => TypeOK /\ Claims
  BY TypeInit, ClaimsInit
<1>2. (TypeOK /\ Claims) /\ [Next]_vars => (TypeOK /\ Claims)'
  BY TypeStep, ClaimsStep
<1>3. TypeOK /\ Claims => RunningTasksAccurate
  BY DEF Claims
<1> QED BY <1>1, <1>2, <1>3, PTL DEF Spec

\* What the pulse read as not running, without a lock, is still not running when
\* it registers it.
THEOREM PulseReadsStayTrue == Spec => []PulseHoldsFreshTask
<1>1. Init => TypeOK /\ Claims
  BY TypeInit, ClaimsInit
<1>2. (TypeOK /\ Claims) /\ [Next]_vars => (TypeOK /\ Claims)'
  BY TypeStep, ClaimsStep
<1>3. TypeOK /\ Claims => PulseHoldsFreshTask
  BY DEF Claims
<1> QED BY <1>1, <1>2, <1>3, PTL DEF Spec

-----------------------------------------------------------------------------
(* Rows leave the table as promised                                        *)

\* What every step but an insertion does to a row: it goes, or it keeps its
\* type and TTL, gets no younger and completes no earlier than its creation.
KeptOrGone(i) ==
  \/ row'[i].taskType = "none"
  \/ /\ row'[i].taskType = row[i].taskType
     /\ row'[i].ttlMinutes = row[i].ttlMinutes
     /\ row'[i].createdAge >= row[i].createdAge
     /\ row'[i].completedAge <= row'[i].createdAge

LEMMA DeletionsInit == Init => DeletionsCurrent
BY DEF Init, DeletionsCurrent, Present, NoRow

\* A step that only ages, updates or removes rows, and that reads none for a
\* later deletion, leaves the pending deletions current.
LEMMA DeletionsKept ==
  ASSUME TypeOK, TypeOK', DeletionsCurrent, nextId' = nextId,
         \A i \in Ids : KeptOrGone(i), victims' \subseteq victims,
         \A c \in Callers : del'[c] \in {del[c], NoId}
  PROVE  DeletionsCurrent'
<1> USE DEF DeletionsCurrent, Present, IsAgent, KeptOrGone
<1>1. \A i \in Ids : /\ row[i].createdAge \in Int /\ row'[i].createdAge \in Int
                     /\ row[i].ttlMinutes \in Int
  BY TimeAssumption DEF TypeOK, Row, Ages
<1>2. victims \subseteq Ids /\ \A c \in Callers : del[c] \in Ids \cup {NoId}
  BY DEF TypeOK
<1>3. ASSUME NEW i \in Ids, Present(i)'
      PROVE  i < nextId' /\ row'[i].completedAge <= row'[i].createdAge
  BY <1>3
<1>4. ASSUME NEW i \in victims'
      PROVE  /\ i < nextId'
             /\ Present(i)' => IsAgent(i)' /\ row'[i].createdAge > row'[i].ttlMinutes
  <2>1. i \in victims /\ i \in Ids
    BY <1>2, <1>4
  <2> QED BY <2>1, <1>1
<1>5. ASSUME NEW c \in Callers, del'[c] # NoId
      PROVE  del'[c] < nextId' /\ ~IsAgent(del[c])'
  <2>1. del'[c] = del[c] /\ del[c] \in Ids
    BY <1>2, <1>5
  <2>2. del[c] < nextId /\ row[del[c]].taskType # "agent"
    BY <1>5, <2>1
  <2>3. row'[del[c]].taskType # "agent"
    BY <2>1, <2>2
  <2> QED BY <2>1, <2>2, <2>3
<1> QED BY <1>3, <1>4, <1>5

\* A status written with UPDATE keeps the row's type, TTL and age.
LEMMA StatusKept ==
  ASSUME TypeOK, DeletionsCurrent, NEW i \in Ids, NEW s \in Statuses,
         Present(i), row'[i] = WithStatus(row[i], s)
  PROVE  KeptOrGone(i)
<1>1. row[i] \in Row /\ row[i].createdAge \in Nat
  BY TimeAssumption DEF TypeOK, Row, Ages
<1>2. row[i].completedAge <= row[i].createdAge
  BY DEF DeletionsCurrent
<1>3. row'[i].completedAge \in {0, row[i].completedAge}
  BY <1>1 DEF WithStatus, Row
<1>4. /\ row'[i].taskType = row[i].taskType
      /\ row'[i].ttlMinutes = row[i].ttlMinutes
      /\ row'[i].createdAge = row[i].createdAge
  BY <1>1 DEF WithStatus, Row
<1> QED BY <1>1, <1>2, <1>3, <1>4 DEF KeptOrGone

\* A minute that passes makes rows older together.
LEMMA AgedKept ==
  ASSUME TypeOK, DeletionsCurrent, NEW i \in Ids, row'[i] = Aged(row[i])
  PROVE  KeptOrGone(i)
<1>1. row[i] \in Row
  BY DEF TypeOK
<1>2. CASE row[i].taskType = "none"
  BY <1>2 DEF KeptOrGone, Aged
<1>3. CASE row[i].taskType # "none"
  <2> DEFINE c == row[i].createdAge
             d == row[i].completedAge
  <2>1. /\ row'[i].taskType = row[i].taskType
        /\ row'[i].ttlMinutes = row[i].ttlMinutes
        /\ row'[i].createdAge = Older(c) /\ row'[i].completedAge = Older(d)
    BY <1>1, <1>3 DEF Aged, Row
  <2>2. d <= c
    BY <1>3 DEF DeletionsCurrent, Present
  <2>3. c \in Ages /\ d \in Ages \cup {Never}
    BY <1>1 DEF Row
  <2>4. Older(c) >= c /\ Older(d) <= Older(c)
    BY <2>2, <2>3, TimeAssumption DEF Older, Ages, Never
  <2> QED BY <2>1, <2>4 DEF KeptOrGone
<1> QED BY <1>2, <1>3

\* A row that a step leaves as it was.
LEMMA SameKept ==
  ASSUME TypeOK, DeletionsCurrent, NEW i \in Ids, row'[i] = row[i]
  PROVE  KeptOrGone(i)
<1>1. row[i].createdAge \in Int
  BY TimeAssumption DEF TypeOK, Row, Ages
<1> QED BY <1>1 DEF KeptOrGone, DeletionsCurrent, Present

\* The writes of pulse and goroutines: a status, or last_run.
LEMMA UpdateKept ==
  ASSUME TypeOK, DeletionsCurrent, NEW i \in Ids,
         \/ \E s \in Statuses : Update(i, WithStatus(row[i], s))
         \/ Update(i, [row[i] EXCEPT !.lastRunAge = 0])
  PROVE  \A j \in Ids : KeptOrGone(j) /\ (Present(j) => Present(j)')
<1>1. ASSUME NEW j \in Ids, row'[j] = row[j]
      PROVE  KeptOrGone(j) /\ (Present(j) => Present(j)')
  BY <1>1, SameKept DEF Present
<1>2. ASSUME NEW r \in Row, Update(i, r), ~(row' = [row EXCEPT ![i] = r] /\ Present(i))
      PROVE  \A j \in Ids : KeptOrGone(j) /\ (Present(j) => Present(j)')
  BY <1>1, <1>2 DEF Update
<1>3. ASSUME NEW s \in Statuses, row' = [row EXCEPT ![i] = WithStatus(row[i], s)],
             Present(i)
      PROVE  \A j \in Ids : KeptOrGone(j) /\ (Present(j) => Present(j)')
  <2>1. row'[i] = WithStatus(row[i], s) /\ \A j \in Ids \ {i} : row'[j] = row[j]
    BY <1>3 DEF TypeOK
  <2>2. KeptOrGone(i)
    BY <1>3, <2>1, StatusKept
  <2>3. Present(i)'
    <3>1. row[i] \in Row
      BY DEF TypeOK
    <3>2. WithStatus(row[i], s).taskType = row[i].taskType
      BY <3>1 DEF WithStatus, Row
    <3> QED BY <1>3, <2>1, <3>2 DEF Present
  <2> QED BY <1>1, <2>1, <2>2, <2>3
<1>4. ASSUME row' = [row EXCEPT ![i] = [row[i] EXCEPT !.lastRunAge = 0]],
             Present(i)
      PROVE  \A j \in Ids : KeptOrGone(j) /\ (Present(j) => Present(j)')
  <2>1. /\ row'[i] = [row[i] EXCEPT !.lastRunAge = 0]
        /\ \A j \in Ids \ {i} : row'[j] = row[j]
    BY <1>4 DEF TypeOK
  <2>2. row[i] \in Row /\ row[i].createdAge \in Int
    BY TimeAssumption DEF TypeOK, Row, Ages
  <2>3. KeptOrGone(i) /\ Present(i)'
    BY <1>4, <2>1, <2>2 DEF KeptOrGone, DeletionsCurrent, Present, Row
  <2> QED BY <1>1, <2>1, <2>3
<1>5. /\ \A s \in Statuses : WithStatus(row[i], s) \in Row
      /\ [row[i] EXCEPT !.lastRunAge = 0] \in Row
  BY RowOperators, TimeAssumption DEF TypeOK, Row, Ages
<1> QED BY <1>2, <1>3, <1>4, <1>5

Kept == DeletionsCurrent' /\ \A i \in Ids : RowLeaves(i)

\* A step that keeps every row there is keeps the promise.
LEMMA KeptWhenRowsStay ==
  ASSUME TypeOK, TypeOK', DeletionsCurrent, nextId' = nextId,
         \A i \in Ids : KeptOrGone(i) /\ (Present(i) => Present(i)'),
         victims' \subseteq victims,
         \A c \in Callers : del'[c] \in {del[c], NoId}
  PROVE  Kept
BY DeletionsKept DEF Kept, RowLeaves

LEMMA KeptWhenTableSame ==
  ASSUME TypeOK, TypeOK', DeletionsCurrent, UNCHANGED <<row, nextId>>,
         victims' \subseteq victims,
         \A c \in Callers : del'[c] \in {del[c], NoId}
  PROVE  Kept
<1>1. \A i \in Ids : KeptOrGone(i) /\ (Present(i) => Present(i)')
  BY SameKept DEF Present
<1> QED BY <1>1, KeptWhenRowsStay

LEMMA KeptPulse == TypeOK /\ TypeOK' /\ DeletionsCurrent /\ Pulse => Kept
<1> SUFFICES ASSUME TypeOK, TypeOK', DeletionsCurrent, Pulse PROVE Kept
  OBVIOUS
<1> USE DEF rowVars, cleanupVars
<1>1. CASE PulseSelect \/ PulseSkip \/ PulseFire \/ PulseRegister
  BY <1>1, KeptWhenTableSame DEF PulseSelect, PulseSkip, PulseFire,
     PulseRegister
<1>2. CASE PulseMark
  <2>1. cur.id \in Ids /\ "running" \in Statuses
    BY <1>2 DEF PulseMark, TypeOK, Task, Statuses
  <2>2. \A j \in Ids : KeptOrGone(j) /\ (Present(j) => Present(j)')
    BY <1>2, <2>1, UpdateKept DEF PulseMark
  <2>3. nextId' = nextId /\ UNCHANGED <<victims, del>>
    BY <1>2 DEF PulseMark, Update
  <2> QED BY <2>2, <2>3, KeptWhenRowsStay
<1>3. CASE PulseSpawn
  <2>1. cur.id \in Ids
    BY <1>3 DEF PulseSpawn, TypeOK, Task
  <2>2. \A j \in Ids : KeptOrGone(j) /\ (Present(j) => Present(j)')
    BY <1>3, <2>1, UpdateKept DEF PulseSpawn
  <2>3. nextId' = nextId /\ UNCHANGED <<victims, del>>
    BY <1>3 DEF PulseSpawn, Update
  <2> QED BY <2>2, <2>3, KeptWhenRowsStay
<1> QED BY <1>1, <1>2, <1>3 DEF Pulse

LEMMA KeptWork ==
  \A g \in Goroutines :
    TypeOK /\ TypeOK' /\ DeletionsCurrent /\ Work(g) => Kept
<1> SUFFICES ASSUME NEW g \in Goroutines, TypeOK, TypeOK', DeletionsCurrent,
                    Work(g)
             PROVE  Kept
  OBVIOUS
<1> USE DEF rowVars, cleanupVars
<1>1. CASE RunnerReturns(g) \/ NotifyUser(g) \/ Release(g)
  BY <1>1, KeptWhenTableSame DEF RunnerReturns, NotifyUser, Release
<1>2. CASE Complete(g)
  <2>1. worker[g].task.id \in Ids /\ "completed" \in Statuses
    BY <1>2 DEF Complete, TypeOK, Task, Free, Statuses
  <2>2. \A j \in Ids : KeptOrGone(j) /\ (Present(j) => Present(j)')
    BY <1>2, <2>1, UpdateKept DEF Complete
  <2>3. nextId' = nextId /\ UNCHANGED <<victims, del>>
    BY <1>2 DEF Complete, Update
  <2> QED BY <2>2, <2>3, KeptWhenRowsStay
<1> QED BY <1>1, <1>2 DEF Work

LEMMA KeptCleanup == TypeOK /\ TypeOK' /\ DeletionsCurrent /\ Cleanup => Kept
<1> SUFFICES ASSUME TypeOK, TypeOK', DeletionsCurrent, Cleanup PROVE Kept
  OBVIOUS
<1> USE DEF rowVars
<1>1. CASE CleanupSelect
  <2>1. UNCHANGED <<row, nextId, del>>
    BY <1>1 DEF CleanupSelect
  <2>2. victims' \subseteq {i \in Ids : Expired(i)}
    BY <1>1 DEF CleanupSelect
  <2>3. ASSUME NEW i \in Ids, Expired(i)
        PROVE  i < nextId /\ IsAgent(i) /\ row[i].createdAge > row[i].ttlMinutes
    <3>1. IsAgent(i) /\ Present(i)
      BY <2>3 DEF Expired, IsAgent, Present
    <3>2. /\ row[i].createdAge \in Int /\ row[i].ttlMinutes \in Int
          /\ row[i].completedAge \in Int
      BY TimeAssumption DEF TypeOK, Row, Ages, Never
    <3> QED BY <2>3, <3>1, <3>2 DEF Expired, DeletionsCurrent
  <2> QED BY <2>1, <2>2, <2>3
          DEF Kept, RowLeaves, DeletionsCurrent, Present, IsAgent
<1>2. CASE CleanupDelete
  <2> PICK i \in victims :
        /\ victims' = victims \ {i}
        /\ Update(i, IF IsAgent(i) THEN NoRow ELSE row[i])
    BY <1>2 DEF CleanupDelete
  <2>1. i \in Ids /\ nextId' = nextId /\ del' = del
    BY <1>2 DEF CleanupDelete, Update, TypeOK
  <2>2. \A j \in Ids : row'[j] = row[j] \/ (j = i /\ row'[j] = NoRow)
    BY <2>1 DEF Update, TypeOK
  <2>3. \A j \in Ids : KeptOrGone(j)
    BY <2>2, SameKept DEF KeptOrGone, NoRow
  <2>4. DeletionsCurrent'
    BY <2>1, <2>3, DeletionsKept
  <2>5. \A j \in Ids : RowLeaves(j)
    BY <2>2 DEF RowLeaves, Present, DeletionsCurrent
  <2> QED BY <2>4, <2>5 DEF Kept
<1> QED BY <1>1, <1>2 DEF Cleanup

LEMMA KeptTools == TypeOK /\ TypeOK' /\ DeletionsCurrent /\ Tools => Kept
<1> SUFFICES ASSUME TypeOK, TypeOK', DeletionsCurrent, Tools PROVE Kept
  OBVIOUS
<1> USE DEF rowVars, cleanupVars
<1>1. ASSUME NEW type \in TaskTypes, NEW ttl \in TTLArgs,
             NEW iv \in Intervals, CreateTask(type, ttl, iv)
      PROVE  Kept
  <2>1. /\ nextId \in Ids /\ nextId' = nextId + 1 /\ UNCHANGED <<victims, del>>
        /\ \A j \in Ids \ {nextId} : row'[j] = row[j]
    BY <1>1, BoundsAssumption DEF CreateTask, TypeOK, Ids
  <2>2. ~Present(nextId)
    BY <2>1, BoundsAssumption DEF DeletionsCurrent, Ids
  <2>3. /\ row'[nextId].completedAge = Never /\ row'[nextId].createdAge = 0
    BY <1>1, <2>1 DEF CreateTask, NoRow, TypeOK
  <2>4. victims \subseteq Ids /\ \A c \in Callers : del[c] \in Ids \cup {NoId}
    BY DEF TypeOK
  <2>5. nextId \notin victims /\ \A c \in Callers : del[c] # nextId
    BY <2>1, <2>4, BoundsAssumption DEF DeletionsCurrent, Ids, NoId
  <2>6. \A i \in Ids : Present(i)' =>
          i < nextId' /\ row'[i].completedAge <= row'[i].createdAge
    BY <2>1, <2>3, BoundsAssumption DEF DeletionsCurrent, Present, Ids, Never
  <2>7. \A i \in victims' : /\ i < nextId'
                            /\ Present(i)' =>
                                 /\ IsAgent(i)'
                                 /\ row'[i].createdAge > row'[i].ttlMinutes
    BY <2>1, <2>4, <2>5, BoundsAssumption
    DEF DeletionsCurrent, Present, IsAgent, Ids
  <2>8. \A c \in Callers :
          del'[c] # NoId => del'[c] < nextId' /\ ~IsAgent(del[c])'
    BY <2>1, <2>4, <2>5, BoundsAssumption DEF DeletionsCurrent, IsAgent, Ids
  <2>9. \A i \in Ids : RowLeaves(i)
    BY <2>1, <2>2 DEF RowLeaves, Present
  <2> QED BY <2>1, <2>6, <2>7, <2>8, <2>9 DEF Kept, DeletionsCurrent, IsAgent
<1>2. ASSUME NEW i \in Ids, NEW status \in ToolStatuses,
             SetTaskStatus(i, status)
      PROVE  Kept
  <2>1. status \in Statuses
    BY IdentityAssumption DEF Statuses
  <2>2. /\ row'[i] = WithStatus(row[i], status)
        /\ \A j \in Ids \ {i} : row'[j] = row[j]
    BY <1>2 DEF SetTaskStatus, TypeOK
  <2>3. KeptOrGone(i)
    BY <1>2, <2>1, <2>2, StatusKept DEF SetTaskStatus
  <2>4. Present(i)'
    BY <1>2, <2>2 DEF SetTaskStatus, Present, WithStatus, TypeOK, Row
  <2>5. \A j \in Ids : KeptOrGone(j) /\ (Present(j) => Present(j)')
    BY <2>2, <2>3, <2>4, SameKept DEF Present
  <2>6. nextId' = nextId /\ UNCHANGED <<victims, del>>
    BY <1>2 DEF SetTaskStatus
  <2> QED BY <2>5, <2>6, KeptWhenRowsStay
<1>3. ASSUME NEW c \in Callers, NEW i \in Ids, DeleteRead(c, i) PROVE Kept
  <2>1. /\ UNCHANGED <<row, nextId, victims>> /\ del' = [del EXCEPT ![c] = i]
        /\ Present(i) /\ ~IsAgent(i)
    BY <1>3 DEF DeleteRead
  <2>2. \A d \in Callers : del'[d] \in {del[d], i}
    BY <2>1 DEF TypeOK
  <2>3. i < nextId
    BY <2>1 DEF DeletionsCurrent
  <2> QED BY <2>1, <2>2, <2>3
          DEF Kept, RowLeaves, DeletionsCurrent, Present, IsAgent
<1>4. ASSUME NEW c \in Callers, DeleteExec(c) PROVE Kept
  <2>1. /\ del[c] \in Ids /\ UNCHANGED <<nextId, victims>>
        /\ del'[c] = NoId /\ \A d \in Callers \ {c} : del'[d] = del[d]
        /\ row'[del[c]] = NoRow
        /\ \A j \in Ids \ {del[c]} : row'[j] = row[j]
    BY <1>4 DEF DeleteExec, TypeOK
  <2>2. \A j \in Ids : KeptOrGone(j)
    BY <2>1, SameKept DEF KeptOrGone, NoRow
  <2>3. DeletionsCurrent'
    BY <2>1, <2>2, DeletionsKept
  <2>4. ~IsAgent(del[c])
    BY <2>1, BoundsAssumption DEF DeletionsCurrent, Ids, NoId
  <2>5. \A j \in Ids : RowLeaves(j)
    BY <2>1, <2>4 DEF RowLeaves, Present
  <2> QED BY <2>3, <2>5 DEF Kept
<1> QED BY <1>1, <1>2, <1>3, <1>4 DEF Tools

LEMMA KeptStep ==
  TypeOK /\ TypeOK' /\ DeletionsCurrent /\ [Next]_vars => Kept
<1> SUFFICES ASSUME TypeOK, TypeOK', DeletionsCurrent, [Next]_vars PROVE Kept
  OBVIOUS
<1> USE DEF rowVars, cleanupVars
<1>1. CASE Tick
  <2>1. \A i \in Ids : row'[i] = Aged(row[i])
    BY <1>1 DEF Tick
  <2>2. \A i \in Ids : Present(i) => Present(i)'
    BY <2>1 DEF Present, Aged, TypeOK, Row
  <2>3. \A i \in Ids : KeptOrGone(i)
    BY <2>1, AgedKept
  <2>4. UNCHANGED <<nextId, victims, del>>
    BY <1>1 DEF Tick
  <2> QED BY <2>2, <2>3, <2>4, KeptWhenRowsStay
<1>2. CASE Crash
  BY <1>2, KeptWhenTableSame DEF Crash
<1>3. CASE Restart \/ TakeNotification
  BY <1>3, KeptWhenTableSame DEF Restart, TakeNotification
<1>4. CASE UNCHANGED vars
  BY <1>4, KeptWhenTableSame DEF vars
<1> QED BY <1>1, <1>2, <1>3, <1>4, KeptPulse, KeptWork, KeptCleanup, KeptTools
        DEF Next

\* A user task leaves the table only by the call that read it, an agent task
\* only by the cleanup and after its TTL.
THEOREM RowsKeptPromise == Spec => RowsLeaveAsPromised
<1>1. Init => TypeOK /\ DeletionsCurrent
  BY TypeInit, DeletionsInit
<1>2. (TypeOK /\ DeletionsCurrent) /\ [Next]_vars =>
        (TypeOK /\ DeletionsCurrent)'
  BY TypeStep, KeptStep DEF Kept
<1>3. (TypeOK /\ DeletionsCurrent) /\ [Next]_vars =>
        [\A i \in Ids : RowLeaves(i)]_vars
  BY TypeStep, KeptStep DEF Kept
<1> QED BY <1>1, <1>2, <1>3, PTL DEF Spec, RowsLeaveAsPromised

\* A pending deletion, of a delete_task call or of the cleanup, still applies to
\* the row it was decided on.
THEOREM PendingDeletionsApply == Spec => []DeletionsCurrent
<1>1. Init => TypeOK /\ DeletionsCurrent
  BY TypeInit, DeletionsInit
<1>2. (TypeOK /\ DeletionsCurrent) /\ [Next]_vars => (TypeOK /\ DeletionsCurrent)'
  BY TypeStep, KeptStep DEF Kept
<1> QED BY <1>1, <1>2, PTL DEF Spec

-----------------------------------------------------------------------------
(* The heartbeat implements the task board, for every value of the         *)
(* constants: its initial state is one of the board's, and each of its     *)
(* steps is a step of the board or leaves the board as it is.              *)


\* What an id stands for on the board.
Kind(i) == IF i >= nextId THEN "unused"
           ELSE IF Present(i) THEN row[i].taskType ELSE "gone"

BoardOf == [i \in Ids |-> Kind(i)]

\* The pulse only picks ids that have been given to a task.
PickedIdsUsed ==
  /\ \A t \in todo : t.id < nextId
  /\ pulsePc # "loop" => cur.id < nextId

BoardInv == TypeOK /\ Claims /\ DeletionsCurrent /\ PickedIdsUsed

\* A step of the board, in terms of the heartbeat's own state.
BoardStep ==
  \/ \E i \in Ids :
       \/ /\ Kind(i) = "unused" /\ UNCHANGED Executing
          /\ \E k \in {"user", "agent"} : BoardOf' = [BoardOf EXCEPT ![i] = k]
       \/ /\ Kind(i) \in {"user", "agent"} /\ UNCHANGED Executing
          /\ BoardOf' = [BoardOf EXCEPT ![i] = "gone"]
       \/ /\ Kind(i) # "unused" /\ i \notin Executing
          /\ Executing' = Executing \cup {i} /\ UNCHANGED BoardOf
       \/ /\ i \in Executing /\ Executing' = Executing \ {i}
          /\ UNCHANGED BoardOf
  \/ Executing' = {} /\ UNCHANGED BoardOf
  \/ UNCHANGED <<BoardOf, Executing>>

LEMMA BoardStepImplements == BoardStep => [Board!Next]_(Board!vars)
<1>1. \A i \in Ids : BoardOf[i] = Kind(i)
  BY DEF BoardOf
<1> QED BY <1>1
        DEF BoardStep, BoardOf, Kind, Board!Next, Board!vars, Board!Post,
            Board!Remove, Board!Begin, Board!End, Board!Outage, Board!Kinds

-----------------------------------------------------------------------------
(* What the steps do to the board                                          *)

\* A step that creates and removes no row leaves what the ids stand for.
LEMMA BoardSame ==
  ASSUME nextId' = nextId,
         \A i \in Ids : row'[i].taskType = row[i].taskType
  PROVE  UNCHANGED BoardOf
BY DEF BoardOf, Kind, Present

\* The daemon's own UPDATEs keep every row's type.
LEMMA UpdateKeepsTypes ==
  ASSUME TypeOK, NEW i \in Ids, NEW r \in Row, Update(i, r),
         r.taskType = row[i].taskType
  PROVE  nextId' = nextId /\ \A j \in Ids : row'[j].taskType = row[j].taskType
BY DEF TypeOK, Update

LEMMA RowUpdatesTyped ==
  ASSUME TypeOK, NEW i \in Ids
  PROVE  /\ \A s \in Statuses : /\ WithStatus(row[i], s) \in Row
                                /\ WithStatus(row[i], s).taskType = row[i].taskType
         /\ LET r == [row[i] EXCEPT !.lastRunAge = 0]
            IN  r \in Row /\ r.taskType = row[i].taskType
         /\ Aged(row[i]).taskType = row[i].taskType
<1>1. row[i] \in Row
  BY DEF TypeOK
<1>2. 0 \in Ages
  BY TimeAssumption DEF Ages
<1>3. \A s \in Statuses : WithStatus(row[i], s).taskType = row[i].taskType
  BY <1>1 DEF WithStatus, Row
<1>4. LET r == [row[i] EXCEPT !.lastRunAge = 0]
      IN  r \in Row /\ r.taskType = row[i].taskType
  BY <1>1, <1>2 DEF Row
<1>5. Aged(row[i]).taskType = row[i].taskType
  BY <1>1 DEF Aged, Row
<1> QED BY <1>1, <1>3, <1>4, <1>5, RowOperators

\* Removing the row of i.
LEMMA RowRemoved ==
  ASSUME TypeOK, DeletionsCurrent, NEW i \in Ids, nextId' = nextId,
         row' = [row EXCEPT ![i] = NoRow]
  PROVE  \/ UNCHANGED BoardOf
         \/ Kind(i) \in {"user", "agent"} /\ BoardOf' = [BoardOf EXCEPT ![i] = "gone"]
<1>1. /\ row[i] \in Row /\ row'[i].taskType = "none"
      /\ \A j \in Ids \ {i} : row'[j] = row[j]
  BY DEF TypeOK, NoRow
<1>2. CASE ~Present(i)
  BY <1>1, <1>2, BoardSame DEF Present
<1>3. CASE Present(i)
  <2>1. i < nextId
    BY <1>3 DEF DeletionsCurrent
  <2>2. nextId \in Int /\ i \in Int
    BY BoundsAssumption DEF TypeOK, Ids
  <2>3. Kind(i) \in {"user", "agent"}
    BY <1>1, <1>3, <2>1, <2>2 DEF Kind, Present, Row
  <2>4. Kind(i)' = "gone" /\ \A j \in Ids \ {i} : Kind(j)' = Kind(j)
    BY <1>1, <2>1, <2>2 DEF Kind, Present
  <2> QED BY <2>3, <2>4 DEF BoardOf
<1> QED BY <1>2, <1>3

LEMMA PickedKept == BoardInv /\ [Next]_vars => PickedIdsUsed'
<1> SUFFICES ASSUME BoardInv, [Next]_vars PROVE PickedIdsUsed'
  OBVIOUS
<1>a. TypeOK /\ DeletionsCurrent /\ PickedIdsUsed
  BY DEF BoardInv
<1>b. nextId \in Int /\ Ids \subseteq Int
  BY <1>a, BoundsAssumption DEF TypeOK, Ids
<1>c. nextId' \in Int
  <2>1. TypeOK'
    BY <1>a, TypeStep
  <2> QED BY <2>1, BoundsAssumption DEF TypeOK
<1>d. /\ \A t \in todo : t.id \in Ids
      /\ pulsePc # "loop" => cur.id \in Ids
  BY <1>a DEF TypeOK, Snapshot, Task
<1>0. /\ TypeOK /\ DeletionsCurrent /\ PickedIdsUsed
      /\ nextId \in Int /\ Ids \subseteq Int /\ nextId' \in Int
      /\ \A t \in todo : t.id \in Ids
      /\ pulsePc # "loop" => cur.id \in Ids
  BY <1>a, <1>b, <1>c, <1>d
<1> USE DEF rowVars, pulseVars, cleanupVars
<1>1. ASSUME nextId' >= nextId, UNCHANGED <<todo, pulsePc, cur>>
      PROVE  PickedIdsUsed'
  <2>1. \A i \in Ids : i < nextId => i < nextId'
    BY <1>0, <1>1
  <2> QED BY <1>0, <1>1, <2>1 DEF PickedIdsUsed
<1>2. CASE Pulse
  <2>1. CASE PulseSelect
    <3>1. \A t \in todo' : t.id < nextId'
      BY <1>0, <2>1 DEF PulseSelect, Selected, DeletionsCurrent
    <3> QED BY <2>1, <3>1 DEF PulseSelect, PulseIdle, PickedIdsUsed
  <2>2. CASE PulseSkip
    BY <1>0, <2>2 DEF PulseSkip, PickedIdsUsed
  <2>3. CASE PulseFire
    BY <1>0, <2>3 DEF PulseFire, PickedIdsUsed
  <2>4. CASE PulseMark \/ PulseRegister \/ PulseSpawn
    BY <1>0, <2>4 DEF PulseMark, PulseRegister, PulseSpawn, Update, PickedIdsUsed
  <2> QED BY <1>2, <2>1, <2>2, <2>3, <2>4 DEF Pulse
<1>3. CASE \E g \in Goroutines : Work(g)
  <2>1. nextId' = nextId /\ UNCHANGED <<todo, pulsePc, cur>>
    BY <1>3 DEF Work, RunnerReturns, Complete, NotifyUser, Release, Update
  <2> QED BY <1>0, <1>1, <2>1
<1>4. CASE Cleanup
  <2>1. nextId' = nextId /\ UNCHANGED <<todo, pulsePc, cur>>
    BY <1>4 DEF Cleanup, CleanupSelect, CleanupDelete, Update
  <2> QED BY <1>0, <1>1, <2>1
<1>5. CASE Tools
  <2>1. nextId' \in {nextId, nextId + 1} /\ UNCHANGED <<todo, pulsePc, cur>>
    BY <1>5 DEF Tools, CreateTask, SetTaskStatus, DeleteRead, DeleteExec
  <2> QED BY <1>0, <1>1, <2>1
<1>6. CASE Tick \/ Restart \/ TakeNotification \/ UNCHANGED vars
  BY <1>0, <1>1, <1>6 DEF Tick, Restart, TakeNotification, vars
<1>7. CASE Crash
  BY <1>7 DEF Crash, PickedIdsUsed
<1> QED BY <1>2, <1>3, <1>4, <1>5, <1>6, <1>7 DEF Next

\* Goroutines that stay with their tasks execute the same tasks.
LEMMA ExecutingSame ==
  ASSUME TypeOK, NEW g \in Goroutines, NEW pc \in WorkerPcs,
         worker[g].pc # "free", worker' = [worker EXCEPT ![g].pc = pc]
  PROVE  UNCHANGED Executing
<1>1. worker[g] \in [pc : WorkerPcs, task : Task]
  BY DEF TypeOK, Free
<1>2. /\ worker'[g].pc = pc /\ worker'[g].task = worker[g].task
      /\ \A h \in Goroutines \ {g} : worker'[h] = worker[h]
  BY <1>1 DEF TypeOK
<1>3. Active' = Active
  BY <1>2 DEF Active, WorkerPcs
<1> QED BY <1>2, <1>3 DEF Executing, Active

LEMMA PulseOnBoard == BoardInv /\ Pulse => BoardStep
<1> SUFFICES ASSUME BoardInv, Pulse PROVE BoardStep
  OBVIOUS
<1>0. TypeOK /\ Claims /\ PickedIdsUsed /\ (pulsePc # "loop" => cur \in Task)
  BY DEF BoardInv, TypeOK
<1> USE DEF rowVars, pulseVars, cleanupVars
<1>1. CASE PulseSelect \/ PulseSkip \/ PulseFire \/ PulseRegister
  <2>1. UNCHANGED <<row, nextId, worker>>
    BY <1>1 DEF PulseSelect, PulseSkip, PulseFire, PulseRegister
  <2> QED BY <2>1, BoardSame DEF BoardStep, Executing, Active
<1>2. CASE PulseMark
  <2>1. cur.id \in Ids /\ "running" \in Statuses
    BY <1>0, <1>2 DEF PulseMark, Task, Statuses
  <2>2. UNCHANGED BoardOf
    BY <1>0, <1>2, <2>1, RowUpdatesTyped, UpdateKeepsTypes, BoardSame
    DEF PulseMark
  <2>3. UNCHANGED Executing
    BY <1>2 DEF PulseMark, Executing, Active
  <2> QED BY <2>2, <2>3 DEF BoardStep
<1>3. CASE PulseSpawn
  <2>1. cur.id \in Ids /\ cur.id < nextId /\ cur.id \notin Executing
    BY <1>0, <1>3 DEF PulseSpawn, Task, PickedIdsUsed, Claims, PulseHoldsFreshTask
  <2>2. UNCHANGED BoardOf
    BY <1>0, <1>3, <2>1, RowUpdatesTyped, UpdateKeepsTypes, BoardSame
    DEF PulseSpawn
  <2>3. Executing' = Executing \cup {cur.id}
    <3>1. PICK g \in Goroutines \ Active :
            worker' = [worker EXCEPT ![g] = [pc |-> "run", task |-> cur]]
      BY <1>3 DEF PulseSpawn
    <3>2. /\ worker'[g].pc = "run" /\ worker'[g].task = cur
          /\ \A h \in Goroutines \ {g} : worker'[h] = worker[h]
      BY <1>0, <3>1 DEF TypeOK
    <3>3. Active' = Active \cup {g}
      BY <3>2 DEF Active
    <3>4. \A h \in Active : worker'[h] = worker[h]
      BY <3>1, <3>2 DEF Active
    <3> QED BY <3>2, <3>3, <3>4 DEF Executing
  <2>4. Kind(cur.id) # "unused"
    <3>1. nextId \in Int /\ cur.id \in Int
      BY <1>0, <2>1, BoundsAssumption DEF TypeOK, Ids
    <3>2. row[cur.id].taskType \in {"none", "user", "agent"}
      BY <1>0, <2>1 DEF TypeOK, Row
    <3> QED BY <2>1, <3>1, <3>2 DEF Kind
  <2> QED BY <2>1, <2>2, <2>3, <2>4 DEF BoardStep
<1> QED BY <1>1, <1>2, <1>3 DEF Pulse

LEMMA WorkOnBoard == \A g \in Goroutines : BoardInv /\ Work(g) => BoardStep
<1> SUFFICES ASSUME NEW g \in Goroutines, BoardInv, Work(g) PROVE BoardStep
  OBVIOUS
<1>0. TypeOK /\ ExclusiveExecution
  BY DEF BoardInv, Claims
<1> USE DEF rowVars, pulseVars, cleanupVars
<1>1. CASE RunnerReturns(g) \/ NotifyUser(g)
  <2>1. UNCHANGED Executing
    BY <1>0, <1>1, ExecutingSame DEF RunnerReturns, NotifyUser, WorkerPcs
  <2>2. UNCHANGED <<row, nextId>>
    BY <1>1 DEF RunnerReturns, NotifyUser
  <2> QED BY <2>1, <2>2, BoardSame DEF BoardStep
<1>2. CASE Complete(g)
  <2>1. UNCHANGED Executing
    BY <1>0, <1>2, ExecutingSame DEF Complete, WorkerPcs
  <2>2. worker[g].task.id \in Ids /\ "completed" \in Statuses
    BY <1>0, <1>2 DEF Complete, TypeOK, Free, Task, Statuses
  <2>3. UNCHANGED BoardOf
    BY <1>0, <1>2, <2>2, RowUpdatesTyped, UpdateKeepsTypes, BoardSame
    DEF Complete
  <2> QED BY <2>1, <2>3 DEF BoardStep
<1>3. CASE Release(g)
  <2> DEFINE i == worker[g].task.id
  <2>1. g \in Active /\ i \in Ids
    BY <1>0, <1>3 DEF Release, TypeOK, Free, Task, Active
  <2>2. worker'[g] = Free /\ \A h \in Goroutines \ {g} : worker'[h] = worker[h]
    BY <1>0, <1>3 DEF Release, TypeOK
  <2>3. Active' = Active \ {g}
    BY <2>2 DEF Active, Free
  <2>4. \A h \in Active \ {g} : worker'[h] = worker[h] /\ worker[h].task.id # i
    BY <1>0, <2>1, <2>2 DEF ExclusiveExecution, Active
  <2>5. i \in Executing /\ Executing' = Executing \ {i}
    BY <2>1, <2>3, <2>4 DEF Executing
  <2>6. UNCHANGED <<row, nextId>>
    BY <1>3 DEF Release
  <2> QED BY <2>1, <2>5, <2>6, BoardSame DEF BoardStep
<1> QED BY <1>1, <1>2, <1>3 DEF Work

LEMMA CleanupOnBoard == BoardInv /\ Cleanup => BoardStep
<1> SUFFICES ASSUME BoardInv, Cleanup PROVE BoardStep
  OBVIOUS
<1>0. TypeOK /\ DeletionsCurrent
  BY DEF BoardInv
<1>1. UNCHANGED Executing
  BY DEF Cleanup, CleanupSelect, CleanupDelete, Executing, Active
<1>2. CASE CleanupSelect
  BY <1>1, <1>2, BoardSame DEF CleanupSelect, rowVars, BoardStep
<1>3. CASE CleanupDelete
  <2>1. PICK i \in victims : Update(i, IF IsAgent(i) THEN NoRow ELSE row[i])
    BY <1>3 DEF CleanupDelete
  <2>2. i \in Ids /\ nextId' = nextId
    BY <1>0, <2>1 DEF TypeOK, Update
  <2>3. CASE UNCHANGED row
    BY <1>1, <2>2, <2>3, BoardSame DEF BoardStep
  <2>4. CASE row' = [row EXCEPT ![i] = NoRow]
    BY <1>0, <1>1, <2>2, <2>4, RowRemoved DEF BoardStep
  <2>5. CASE row' = [row EXCEPT ![i] = row[i]]
    <3>1. UNCHANGED row
      BY <1>0, <2>5 DEF TypeOK
    <3> QED BY <2>3, <3>1
  <2> QED BY <2>1, <2>3, <2>4, <2>5 DEF Update
<1> QED BY <1>2, <1>3 DEF Cleanup

LEMMA ToolsOnBoard == BoardInv /\ Tools => BoardStep
<1> SUFFICES ASSUME BoardInv, Tools PROVE BoardStep
  OBVIOUS
<1>0. TypeOK /\ DeletionsCurrent
  BY DEF BoardInv
<1>1. UNCHANGED Executing
  BY DEF Tools, CreateTask, SetTaskStatus, DeleteRead, DeleteExec, Executing,
     Active
<1>2. ASSUME NEW type \in TaskTypes, NEW ttl \in TTLArgs,
             NEW iv \in Intervals, CreateTask(type, ttl, iv)
      PROVE  BoardStep
  <2>1. /\ nextId \in Ids /\ nextId' = nextId + 1
        /\ type \in {"user", "agent"} /\ Ids \subseteq Int
    BY <1>0, <1>2, BoundsAssumption, IdentityAssumption
    DEF CreateTask, TypeOK, Ids
  <2>2. PICK i \in Ids : i = nextId
    BY <2>1
  <2>3. row'[i].taskType = type /\ \A j \in Ids \ {i} : row'[j] = row[j]
    BY <1>0, <1>2, <2>1, <2>2 DEF CreateTask, TypeOK, NoRow
  <2>4. Kind(i) = "unused"
    BY <2>1, <2>2 DEF Kind
  <2>5. Kind(i)' = type
    BY <2>1, <2>2, <2>3 DEF Kind, Present
  <2>6. \A j \in Ids \ {i} : Kind(j)' = Kind(j)
    BY <2>1, <2>2, <2>3 DEF Kind, Present
  <2>7. BoardOf' = [BoardOf EXCEPT ![i] = type]
    BY <2>5, <2>6 DEF BoardOf
  <2> QED BY <1>1, <2>1, <2>4, <2>7 DEF BoardStep
<1>3. ASSUME NEW i \in Ids, NEW s \in ToolStatuses, SetTaskStatus(i, s)
      PROVE  BoardStep
  <2>1. s \in Statuses
    BY IdentityAssumption DEF Statuses
  <2>2. /\ row' = [row EXCEPT ![i] = WithStatus(row[i], s)]
        /\ nextId' = nextId
    BY <1>3 DEF SetTaskStatus
  <2>3. \A j \in Ids : row'[j].taskType = row[j].taskType
    BY <1>0, <2>1, <2>2, RowUpdatesTyped DEF TypeOK
  <2> QED BY <1>1, <2>2, <2>3, BoardSame DEF BoardStep
<1>4. ASSUME NEW c \in Callers, NEW i \in Ids, DeleteRead(c, i)
      PROVE  BoardStep
  BY <1>1, <1>4, BoardSame DEF DeleteRead, rowVars, BoardStep
<1>5. ASSUME NEW c \in Callers, DeleteExec(c)
      PROVE  BoardStep
  <2>1. del[c] \in Ids /\ nextId' = nextId
        /\ row' = [row EXCEPT ![del[c]] = NoRow]
    BY <1>0, <1>5 DEF DeleteExec, TypeOK
  <2> QED BY <1>0, <1>1, <2>1, RowRemoved DEF BoardStep
<1> QED BY <1>2, <1>3, <1>4, <1>5 DEF Tools

LEMMA RestOnBoard ==
  BoardInv /\ (Tick \/ Crash \/ Restart \/ TakeNotification \/ UNCHANGED vars)
    => BoardStep
<1> SUFFICES ASSUME BoardInv,
                    Tick \/ Crash \/ Restart \/ TakeNotification \/ UNCHANGED vars
             PROVE  BoardStep
  OBVIOUS
<1>1. CASE Tick
  <2>1. nextId' = nextId /\ UNCHANGED worker
    BY <1>1 DEF Tick
  <2>2. \A i \in Ids : row'[i].taskType = row[i].taskType
    BY <1>1, RowUpdatesTyped DEF Tick, BoardInv
  <2> QED BY <2>1, <2>2, BoardSame DEF BoardStep, Executing, Active
<1>2. CASE Crash
  <2>1. UNCHANGED <<row, nextId>> /\ worker' = [g \in Goroutines |-> Free]
    BY <1>2 DEF Crash, rowVars
  <2>2. Executing' = {}
    BY <2>1 DEF Executing, Active, Free
  <2> QED BY <2>1, <2>2, BoardSame DEF BoardStep
<1>3. CASE Restart \/ TakeNotification \/ UNCHANGED vars
  <2>1. UNCHANGED <<row, nextId, worker>>
    BY <1>3 DEF Restart, TakeNotification, vars, rowVars
  <2> QED BY <2>1, BoardSame DEF BoardStep, Executing, Active
<1> QED BY <1>1, <1>2, <1>3

\* The safety part of TaskBoardImplemented: ids are not reused, a removed task
\* stays removed, executions of a task do not overlap, and only the end of the
\* process cuts executions short.  That an execution ends is left to the model
\* checker.
THEOREM BoardSafelyImplemented ==
  Spec => Board!Init /\ [][Board!Next]_(Board!vars)
<1>1. Init => BoardInv
  BY TypeInit, ClaimsInit, DeletionsInit DEF Init, BoardInv, PickedIdsUsed
<1>2. BoardInv /\ [Next]_vars => BoardInv'
  BY TypeStep, ClaimsStep, KeptStep, PickedKept DEF BoardInv, Kept
<1>3. Init => Board!Init
  <2> SUFFICES ASSUME Init PROVE Board!Init
    OBVIOUS
  <2>1. Executing = {}
    BY DEF Init, Executing, Active, Free
  <2>2. \A i \in Ids : i >= nextId
    BY BoundsAssumption DEF Init, Ids
  <2> QED BY <2>1, <2>2 DEF Board!Init
<1>4. BoardInv /\ [Next]_vars => [Board!Next]_(Board!vars)
  BY PulseOnBoard, WorkOnBoard, CleanupOnBoard, ToolsOnBoard, RestOnBoard,
     BoardStepImplements DEF Next
<1> QED BY <1>1, <1>2, <1>3, <1>4, PTL DEF Spec

-----------------------------------------------------------------------------
(* What the table shows of an execution                                    *)

\* Until a write has failed, an executing task is running in the table, and so is
\* one the pulse has marked and is about to start.
MarkShown ==
  pulsePc \in {"register", "spawn"} /\ Present(cur.id) => row[cur.id].status = "running"

ShownUnlessFailed == failures = 0 => ExecutionShown /\ MarkShown

ExecutingUsed ==
  \A g \in Goroutines : worker[g].pc # "free" => worker[g].task.id < nextId

ShownInv == BoardInv /\ ExecutingUsed /\ ShownUnlessFailed

\* A row in use is there only if it was, with the status it had.
StatusStays ==
  \A i \in Ids : i < nextId /\ Present(i)' => Present(i) /\ row'[i].status = row[i].status

\* No execution begins, no task is marked.
NothingBegins ==
  /\ \A g \in Goroutines :
       worker'[g].pc # "free" =>
         /\ worker[g].pc # "free"
         /\ worker'[g].task = worker[g].task
         /\ worker'[g].pc = "run" => worker[g].pc = "run"
  /\ pulsePc' \in {"register", "spawn"} =>
       pulsePc \in {"register", "spawn"} /\ cur' = cur

LEMMA IdsInUse ==
  ASSUME BoardInv
  PROVE  /\ \A g \in Goroutines : worker[g].pc # "free" => worker[g].task.id \in Ids
         /\ pulsePc # "loop" => cur.id \in Ids /\ cur.id < nextId
         /\ nextId \in Nat /\ Ids \subseteq Nat
<1>1. \A g \in Goroutines : worker[g].pc # "free" => worker[g].task.id \in Ids
  BY DEF BoardInv, TypeOK, Task, Free
<1>2. pulsePc # "loop" => cur.id \in Ids /\ cur.id < nextId
  BY DEF BoardInv, TypeOK, Task, PickedIdsUsed
<1>3. nextId \in Nat /\ Ids \subseteq Nat
  BY BoundsAssumption DEF BoardInv, TypeOK, Ids
<1> QED
  BY <1>1, <1>2, <1>3

LEMMA ShownIfNothingBegins ==
  ASSUME ShownInv, nextId' \in {nextId, nextId + 1}, failures' = 0 => failures = 0,
         StatusStays, NothingBegins
  PROVE  ExecutingUsed' /\ ShownUnlessFailed'
<1>1. /\ \A g \in Goroutines : worker[g].pc # "free" => worker[g].task.id \in Ids
      /\ pulsePc # "loop" => cur.id \in Ids /\ cur.id < nextId
      /\ nextId \in Nat /\ Ids \subseteq Nat
  BY IdsInUse DEF ShownInv
<1>2. ASSUME NEW g \in Goroutines, worker'[g].pc # "free"
      PROVE  worker'[g].task.id < nextId'
  <2>1. worker[g].pc # "free" /\ worker'[g].task = worker[g].task
    BY <1>2 DEF NothingBegins
  <2>2. worker[g].task.id \in Nat /\ worker[g].task.id < nextId
    BY <1>1, <2>1 DEF ShownInv, ExecutingUsed
  <2>3. worker[g].task.id < nextId'
    BY <1>1, <2>2
  <2> QED
    BY <2>1, <2>3
<1>3. ASSUME failures' = 0, NEW g \in Goroutines, worker'[g].pc = "run",
             Present(worker[g].task.id)'
      PROVE  row'[worker'[g].task.id].status = "running"
  <2> DEFINE i == worker[g].task.id
  <2>1. worker[g].pc = "run" /\ worker'[g].task.id = i
    BY <1>3 DEF NothingBegins
  <2>2. i \in Ids /\ i < nextId
    BY <1>1, <2>1 DEF ShownInv, ExecutingUsed
  <2>3. Present(i) /\ row'[i].status = row[i].status
    BY <1>3, <2>1, <2>2 DEF StatusStays, Present
  <2> QED
    BY <1>3, <2>1, <2>3 DEF ShownInv, ShownUnlessFailed, ExecutionShown
<1>4. ASSUME failures' = 0
      PROVE  MarkShown'
  BY <1>1, <1>4 DEF ShownInv, ShownUnlessFailed, MarkShown, StatusStays, NothingBegins, Present
<1> QED
  BY <1>2, <1>3, <1>4 DEF ExecutingUsed, ShownUnlessFailed, ExecutionShown

\* A write that keeps the row's status, of the daemon's own code.
LEMMA UpdateStays ==
  ASSUME TypeOK, NEW i \in Ids, NEW r \in Row, Update(i, r),
         r.taskType # "none" => r.status = row[i].status
  PROVE  /\ StatusStays /\ nextId' = nextId
         /\ failures' = 0 => failures = 0
<1>1. failures \in Nat
  BY BoundsAssumption DEF TypeOK
<1>2. nextId' = nextId /\ (failures' = 0 => failures = 0)
  BY <1>1 DEF Update
<1>3. CASE row' = row
  BY <1>2, <1>3 DEF StatusStays, Present
<1>4. CASE row' = [row EXCEPT ![i] = r] /\ Present(i)
  BY <1>2, <1>4 DEF StatusStays, Present, TypeOK
<1> QED
  BY <1>2, <1>3, <1>4 DEF Update

LEMMA ShownPulse ==
  ASSUME ShownInv, Pulse
  PROVE  ExecutingUsed' /\ ShownUnlessFailed'
<1> USE DEF rowVars, pulseVars, cleanupVars
<1>0. TypeOK /\ Claims /\ ExecutingUsed /\ ShownUnlessFailed
  BY DEF ShownInv, BoardInv
<1>a. failures \in Nat
  BY <1>0, BoundsAssumption DEF TypeOK
<1>1. CASE PulseSelect \/ PulseSkip \/ PulseFire
  <2>1. UNCHANGED <<row, nextId, failures, worker>> /\ pulsePc' \in {"loop", "mark"}
    BY <1>1 DEF PulseSelect, PulseIdle, PulseSkip, PulseFire
  <2>2. StatusStays /\ NothingBegins
    BY <2>1 DEF StatusStays, NothingBegins, Present
  <2> QED
    BY <2>1, <2>2, ShownIfNothingBegins
<1>2. CASE PulseMark
  <2> DEFINE r == WithStatus(row[cur.id], "running")
  <2>1. /\ pulsePc = "mark" /\ Update(cur.id, r) /\ UNCHANGED <<worker, cur>>
        /\ cur.id \in Ids /\ row[cur.id] \in Row
    BY <1>0, <1>2 DEF PulseMark, TypeOK, Task
  <2>2. r \in Row /\ r.status = "running" /\ r.taskType = row[cur.id].taskType
    <3> DEFINE x == row[cur.id]
    <3>1. x \in Row
      BY <2>1
    <3>2. "running" \in Statuses
      BY DEF Statuses
    <3> HIDE DEF x
    <3>3. WithStatus(x, "running") \in Row
      BY <3>1, <3>2, RowOperators
    <3>4. /\ WithStatus(x, "running").status = "running"
          /\ WithStatus(x, "running").taskType = x.taskType
      BY <3>1 DEF WithStatus, Row
    <3> QED
      BY <3>3, <3>4 DEF x
  <2> HIDE DEF r
  <2>3. nextId' = nextId
    BY <2>1 DEF Update
  <2>4. ExecutingUsed'
    BY <1>0, <2>1, <2>3 DEF ExecutingUsed
  <2>5. ASSUME failures' = 0
        PROVE  ExecutionShown' /\ MarkShown'
    <3>1. failures = 0 /\ row' = IF Present(cur.id) THEN [row EXCEPT ![cur.id] = r] ELSE row
      BY <1>a, <2>1, <2>5 DEF Update
    <3>2. /\ Present(cur.id) => row'[cur.id].status = "running"
          /\ Present(cur.id)' = Present(cur.id)
          /\ \A i \in Ids : i # cur.id => row'[i] = row[i]
      BY <1>0, <2>1, <2>2, <3>1 DEF Present, TypeOK
    <3>3. MarkShown'
      BY <2>1, <3>2 DEF MarkShown, Present
    <3>4. \A g \in Goroutines : worker[g].pc # "free" => worker[g].task.id \in Ids
      BY IdsInUse DEF ShownInv
    <3>5. ExecutionShown'
      BY <1>0, <2>1, <3>1, <3>2, <3>4 DEF ExecutionShown, ShownUnlessFailed, Present
    <3> QED
      BY <3>3, <3>5
  <2> QED
    BY <2>4, <2>5 DEF ShownUnlessFailed
<1>3. CASE PulseRegister
  <2>1. UNCHANGED <<row, nextId, failures, worker, cur>> /\ pulsePc = "register"
    BY <1>3 DEF PulseRegister
  <2>2. StatusStays /\ NothingBegins
    BY <2>1 DEF StatusStays, NothingBegins, Present
  <2> QED
    BY <2>1, <2>2, ShownIfNothingBegins
<1>4. CASE PulseSpawn
  <2> DEFINE r == [row[cur.id] EXCEPT !.lastRunAge = 0]
  <2>1. /\ pulsePc = "spawn" /\ Update(cur.id, r) /\ pulsePc' = "loop"
        /\ cur.id \in Ids /\ cur.id < nextId /\ row[cur.id] \in Row
    BY <1>0, <1>4, IdsInUse DEF PulseSpawn, TypeOK, Task, ShownInv
  <2>2. r \in Row /\ r.status = row[cur.id].status
    BY <2>1, TimeAssumption DEF Row, Ages
  <2> HIDE DEF r
  <2>3. StatusStays /\ nextId' = nextId /\ (failures' = 0 => failures = 0)
    BY <1>0, <2>1, <2>2, UpdateStays
  <2>4. PICK g \in Goroutines : worker' = [worker EXCEPT ![g] = [pc |-> "run", task |-> cur]]
    BY <1>4 DEF PulseSpawn
  <2>5. /\ worker'[g].task = cur
        /\ \A h \in Goroutines : h # g => worker'[h] = worker[h]
    BY <1>0, <2>4 DEF TypeOK
  <2>6. ExecutingUsed'
    BY <1>0, <2>1, <2>3, <2>5 DEF ExecutingUsed
  <2>7. ASSUME failures' = 0, NEW h \in Goroutines, worker'[h].pc = "run",
               Present(worker[h].task.id)'
        PROVE  row'[worker'[h].task.id].status = "running"
    <3>1. ExecutionShown /\ MarkShown
      BY <1>0, <2>3, <2>7 DEF ShownUnlessFailed
    <3>2. CASE h = g
      BY <2>1, <2>3, <2>5, <2>7, <3>1, <3>2 DEF MarkShown, StatusStays, Present
    <3>3. CASE h # g
      <4>1. worker[h].task.id \in Ids /\ worker[h].task.id < nextId
        BY <1>0, <2>5, <2>7, <3>3, IdsInUse DEF ExecutingUsed, ShownInv
      <4> QED
        BY <2>3, <2>5, <2>7, <3>1, <3>3, <4>1 DEF ExecutionShown, StatusStays, Present
    <3> QED
      BY <3>2, <3>3
  <2>8. MarkShown'
    BY <2>1 DEF MarkShown
  <2> QED
    BY <2>6, <2>7, <2>8 DEF ShownUnlessFailed, ExecutionShown
<1> QED
  BY <1>1, <1>2, <1>3, <1>4 DEF Pulse

\* A task is completed in the table only after its own execution: no other
\* goroutine has it, and the pulse holds another one.
LEMMA ShownWork ==
  ASSUME ShownInv, NEW g \in Goroutines, Work(g)
  PROVE  ExecutingUsed' /\ ShownUnlessFailed'
<1> USE DEF rowVars, pulseVars, cleanupVars
<1>0. TypeOK /\ Claims /\ ExecutingUsed /\ ShownUnlessFailed
  BY DEF ShownInv, BoardInv
<1>a. failures \in Nat
  BY <1>0, BoundsAssumption DEF TypeOK
<1>b. worker[g] \in [pc : WorkerPcs, task : Task] \cup {Free}
  BY <1>0 DEF TypeOK
<1>1. CASE RunnerReturns(g) \/ NotifyUser(g) \/ Release(g)
  <2>1. UNCHANGED <<row, nextId, failures, pulsePc, cur>>
    BY <1>1 DEF RunnerReturns, NotifyUser, Release
  <2>2. NothingBegins
    BY <1>0, <1>1, <1>b, <2>1 DEF RunnerReturns, NotifyUser, Release, NothingBegins, TypeOK, Free
  <2>3. StatusStays
    BY <2>1 DEF StatusStays, Present
  <2> QED
    BY <2>1, <2>2, <2>3, ShownIfNothingBegins
<1>2. CASE Complete(g)
  <2> DEFINE i == worker[g].task.id
             r == WithStatus(row[i], "completed")
  <2>1. /\ worker[g].pc = "complete" /\ Update(i, r) /\ UNCHANGED <<pulsePc, cur>>
        /\ worker' = [worker EXCEPT ![g].pc = "notify"]
    BY <1>2 DEF Complete
  <2>2. i \in Ids
    BY <2>1, IdsInUse DEF ShownInv
  <2> HIDE DEF r
  <2>3. nextId' = nextId /\ \A j \in Ids : j # i => row'[j] = row[j]
    BY <1>0, <2>1 DEF Update, TypeOK
  <2>4. NothingBegins
    BY <1>0, <1>b, <2>1 DEF NothingBegins, TypeOK, Free
  <2>5. ExecutingUsed'
    BY <1>0, <2>3, <2>4 DEF ExecutingUsed, NothingBegins
  <2>6. g \in Active /\ i \in Executing
    BY <2>1 DEF Active, Executing
  <2>7. ASSUME NEW h \in Goroutines, worker'[h].pc = "run"
        PROVE  worker[h].pc = "run" /\ worker'[h].task = worker[h].task /\ worker[h].task.id # i
    <3>1. worker[h].pc = "run" /\ worker'[h].task = worker[h].task
      BY <2>4, <2>7 DEF NothingBegins
    <3>2. h \in Active /\ h # g
      BY <2>1, <3>1 DEF Active
    <3> QED
      BY <1>0, <2>6, <3>1, <3>2 DEF Claims, ExclusiveExecution
  <2>8. pulsePc \in {"register", "spawn"} => cur.id # i
    BY <1>0, <2>6 DEF Claims, RunningTasksAccurate, PulseHoldsFreshTask
  <2>9. failures' = 0 => failures = 0
    BY <1>a, <2>1 DEF Update
  <2>10. ASSUME failures' = 0, NEW h \in Goroutines, worker'[h].pc = "run",
                Present(worker[h].task.id)'
         PROVE  row'[worker'[h].task.id].status = "running"
    <3>1. worker[h].task.id \in Ids
      BY <2>7, <2>10, IdsInUse DEF ShownInv
    <3>2. row'[worker[h].task.id] = row[worker[h].task.id] /\ worker'[h].task = worker[h].task
      BY <2>3, <2>7, <2>10, <3>1
    <3> QED
      BY <1>0, <2>7, <2>9, <2>10, <3>2 DEF ShownUnlessFailed, ExecutionShown, Present
  <2>11. ASSUME failures' = 0
         PROVE  MarkShown'
    <3>1. pulsePc \in {"register", "spawn"} => row'[cur.id] = row[cur.id]
      BY <2>3, <2>8, IdsInUse DEF ShownInv
    <3> QED
      BY <1>0, <2>1, <2>9, <2>11, <3>1 DEF ShownUnlessFailed, MarkShown, Present
  <2> QED
    BY <2>5, <2>10, <2>11 DEF ShownUnlessFailed, ExecutionShown
<1> QED
  BY <1>1, <1>2 DEF Work

LEMMA ShownCleanup ==
  ASSUME ShownInv, Cleanup
  PROVE  ExecutingUsed' /\ ShownUnlessFailed'
<1> USE DEF rowVars, pulseVars, cleanupVars
<1>0. TypeOK
  BY DEF ShownInv, BoardInv
<1>1. UNCHANGED <<worker, pulsePc, cur>>
  BY DEF Cleanup, CleanupSelect, CleanupDelete
<1>2. NothingBegins
  BY <1>1 DEF NothingBegins
<1>3. CASE CleanupSelect
  <2>1. UNCHANGED <<row, nextId, failures>>
    BY <1>3 DEF CleanupSelect
  <2>2. StatusStays
    BY <2>1 DEF StatusStays, Present
  <2> QED
    BY <1>2, <2>1, <2>2, ShownIfNothingBegins
<1>4. CASE CleanupDelete
  <2>1. PICK i \in victims : Update(i, IF IsAgent(i) THEN NoRow ELSE row[i])
    BY <1>4 DEF CleanupDelete
  <2> DEFINE r == IF IsAgent(i) THEN NoRow ELSE row[i]
  <2>2. i \in Ids /\ row[i] \in Row
    BY <1>0 DEF TypeOK
  <2>3. r \in Row /\ (r.taskType # "none" => r.status = row[i].status)
    BY <2>2, RowOperators DEF NoRow
  <2>4. Update(i, r)
    BY <2>1
  <2> HIDE DEF r
  <2>5. StatusStays /\ nextId' = nextId /\ (failures' = 0 => failures = 0)
    BY <1>0, <2>2, <2>3, <2>4, UpdateStays
  <2> QED
    BY <1>2, <2>5, ShownIfNothingBegins
<1> QED
  BY <1>3, <1>4 DEF Cleanup

\* The tools create tasks under new ids and delete; they set no status.
LEMMA ShownTools ==
  ASSUME ToolStatuses = {}, ShownInv, Tools
  PROVE  ExecutingUsed' /\ ShownUnlessFailed'
<1> USE DEF rowVars, pulseVars, cleanupVars
<1>0. TypeOK /\ nextId \in Nat /\ Ids \subseteq Nat
  BY IdsInUse DEF ShownInv, BoardInv
<1>1. UNCHANGED <<worker, pulsePc, cur, failures>>
  BY DEF Tools, CreateTask, DeleteRead, DeleteExec
<1>2. NothingBegins
  BY <1>1 DEF NothingBegins
<1>3. ASSUME NEW type \in TaskTypes, NEW ttl \in TTLArgs, NEW iv \in Intervals,
             CreateTask(type, ttl, iv)
      PROVE  StatusStays /\ nextId' = nextId + 1
  <2>1. nextId' = nextId + 1 /\ \A i \in Ids : i < nextId => row'[i] = row[i]
    BY <1>0, <1>3 DEF CreateTask, TypeOK
  <2> QED
    BY <2>1 DEF StatusStays, Present
<1>4. ASSUME NEW c \in Callers, NEW i \in Ids, DeleteRead(c, i)
      PROVE  StatusStays /\ nextId' = nextId
  BY <1>4 DEF DeleteRead, StatusStays, Present
<1>5. ASSUME NEW c \in Callers, DeleteExec(c)
      PROVE  StatusStays /\ nextId' = nextId
  BY <1>0, <1>5 DEF DeleteExec, StatusStays, Present, TypeOK, NoRow
<1>6. StatusStays /\ nextId' \in {nextId, nextId + 1}
  BY <1>3, <1>4, <1>5 DEF Tools
<1> QED
  BY <1>1, <1>2, <1>6, ShownIfNothingBegins

LEMMA ShownRest ==
  ASSUME ShownInv, Tick \/ Crash \/ Restart \/ TakeNotification \/ UNCHANGED vars
  PROVE  ExecutingUsed' /\ ShownUnlessFailed'
<1> USE DEF rowVars, pulseVars, cleanupVars
<1>0. TypeOK
  BY DEF ShownInv, BoardInv
<1>1. UNCHANGED <<nextId, failures>>
  BY DEF Tick, Crash, Restart, TakeNotification, vars
<1>2. NothingBegins
  BY DEF Tick, Crash, Restart, TakeNotification, vars, NothingBegins, Free
<1>3. CASE Tick
  <2>1. \A r \in Row : Aged(r).taskType = r.taskType /\ Aged(r).status = r.status
    BY DEF Aged, Row
  <2>2. \A i \in Ids : row'[i] = Aged(row[i]) /\ row[i] \in Row
    BY <1>0, <1>3 DEF Tick, TypeOK
  <2>3. StatusStays
    BY <2>1, <2>2 DEF StatusStays, Present
  <2> QED
    BY <1>1, <1>2, <2>3, ShownIfNothingBegins
<1>4. CASE UNCHANGED row
  <2>1. StatusStays
    BY <1>4 DEF StatusStays, Present
  <2> QED
    BY <1>1, <1>2, <2>1, ShownIfNothingBegins
<1> QED
  BY <1>3, <1>4 DEF Crash, Restart, TakeNotification, vars

\* As long as the tools set no status and no write of the daemon has failed, a task
\* whose goroutine is in the runner is running in the table, whoever deletes, ages
\* or restarts it (heartbeat.go, pulse and its goroutines).
THEOREM ExecutionsShown ==
  ASSUME ToolStatuses = {}
  PROVE  Spec => [](failures = 0 => ExecutionShown)
<1>1. Init => ShownInv
  <2>1. Init => BoardInv
    BY TypeInit, ClaimsInit, DeletionsInit DEF Init, BoardInv, PickedIdsUsed
  <2> QED
    BY <2>1 DEF Init, ShownInv, ExecutingUsed, ShownUnlessFailed, ExecutionShown, MarkShown, Free
<1>2. ShownInv /\ [Next]_vars => ShownInv'
  <2> SUFFICES ASSUME ShownInv, [Next]_vars
               PROVE  ShownInv'
    OBVIOUS
  <2>1. BoardInv'
    BY TypeStep, ClaimsStep, KeptStep, PickedKept DEF ShownInv, BoardInv, Kept
  <2>2. ExecutingUsed' /\ ShownUnlessFailed'
    BY ShownPulse, ShownWork, ShownCleanup, ShownTools, ShownRest DEF Next
  <2> QED
    BY <2>1, <2>2 DEF ShownInv
<1>3. ShownInv => (failures = 0 => ExecutionShown)
  BY DEF ShownInv, ShownUnlessFailed
<1> QED
  BY <1>1, <1>2, <1>3, PTL DEF Spec
=============================================================================
