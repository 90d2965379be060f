--------------------------- MODULE HeartbeatTasks ---------------------------
(***************************************************************************)
(* The heartbeat of the Pars daemon: the user_tasks table, the pulse that  *)
(* starts due tasks, the goroutine of each started task, the zombie-task   *)
(* cleanup worker and the task tools the agent calls                       *)
(* (internal/core/heartbeat/heartbeat.go, internal/skills/network/         *)
(* db_tool.go, wired by cmd/pars/runner.go).                               *)
(*                                                                         *)
(* The pool of the tasks database has one connection, so every SQL         *)
(* statement is one atomic step and two statements of one function are     *)
(* two steps, with every other actor free to move in between.  A DATETIME  *)
(* column is kept as its age in minutes; ages stop growing at AgeCap,      *)
(* beyond every bound the code compares them with.                         *)
(***************************************************************************)
EXTENDS Integers, FiniteSets

CONSTANTS
  MaxTasks,        \* bound: rows the table ever receives
  Goroutines,      \* bound: identities for the goroutines that run tasks
  Callers,         \* concurrent callers of the delete_task tool
  TaskTypes,       \* task_type arguments of create_task
  TTLArgs,         \* ttl_minutes arguments of create_task
  Intervals,       \* interval_min arguments of create_task (0: one-off)
  ToolStatuses,    \* status arguments of update_task_status
  DefaultTTL,      \* AgentTaskDefaultTTL, in minutes
  MaxTTL,          \* AgentTaskMaxTTL, in minutes
  CleanupInterval, \* StaleTaskCleanupInterval, in minutes
  CleanupLimit,    \* LIMIT of the cleanup query
  NotifyCap,       \* capacity of NotificationChan
  AgeCap,          \* bound: ages are counted up to here
  DatetimeAsText,  \* the driver returns a DATETIME in the layout it is stored in
  MaxCrashes,      \* bound: times the daemon dies
  MaxFailures      \* bound: SQL writes that fail

ASSUME BoundsAssumption ==
  /\ MaxTasks \in Nat \ {0}
  /\ MaxCrashes \in Nat /\ MaxFailures \in Nat
  /\ CleanupLimit \in Nat \ {0} /\ CleanupInterval \in Nat \ {0}
  /\ NotifyCap \in Nat \ {0}

ASSUME TimeAssumption ==
  /\ MaxTTL \in Nat /\ DefaultTTL \in 1..MaxTTL
  /\ AgeCap \in Nat /\ AgeCap > MaxTTL
  /\ Intervals \subseteq 0..AgeCap /\ TTLArgs \subseteq Int
  /\ DatetimeAsText \in BOOLEAN

ASSUME IdentityAssumption ==
  /\ TaskTypes \subseteq {"user", "agent"}
  /\ ToolStatuses \subseteq {"pending", "running", "completed", "failed", "stale"}
  /\ IsFiniteSet(Goroutines)

VARIABLES
  row,         \* the user_tasks table, NoRow where it has no row with the id
  nextId,      \* the id AUTOINCREMENT gives next
  up,          \* the daemon process is alive
  running,     \* HeartbeatService.runningTasks
  ticked,      \* a tick waits in the pulse ticker's channel
  pulsePc,     \* where the pulse goroutine is inside its loop
  todo,        \* rows of the pulse's SELECT it has not come to yet
  cur,         \* the task the pulse is starting
  worker,      \* the goroutines started by pulse
  minutes,     \* minutes since the cleanup ticker's last tick
  cleanupDue,  \* a tick waits in the cleanup ticker's channel
  victims,     \* tasksToDelete of the cleanup pass under way
  del,         \* per caller, the row delete_task has read and will delete
  inbox,       \* messages waiting in NotificationChan
  crashes,
  failures

rowVars     == <<row, nextId, failures>>
pulseVars   == <<ticked, pulsePc, todo, cur>>
cleanupVars == <<minutes, cleanupDue, victims>>
vars == <<rowVars, up, running, pulseVars, worker, cleanupVars, del, inbox,
          crashes>>

-----------------------------------------------------------------------------
(* The table                                                               *)

Ids      == 1..MaxTasks
NoId     == 0
Statuses == {"pending", "running", "completed", "failed", "stale"}
Never    == -1                         \* completed_at IS NULL
Ages     == 0..AgeCap

Row == [taskType     : {"none", "user", "agent"},
        intervalMin  : Ages,
        ttlMinutes   : Int,
        status       : Statuses,
        createdAge   : Ages,
        completedAge : Ages \cup {Never},
        lastRunAge   : Ages]

NoRow == [taskType |-> "none", intervalMin |-> 0, ttlMinutes |-> 0,
          status |-> "pending", createdAge |-> 0, completedAge |-> Never,
          lastRunAge |-> 0]

Present(i) == row[i].taskType # "none"
IsAgent(i) == row[i].taskType = "agent"

Older(a) == IF a \in {Never, AgeCap} THEN a ELSE a + 1
Aged(r)  == IF r.taskType = "none" THEN r
            ELSE [r EXCEPT !.createdAge   = Older(@),
                           !.completedAge = Older(@),
                           !.lastRunAge   = Older(@)]

\* The row an UPDATE ... SET status leaves: completed_at is only ever set.
WithStatus(r, s) ==
  [r EXCEPT !.status = s, !.completedAge = IF s = "completed" THEN 0 ELSE @]

\* UPDATE ... WHERE id = i of the daemon's own code, whose error is ignored.
Update(i, r) ==
  \/ /\ row' = IF Present(i) THEN [row EXCEPT ![i] = r] ELSE row
     /\ UNCHANGED <<nextId, failures>>
  \/ /\ failures < MaxFailures
     /\ failures' = failures + 1
     /\ UNCHANGED <<row, nextId>>

\* ttl_minutes as create_task normalises it.
StoredTTL(type, ttl) ==
  LET asked == CASE type = "user" -> 0
                 [] type = "agent" /\ ttl <= 0 -> DefaultTTL
                 [] OTHER -> ttl
  IN  IF asked > MaxTTL THEN MaxTTL ELSE asked

\* Mutant: only pending rows are picked, those a crash interrupted are not.
SelectedPendingOnly(i) == Present(i) /\ row[i].status = "pending"

\* WHERE clause of the pulse's SELECT.
Selected(i) ==
  Present(i) /\ row[i].status \notin {"completed", "failed", "stale"}

\* Mutant: a finished agent task goes whatever its TTL.
ExpiredOnCompletion(i) ==
  /\ IsAgent(i)
  /\ \/ row[i].completedAge # Never
     \/ row[i].status = "running" /\ row[i].createdAge > row[i].ttlMinutes

\* Mutant: the cleanup looks for overdue running tasks only.
ExpiredRunningOnly(i) ==
  /\ IsAgent(i) /\ row[i].status = "running"
  /\ row[i].createdAge > row[i].ttlMinutes

\* WHERE clause of the cleanup's SELECT.
Expired(i) ==
  /\ IsAgent(i) /\ row[i].ttlMinutes > 0
  /\ \/ row[i].completedAge > row[i].ttlMinutes
     \/ row[i].status = "running" /\ row[i].createdAge > row[i].ttlMinutes

-----------------------------------------------------------------------------
(* The daemon's goroutines                                                 *)

NoTask   == [id |-> NoId, oneOff |-> FALSE]
Task     == [id : Ids, oneOff : BOOLEAN]
Snapshot == [id : Ids, intervalMin : Ages, lastRunAge : Ages]
Free     == [pc |-> "free", task |-> NoTask]
WorkerPcs == {"run", "complete", "notify", "release"}

Active == {g \in Goroutines : worker[g].pc # "free"}
Executing == {worker[g].task.id : g \in Active}

\* lastRun is parsed with the layout "2006-01-02 15:04:05"; any other text
\* leaves the zero time, longer ago than every interval.
Due(t) ==
  \/ t.intervalMin = 0
  \/ ~DatetimeAsText
  \/ t.lastRunAge >= t.intervalMin

PulseIdle == pulsePc = "loop" /\ todo = {}

Init ==
  /\ row = [i \in Ids |-> NoRow] /\ nextId = 1
  /\ up = TRUE /\ running = {}
  /\ ticked = FALSE /\ pulsePc = "loop" /\ todo = {} /\ cur = NoTask
  /\ worker = [g \in Goroutines |-> Free]
  /\ minutes = 0 /\ cleanupDue = FALSE /\ victims = {}
  /\ del = [c \in Callers |-> NoId]
  /\ inbox = 0 /\ crashes = 0 /\ failures = 0

\* A minute passes, for the stored timestamps whether or not the daemon is
\* up.  A ticker's channel holds one tick: a late receiver loses the others.
Tick ==
  /\ row' = [i \in Ids |-> Aged(row[i])]
  /\ IF up
     THEN /\ ticked' = TRUE
          /\ minutes' = (minutes + 1) % CleanupInterval
          /\ cleanupDue' = (cleanupDue \/ minutes' = 0)
     ELSE UNCHANGED <<ticked, minutes, cleanupDue>>
  /\ UNCHANGED <<nextId, failures, up, running, pulsePc, todo, cur, worker,
                 victims, del, inbox, crashes>>

\* pulse, the SELECT: the rows it will consider, as they are now.
PulseSelect ==
  /\ up /\ PulseIdle /\ ticked
  /\ ticked' = FALSE
  /\ todo' = {[id |-> i, intervalMin |-> row[i].intervalMin,
               lastRunAge |-> row[i].lastRunAge] : i \in {j \in Ids : Selected(j)}}
  /\ UNCHANGED <<rowVars, up, running, pulsePc, cur, worker, cleanupVars, del,
                 inbox, crashes>>

\* pulse, a task that is already running or is not due.
PulseSkip ==
  /\ pulsePc = "loop"
  /\ \E t \in todo : /\ t.id \in running \/ ~Due(t)
                     /\ todo' = todo \ {t}
  /\ UNCHANGED <<rowVars, up, running, ticked, pulsePc, cur, worker,
                 cleanupVars, del, inbox, crashes>>

\* Mutant: the pulse does not look at runningTasks.
PulseFireUnchecked ==
  /\ pulsePc = "loop"
  /\ \E t \in todo :
       /\ Due(t)
       /\ todo' = todo \ {t}
       /\ cur' = [id |-> t.id, oneOff |-> t.intervalMin = 0]
  /\ pulsePc' = "mark"
  /\ UNCHANGED <<rowVars, up, running, ticked, worker, cleanupVars, del, inbox,
                 crashes>>

\* pulse, a task that is not in runningTasks and is due.
PulseFire ==
  /\ pulsePc = "loop"
  /\ \E t \in todo :
       /\ t.id \notin running /\ Due(t)
       /\ todo' = todo \ {t}
       /\ cur' = [id |-> t.id, oneOff |-> t.intervalMin = 0]
  /\ pulsePc' = "mark"
  /\ UNCHANGED <<rowVars, up, running, ticked, worker, cleanupVars, del, inbox,
                 crashes>>

\* Mutant: the task is started without being marked running.
PulseMarkForgotten ==
  /\ pulsePc = "mark"
  /\ pulsePc' = "register"
  /\ UNCHANGED <<rowVars, up, running, ticked, todo, cur, worker, cleanupVars,
                 del, inbox, crashes>>

\* pulse, UpdateTaskStatus(t.id, TaskStatusRunning).
PulseMark ==
  /\ pulsePc = "mark"
  /\ Update(cur.id, WithStatus(row[cur.id], "running"))
  /\ pulsePc' = "register"
  /\ UNCHANGED <<up, running, ticked, todo, cur, worker, cleanupVars, del,
                 inbox, crashes>>

\* pulse, runningTasks[t.id] = true under mu.
PulseRegister ==
  /\ pulsePc = "register"
  /\ running' = running \cup {cur.id}
  /\ pulsePc' = "spawn"
  /\ UNCHANGED <<rowVars, up, ticked, todo, cur, worker, cleanupVars, del,
                 inbox, crashes>>

\* pulse, UPDATE last_run, then the go statement.
PulseSpawn ==
  /\ pulsePc = "spawn"
  /\ Update(cur.id, [row[cur.id] EXCEPT !.lastRunAge = 0])
  /\ \E g \in Goroutines \ Active :
       worker' = [worker EXCEPT ![g] = [pc |-> "run", task |-> cur]]
  /\ pulsePc' = "loop" /\ cur' = NoTask
  /\ UNCHANGED <<up, running, ticked, todo, cleanupVars, del, inbox, crashes>>

\* The goroutine: userTaskRunner, that is Pars.Run on the prompt, returns.
RunnerReturns(g) ==
  /\ worker[g].pc = "run"
  /\ worker' = [worker EXCEPT ![g].pc = IF worker[g].task.oneOff
                                        THEN "complete" ELSE "release"]
  /\ UNCHANGED <<rowVars, up, running, pulseVars, cleanupVars, del, inbox,
                 crashes>>

\* The goroutine of a one-off task: UpdateTaskStatus(TaskStatusCompleted).
Complete(g) ==
  /\ worker[g].pc = "complete"
  /\ LET i == worker[g].task.id IN Update(i, WithStatus(row[i], "completed"))
  /\ worker' = [worker EXCEPT ![g].pc = "notify"]
  /\ UNCHANGED <<up, running, pulseVars, cleanupVars, del, inbox, crashes>>

\* Mutant: the notifications are not bounded by the channel.
NotifyUserUnbounded(g) ==
  /\ worker[g].pc = "notify"
  /\ inbox' = inbox + 1
  /\ worker' = [worker EXCEPT ![g].pc = "release"]
  /\ UNCHANGED <<rowVars, up, running, pulseVars, cleanupVars, del, crashes>>

\* Mutant: the send waits for room in the channel.
NotifyUserBlocking(g) ==
  /\ worker[g].pc = "notify"
  /\ inbox < NotifyCap /\ inbox' = inbox + 1
  /\ worker' = [worker EXCEPT ![g].pc = "release"]
  /\ UNCHANGED <<rowVars, up, running, pulseVars, cleanupVars, del, crashes>>

\* notifyUser: a send that drops the message when the channel is full.
NotifyUser(g) ==
  /\ worker[g].pc = "notify"
  /\ inbox' = IF inbox < NotifyCap THEN inbox + 1 ELSE inbox
  /\ worker' = [worker EXCEPT ![g].pc = "release"]
  /\ UNCHANGED <<rowVars, up, running, pulseVars, cleanupVars, del, crashes>>

\* Mutant: the goroutine ends without its delete(runningTasks, taskID).
ReleaseForgotten(g) ==
  /\ worker[g].pc = "release"
  /\ worker' = [worker EXCEPT ![g] = Free]
  /\ UNCHANGED <<rowVars, up, running, pulseVars, cleanupVars, del, inbox,
                 crashes>>

\* The goroutine: delete(runningTasks, taskID) under mu, its last statement.
Release(g) ==
  /\ worker[g].pc = "release"
  /\ running' = running \ {worker[g].task.id}
  /\ worker' = [worker EXCEPT ![g] = Free]
  /\ UNCHANGED <<rowVars, up, pulseVars, cleanupVars, del, inbox, crashes>>

\* The system event listener of the runner takes a message.
TakeNotification ==
  /\ up /\ inbox > 0
  /\ inbox' = inbox - 1
  /\ UNCHANGED <<rowVars, up, running, pulseVars, worker, cleanupVars, del,
                 crashes>>

-----------------------------------------------------------------------------
(* The zombie task cleanup                                                 *)

\* cleanupStaleTasks, the SELECT with its LIMIT.
CleanupSelect ==
  /\ up /\ cleanupDue /\ victims = {}
  /\ LET expired == {i \in Ids : Expired(i)}
         quota == IF Cardinality(expired) > CleanupLimit
                  THEN CleanupLimit ELSE Cardinality(expired)
     IN  \E V \in SUBSET expired : Cardinality(V) = quota /\ victims' = V
  /\ cleanupDue' = FALSE
  /\ UNCHANGED <<rowVars, up, running, pulseVars, worker, minutes, del, inbox,
                 crashes>>

\* cleanupStaleTasks, DELETE ... WHERE id = ? AND task_type = 'agent'.
CleanupDelete ==
  /\ \E i \in victims :
       /\ victims' = victims \ {i}
       /\ Update(i, IF IsAgent(i) THEN NoRow ELSE row[i])
  /\ UNCHANGED <<up, running, pulseVars, worker, minutes, cleanupDue, del,
                 inbox, crashes>>

-----------------------------------------------------------------------------
(* The task tools                                                          *)

\* Mutant: ids without AUTOINCREMENT, a deleted row's id is given again.
CreateTaskReusingIds(type, ttl, interval) ==
  /\ up
  /\ \E i \in Ids :
       /\ ~Present(i)
       /\ row' = [row EXCEPT ![i] =
                    [NoRow EXCEPT !.taskType = type, !.intervalMin = interval,
                                  !.ttlMinutes = StoredTTL(type, ttl)]]
       /\ nextId' = IF i >= nextId THEN i + 1 ELSE nextId
  /\ UNCHANGED <<failures, up, running, pulseVars, worker, cleanupVars, del,
                 inbox, crashes>>

CreateTask(type, ttl, interval) ==
  /\ up /\ nextId <= MaxTasks
  /\ row' = [row EXCEPT ![nextId] =
               [NoRow EXCEPT !.taskType = type, !.intervalMin = interval,
                             !.ttlMinutes = StoredTTL(type, ttl)]]
  /\ nextId' = nextId + 1
  /\ UNCHANGED <<failures, up, running, pulseVars, worker, cleanupVars, del,
                 inbox, crashes>>

\* update_task_status: any status, whatever the row's is.
SetTaskStatus(i, status) ==
  /\ up /\ Present(i)
  /\ row' = [row EXCEPT ![i] = WithStatus(@, status)]
  /\ UNCHANGED <<nextId, failures, up, running, pulseVars, worker, cleanupVars,
                 del, inbox, crashes>>

\* delete_task reads the task_type and goes on for a user task only.
DeleteRead(c, i) ==
  /\ up /\ del[c] = NoId
  /\ Present(i) /\ ~IsAgent(i)
  /\ del' = [del EXCEPT ![c] = i]
  /\ UNCHANGED <<rowVars, up, running, pulseVars, worker, cleanupVars, inbox,
                 crashes>>

\* delete_task, DELETE ... WHERE id = ?.
DeleteExec(c) ==
  /\ del[c] # NoId
  /\ row' = [row EXCEPT ![del[c]] = NoRow]
  /\ del' = [del EXCEPT ![c] = NoId]
  /\ UNCHANGED <<nextId, failures, up, running, pulseVars, worker, cleanupVars,
                 inbox, crashes>>

-----------------------------------------------------------------------------
(* The process                                                             *)

\* The daemon dies: the table survives, everything else was in memory.
Crash ==
  /\ up /\ crashes < MaxCrashes
  /\ crashes' = crashes + 1 /\ up' = FALSE
  /\ running' = {} /\ ticked' = FALSE /\ pulsePc' = "loop" /\ todo' = {}
  /\ cur' = NoTask /\ worker' = [g \in Goroutines |-> Free]
  /\ minutes' = 0 /\ cleanupDue' = FALSE /\ victims' = {}
  /\ del' = [c \in Callers |-> NoId] /\ inbox' = 0
  /\ UNCHANGED rowVars

\* NewHeartbeatService and Start of the next process.
Restart ==
  /\ ~up /\ up' = TRUE
  /\ UNCHANGED <<rowVars, running, pulseVars, worker, cleanupVars, del, inbox,
                 crashes>>

Pulse == PulseSelect \/ PulseSkip \/ PulseFire \/ PulseMark \/ PulseRegister
           \/ PulseSpawn
Work(g) == RunnerReturns(g) \/ Complete(g) \/ NotifyUser(g) \/ Release(g)
Cleanup == CleanupSelect \/ CleanupDelete
Tools ==
  \/ \E type \in TaskTypes, ttl \in TTLArgs, iv \in Intervals :
       CreateTask(type, ttl, iv)
  \/ \E i \in Ids, status \in ToolStatuses : SetTaskStatus(i, status)
  \/ \E c \in Callers, i \in Ids : DeleteRead(c, i)
  \/ \E c \in Callers : DeleteExec(c)

Next ==
  \/ Tick \/ Pulse \/ Cleanup \/ Tools \/ Crash \/ Restart
  \/ TakeNotification
  \/ \E g \in Goroutines : Work(g)

Spec == Init /\ [][Next]_vars

\* Tickers tick, a runnable goroutine is scheduled, a run of the agent ends
\* (its steps and its model calls are bounded), a dead daemon is restarted.
\* Nobody has to read the notifications or call a tool.
Fairness ==
  /\ WF_vars(Tick) /\ WF_vars(Pulse) /\ WF_vars(Cleanup) /\ WF_vars(Restart)
  /\ \A g \in Goroutines : WF_vars(Work(g))

FairSpec == Spec /\ Fairness

-----------------------------------------------------------------------------
(* Properties                                                              *)

TypeOK ==
  /\ row \in [Ids -> Row] /\ nextId \in 1..(MaxTasks + 1)
  /\ up \in BOOLEAN /\ running \subseteq Ids
  /\ ticked \in BOOLEAN /\ pulsePc \in {"loop", "mark", "register", "spawn"}
  /\ todo \subseteq Snapshot
  /\ cur \in Task \cup {NoTask} /\ (pulsePc # "loop" => cur \in Task)
  /\ worker \in [Goroutines -> [pc : WorkerPcs, task : Task] \cup {Free}]
  /\ minutes \in 0..(CleanupInterval - 1) /\ cleanupDue \in BOOLEAN
  /\ victims \subseteq Ids
  /\ del \in [Callers -> Ids \cup {NoId}]
  /\ inbox \in 0..NotifyCap
  /\ crashes \in 0..MaxCrashes /\ failures \in 0..MaxFailures

\* One task is never executed by two goroutines at a time: the pulse's check
\* of runningTasks, its registration and the goroutine's release, which are
\* three critical sections and not one, still exclude it.
ExclusiveExecution ==
  \A g, h \in Active : worker[g].task.id = worker[h].task.id => g = h

\* runningTasks names exactly the tasks that have a goroutine, or are about to
\* get theirs: no task is locked out of the pulse by a leftover entry, and none
\* executes without its entry.
RunningTasksAccurate ==
  running = Executing \cup (IF pulsePc = "spawn" THEN {cur.id} ELSE {})

\* A task between the pulse's check and its registration is not registered by
\* anybody else, and one registered but not started has no goroutine yet.
PulseHoldsFreshTask ==
  /\ pulsePc \in {"mark", "register"} => cur.id \notin running
  /\ pulsePc = "spawn" => cur.id \notin Executing

\* What a pending deletion is about to delete is what it was when it was read:
\* an id the cleanup holds is no row but an agent's past its TTL, an id a
\* delete_task call holds is no agent's row.
DeletionsCurrent ==
  /\ \A i \in Ids : Present(i) => /\ i < nextId
                                /\ row[i].completedAge <= row[i].createdAge
  /\ \A i \in victims :
       /\ i < nextId
       /\ Present(i) => IsAgent(i) /\ row[i].createdAge > row[i].ttlMinutes
  /\ \A c \in Callers :
       del[c] # NoId => del[c] < nextId /\ ~IsAgent(del[c])

\* A user task leaves the table only by the delete_task call that read it; an
\* agent task only by the cleanup, and never within its TTL.  The tool and the
\* cleanup both delete by an id they read in an earlier statement.
RowLeaves(i) ==
  Present(i) /\ ~Present(i)' =>
    IF IsAgent(i)
    THEN i \in victims /\ row[i].createdAge > row[i].ttlMinutes
    ELSE \E c \in Callers : del[c] = i /\ del'[c] = NoId

RowsLeaveAsPromised == [][\A i \in Ids : RowLeaves(i)]_vars

\* While a goroutine of a task is in the runner the table says running, also
\* when the pulse restarts a task whose earlier execution completed under its
\* eyes.  It holds as long as no tool call sets a status.
ExecutionShown ==
  \A g \in Goroutines :
    LET i == worker[g].task.id IN
      worker[g].pc = "run" /\ Present(i) => row[i].status = "running"

\* A pending one-off task reaches a final status or is deleted, across
\* crashes, failed writes and status changes through the tool.
OneOffFinishes ==
  \A i \in Ids :
    Present(i) /\ row[i].intervalMin = 0
      ~> ~Present(i) \/ row[i].status \in {"completed", "failed", "stale"}

\* A finished agent task that is not executing is deleted, or else executes
\* again: also when several are due and the LIMIT leaves some for a later pass.
FinishedAgentTaskRemoved ==
  \A i \in Ids :
    IsAgent(i) /\ row[i].completedAge # Never /\ i \notin running
      ~> ~Present(i) \/ i \in running

\* The heartbeat implements the task board: ids are not reused, executions of
\* a task do not overlap, and each ends whoever reads the notifications.
Board == INSTANCE TaskBoard WITH
  board <- [i \in Ids |-> IF i >= nextId THEN "unused"
                          ELSE IF Present(i) THEN row[i].taskType ELSE "gone"],
  busy  <- Executing

TaskBoardImplemented == Board!Spec

-----------------------------------------------------------------------------
(* What the documentation says and the code does not do                    *)

\* "0 = tek seferlik" (db_tool.go), a one-off task runs a single time: it is
\* not started again once it has completed.
OneOffRunsOnce ==
  [][\A g \in Goroutines :
       g \notin Active /\ g \in Active' /\ worker'[g].task.oneOff =>
         row[worker'[g].task.id].completedAge = Never]_vars

\* "Tekrarlama aralığı (dakika)" (db_tool.go), the repetition interval: a
\* recurring task is not started before its interval has passed.
IntervalRespected ==
  [][\A g \in Goroutines :
       g \notin Active /\ g \in Active' =>
         LET r == row[worker'[g].task.id]
         IN  r.taskType # "none" => r.lastRunAge >= r.intervalMin]_vars
=============================================================================
