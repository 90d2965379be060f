---------------------------- MODULE AgentSessions ----------------------------
(***************************************************************************)
(* The runs of the agent and the sessions they share: Pars.Run with its    *)
(* step loop and parallel tools (internal/agent/execution.go), the cancel  *)
(* action of pars_control (internal/agent/internal_tools.go) and the       *)
(* callers, WhatsApp's retries included                                    *)
(* (internal/communication/whatsapp/processor.go).                         *)
(*                                                                         *)
(* A run is named by its request and attempt, a Session object by the run  *)
(* that made it.  What the messages say is left out: the model's answer is *)
(* an error, a text or a number of tool calls.                             *)
(***************************************************************************)
EXTENDS Integers

CONSTANTS
  Requests,    \* bound: requests that reach the agent
  NamedIds,    \* client_task_id values of the callers
  WhatsAppIds, \* those of WhatsApp, which calls Run again after an error
  AlertIds,    \* those with the prefix [WA-ALERT-
  FreshIds,    \* ids Run makes for a caller that gives none; two may collide
  MaxAttempts, \* maxRetries
  MaxSteps,    \* Pars.MaxSteps
  MaxCalls,    \* bound: tool calls in one answer of the model
  MaxParallel, \* MaxParallelTools
  Cancellers,  \* concurrent pars_control cancel calls
  None

ASSUME SessionsAssumption ==
  /\ WhatsAppIds \subseteq NamedIds /\ AlertIds \subseteq NamedIds \ WhatsAppIds
  /\ FreshIds \cap NamedIds = {}
  /\ MaxAttempts \in Nat \ {0} /\ MaxSteps \in Nat \ {0}
  /\ MaxCalls \in Nat \ {0} /\ MaxParallel \in Nat \ {0}
  /\ None \notin Requests \X (1..MaxAttempts)

VARIABLES
  registry,  \* Pars.sessions
  cancelOf,  \* per Session object, the run its Cancel cancels
  request,   \* the callers and their Run calls
  tools,     \* per request, the goroutines of its tool calls
  done,      \* runs whose context is cancelled
  expired,   \* requests whose caller's context is done
  canceller  \* the pars_control cancel calls

vars == <<registry, cancelOf, request, tools, done, expired, canceller>>

Runs == Requests \X (1..MaxAttempts)

Run(q)       == <<q, request[q].attempt>>
Cancelled(q) == Run(q) \in done \/ q \in expired
Live(q)      == request[q].pc \in {"plan", "head", "chat", "tools"}

Init ==
  /\ registry = [i \in NamedIds \cup FreshIds |-> None]
  /\ cancelOf = [o \in Runs |-> None]
  /\ request \in [Requests -> [pc : {"new"}, id : NamedIds \cup FreshIds,
                               attempt : {1}, session : {None}, step : {0},
                               failed : {FALSE}]]
  /\ tools = [q \in Requests |-> [waiting |-> 0, active |-> 0,
                                  timeout |-> FALSE]]
  /\ done = {} /\ expired = {}
  /\ canceller = [c \in Cancellers |-> [pc |-> "new", target |-> None]]

Go(q, pc) == request' = [request EXCEPT ![q].pc = pc]

-----------------------------------------------------------------------------
(* Pars.Run                                                                *)

\* Mutant: a run that joins a session leaves the session's Cancel as it is.
BeginKeepingCancel(q) ==
  /\ request[q].pc = "new"
  /\ LET i == request[q].id
         o == IF i \in FreshIds \/ registry[i] = None THEN Run(q) ELSE registry[i]
     IN  /\ request' = [request EXCEPT ![q].pc = "plan", ![q].session = o]
         /\ registry' = [registry EXCEPT ![i] = o]
         /\ cancelOf' = IF o = Run(q) THEN [cancelOf EXCEPT ![o] = Run(q)]
                                      ELSE cancelOf
         /\ done' = done \cup ({cancelOf[o]} \ {None})
  /\ UNCHANGED <<tools, expired, canceller>>

\* Under sessMu: the session of the id is joined, and the run it would have
\* cancelled is cancelled, or a new session is made and registered.
Begin(q) ==
  /\ request[q].pc = "new"
  /\ LET i == request[q].id
         o == IF i \in FreshIds \/ registry[i] = None THEN Run(q) ELSE registry[i]
     IN  /\ request' = [request EXCEPT ![q].pc = "plan", ![q].session = o]
         /\ registry' = [registry EXCEPT ![i] = o]
         /\ done' = done \cup ({cancelOf[o]} \ {None})
         /\ cancelOf' = [cancelOf EXCEPT ![o] = Run(q)]
  /\ UNCHANGED <<tools, expired, canceller>>

\* The input joins the history and generatePlan asks the model, with or
\* without an answer.
Plan(q) ==
  /\ request[q].pc = "plan"
  /\ Go(q, "head")
  /\ UNCHANGED <<registry, cancelOf, tools, done, expired, canceller>>

Return(q, failed) ==
  request' = [request EXCEPT ![q].pc = "leaving", ![q].failed = failed]

\* The next iteration, or the end of the loop at the step limit.
NextStep(q) ==
  IF request[q].step + 1 < MaxSteps
  THEN request' = [request EXCEPT ![q].pc = "head", ![q].step = @ + 1]
  ELSE Return(q, FALSE)

HeadCancelled(q) ==
  /\ request[q].pc = "head" /\ Cancelled(q)
  /\ Return(q, FALSE)
  /\ UNCHANGED <<registry, cancelOf, tools, done, expired, canceller>>

\* The step timer; select may choose it although the context is done.
HeadTimer(q) ==
  /\ request[q].pc = "head"
  /\ Go(q, "chat")
  /\ UNCHANGED <<registry, cancelOf, tools, done, expired, canceller>>

\* Brain.Chat fails, the second time without tools included.  On a done
\* context the error is not reported.
ChatFails(q) ==
  /\ request[q].pc = "chat"
  /\ Return(q, ~Cancelled(q))
  /\ UNCHANGED <<registry, cancelOf, tools, done, expired, canceller>>

\* An answer without tool calls ends the task; in task mode it does not on
\* the first step, the model is told to call a tool.
ChatTalks(q) ==
  /\ request[q].pc = "chat"
  /\ \/ Return(q, FALSE)
     \/ request[q].step = 0 /\ NextStep(q)
  /\ UNCHANGED <<registry, cancelOf, tools, done, expired, canceller>>

\* An answer with tool calls: a goroutine for each that names a function.
ChatCalls(q) ==
  /\ request[q].pc = "chat"
  /\ Go(q, "tools")
  /\ \E n \in 0..MaxCalls : tools' = [tools EXCEPT ![q].waiting = n]
  /\ UNCHANGED <<registry, cancelOf, done, expired, canceller>>

\* Mutant: the tools' goroutines take no place in the semaphore.
ToolStartUnbounded(q) ==
  /\ tools[q].waiting > 0
  /\ ~tools[q].timeout /\ ~Cancelled(q)
  /\ tools' = [tools EXCEPT ![q].waiting = @ - 1, ![q].active = @ + 1]
  /\ UNCHANGED <<registry, cancelOf, request, done, expired, canceller>>

\* A goroutine gets a place in the step's semaphore and calls its tool, unless
\* the contexts are done.
ToolStart(q) ==
  /\ tools[q].waiting > 0 /\ tools[q].active < MaxParallel
  /\ ~tools[q].timeout /\ ~Cancelled(q)
  /\ tools' = [tools EXCEPT ![q].waiting = @ - 1, ![q].active = @ + 1]
  /\ UNCHANGED <<registry, cancelOf, request, done, expired, canceller>>

ToolSkipped(q) ==
  /\ tools[q].waiting > 0
  /\ tools[q].timeout \/ Cancelled(q)
  /\ tools' = [tools EXCEPT ![q].waiting = @ - 1]
  /\ UNCHANGED <<registry, cancelOf, request, done, expired, canceller>>

ToolReturns(q) ==
  /\ tools[q].active > 0
  /\ tools' = [tools EXCEPT ![q].active = @ - 1]
  /\ UNCHANGED <<registry, cancelOf, request, done, expired, canceller>>

\* toolCtx runs into ToolExecTimeout.
ToolTimeout(q) ==
  /\ request[q].pc = "tools" /\ ~tools[q].timeout
  /\ tools' = [tools EXCEPT ![q].timeout = TRUE]
  /\ UNCHANGED <<registry, cancelOf, request, done, expired, canceller>>

\* A tool still at work is left alone; its result goes nowhere.
LeaveTools(q) ==
  /\ NextStep(q)
  /\ tools' = [tools EXCEPT ![q] = [waiting |-> 0, active |-> 0,
                                    timeout |-> FALSE]]
  /\ UNCHANGED <<registry, cancelOf, done, expired, canceller>>

\* Mutant: the step waits for its tools only.
CollectAll(q) ==
  /\ request[q].pc = "tools"
  /\ tools[q].waiting = 0 /\ tools[q].active = 0
  /\ LeaveTools(q)

\* The step ends with its tools, or without those that still execute.
Collect(q) ==
  /\ request[q].pc = "tools"
  /\ \/ tools[q].waiting = 0 /\ tools[q].active = 0
     \/ tools[q].timeout
     \/ Cancelled(q)
  /\ LeaveTools(q)

-----------------------------------------------------------------------------
(* The callers                                                             *)

Answer(q) ==
  request' = [request EXCEPT
    ![q].pc = IF /\ request[q].failed /\ request[q].id \in WhatsAppIds
                 /\ request[q].attempt < MaxAttempts
              THEN "backoff" ELSE "answered"]

\* Mutant: an alert's session stays when its run ends.
LeaveKeepingSession(q) ==
  /\ request[q].pc = "leaving"
  /\ done' = done \cup {Run(q)}
  /\ Answer(q)
  /\ UNCHANGED <<registry, cancelOf, tools, expired, canceller>>

\* Run's deferred function; an error makes WhatsApp try again, two more times.
Leave(q) ==
  /\ request[q].pc = "leaving"
  /\ done' = done \cup {Run(q)}
  /\ registry' = IF request[q].id \in AlertIds
                 THEN [registry EXCEPT ![request[q].id] = None] ELSE registry
  /\ Answer(q)
  /\ UNCHANGED <<cancelOf, tools, expired, canceller>>

\* The retry of WhatsApp's loop, after its pause.
Retry(q) ==
  /\ request[q].pc = "backoff"
  /\ request' = [request EXCEPT ![q].pc = "new", ![q].attempt = @ + 1,
                                ![q].step = 0]
  /\ UNCHANGED <<registry, cancelOf, tools, done, expired, canceller>>

\* The WhatsApp timeout, or the daemon's context.
ContextDone(q) ==
  /\ Live(q) /\ q \notin expired
  /\ expired' = expired \cup {q}
  /\ UNCHANGED <<registry, cancelOf, request, tools, done, canceller>>

-----------------------------------------------------------------------------
(* pars_control cancel: the lookup under sessMu, the session's Cancel taken *)
(* under its mu, and the call of what was taken.                            *)

CancelLook(c) ==
  /\ canceller[c].pc = "new"
  /\ \E i \in NamedIds \cup FreshIds :
       /\ registry[i] # None
       /\ canceller' = [canceller EXCEPT ![c] = [pc |-> "take",
                                                 target |-> registry[i]]]
  /\ UNCHANGED <<registry, cancelOf, request, tools, done, expired>>

CancelTake(c) ==
  /\ canceller[c].pc = "take"
  /\ LET o == canceller[c].target IN
       /\ canceller' = [canceller EXCEPT ![c] = [pc |-> "call",
                                                 target |-> cancelOf[o]]]
       /\ cancelOf' = [cancelOf EXCEPT ![o] = None]
  /\ UNCHANGED <<registry, request, tools, done, expired>>

CancelCall(c) ==
  /\ canceller[c].pc = "call"
  /\ done' = done \cup ({canceller[c].target} \ {None})
  /\ canceller' = [canceller EXCEPT ![c] = [pc |-> "gone", target |-> None]]
  /\ UNCHANGED <<registry, cancelOf, request, tools, expired>>

RunStep(q) ==
  \/ Begin(q) \/ Plan(q) \/ HeadCancelled(q) \/ HeadTimer(q) \/ ChatFails(q)
  \/ ChatTalks(q) \/ ChatCalls(q) \/ Collect(q) \/ Leave(q) \/ Retry(q)
ToolStep(q) == ToolStart(q) \/ ToolSkipped(q) \/ ToolReturns(q)
CancelStep(c) == CancelLook(c) \/ CancelTake(c) \/ CancelCall(c)

Next ==
  \/ \E q \in Requests : \/ RunStep(q) \/ ToolStep(q) \/ ToolTimeout(q)
                         \/ ContextDone(q)
  \/ \E c \in Cancellers : CancelStep(c)

\* A goroutine that can move does, the model's client answers or fails, timers
\* fire.  No tool has to return and nobody has to cancel.
Fairness ==
  \A q \in Requests : /\ WF_vars(RunStep(q)) /\ WF_vars(ToolTimeout(q))
                      /\ WF_vars(ToolStart(q) \/ ToolSkipped(q))

Spec == Init /\ [][Next]_vars /\ Fairness

-----------------------------------------------------------------------------
(* Properties                                                              *)

Caller == [pc      : {"new", "plan", "head", "chat", "tools", "leaving",
                      "backoff", "answered"},
           id      : NamedIds \cup FreshIds,
           attempt : 1..MaxAttempts,
           session : Runs \cup {None},
           step    : 0..(MaxSteps - 1),
           failed  : BOOLEAN]

TypeOK ==
  /\ registry \in [NamedIds \cup FreshIds -> Runs \cup {None}]
  /\ cancelOf \in [Runs -> Runs \cup {None}]
  /\ request \in [Requests -> Caller]
  /\ \A q \in Requests :
       request[q].pc = "backoff" => request[q].attempt < MaxAttempts
  /\ tools \in [Requests -> [waiting : 0..MaxCalls, active : 0..MaxParallel,
                             timeout : BOOLEAN]]
  /\ done \subseteq Runs /\ expired \subseteq Requests
  /\ canceller \in [Cancellers -> [pc : {"new", "take", "call", "gone"},
                                   target : Runs \cup {None}]]
  /\ \A c \in Cancellers : canceller[c].pc = "take" => canceller[c].target # None

\* A pars_control call holds the Cancel of the run and is about to call it.
Held(q) == \E c \in Cancellers : /\ canceller[c].pc = "call"
                                 /\ canceller[c].target = Run(q)

\* No run slips away from being cancelled: a live run is cancelled already, or
\* is the one its session's Cancel cancels, or a pars_control call has taken
\* its Cancel and is about to call it.  So two runs of a session that are both
\* live, as when a message follows another, are never both left to go on.
RunsAreCancellable ==
  \A q \in Requests :
    Live(q) => \/ Cancelled(q) \/ Held(q)
               \/ request[q].session # None /\ cancelOf[request[q].session] = Run(q)

\* An alert's session is in the registry only as long as the run that made it
\* is at work, whatever other runs of its id came and went.
AlertsLeaveNothing ==
  \A i \in AlertIds :
    registry[i] # None => LET q == registry[i][1] IN Live(q) \/ request[q].pc = "leaving"

\* Every request is answered: steps, attempts and the waiting for tools that
\* never return are all bounded.
RequestsAnswered == \A q \in Requests : <>(request[q].pc = "answered")
=============================================================================
