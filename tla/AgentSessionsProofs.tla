------------------------- MODULE AgentSessionsProofs -------------------------
(***************************************************************************)
(* Theorems about AgentSessions, for every value of its constants.         *)
(***************************************************************************)
EXTENDS AgentSessions, TLAPS

-----------------------------------------------------------------------------
(* Types                                                                   *)

LEMMA RunTyped == TypeOK => \A q \in Requests : Run(q) \in Runs
BY DEF TypeOK, Caller, Run, Runs

LEMMA NoneIsNoRun == None \notin Runs
BY SessionsAssumption DEF Runs

\* A step of one request, to a caller record of which only backoff says more.
LEMMA CallerTyped ==
  ASSUME TypeOK, NEW q \in Requests, NEW r \in Caller,
         r.pc = "backoff" => r.attempt < MaxAttempts,
         request' = [request EXCEPT ![q] = r],
         registry' \in [NamedIds \cup FreshIds -> Runs \cup {None}],
         cancelOf' \in [Runs -> Runs \cup {None}], done' \subseteq Runs,
         tools' \in [Requests -> [waiting : 0..MaxCalls, active : 0..MaxParallel,
                                  timeout : BOOLEAN]],
         UNCHANGED <<expired, canceller>>
  PROVE  TypeOK'
<1>1. request' \in [Requests -> Caller]
  BY DEF TypeOK
<1>2. \A p \in Requests :
        request'[p].pc = "backoff" => request'[p].attempt < MaxAttempts
  BY DEF TypeOK
<1> QED BY <1>1, <1>2 DEF TypeOK

\* A request that goes to another place of its handler keeps its other fields.
LEMMA GoTyped ==
  ASSUME TypeOK, NEW q \in Requests,
         NEW pc \in {"new", "plan", "head", "chat", "tools", "leaving", "answered"},
         Go(q, pc),
         UNCHANGED <<registry, cancelOf, done, expired, canceller>>,
         tools' \in [Requests -> [waiting : 0..MaxCalls, active : 0..MaxParallel,
                                  timeout : BOOLEAN]]
  PROVE  TypeOK'
<1> DEFINE r == [request[q] EXCEPT !.pc = pc]
<1>1. request[q] \in Caller
  BY DEF TypeOK
<1>2. r \in Caller /\ r.pc # "backoff"
  BY <1>1 DEF Caller
<1>3. request' = [request EXCEPT ![q] = r]
  BY DEF Go
<1> HIDE DEF r
<1> QED BY <1>2, <1>3, CallerTyped DEF TypeOK

LEMMA ReturnTyped ==
  ASSUME TypeOK, NEW q \in Requests, NEW f \in BOOLEAN,
         Return(q, f) \/ NextStep(q),
         UNCHANGED <<registry, cancelOf, done, expired, canceller>>,
         tools' \in [Requests -> [waiting : 0..MaxCalls, active : 0..MaxParallel,
                                  timeout : BOOLEAN]]
  PROVE  TypeOK'
<1>0. request[q] \in Caller
  BY DEF TypeOK
<1>1. ASSUME NEW g \in BOOLEAN, Return(q, g) PROVE TypeOK'
  <2> DEFINE r == [request[q] EXCEPT !.pc = "leaving", !.failed = g]
  <2>1. r \in Caller /\ r.pc # "backoff"
    BY <1>0, <1>1 DEF Caller
  <2>2. request' = [request EXCEPT ![q] = r]
    BY <1>1 DEF Return
  <2> HIDE DEF r
  <2> QED BY <2>1, <2>2, CallerTyped DEF TypeOK
<1>2. CASE NextStep(q) /\ request[q].step + 1 < MaxSteps
  <2> DEFINE r == [request[q] EXCEPT !.pc = "head", !.step = @ + 1]
  <2>1. request[q].step + 1 \in 0..(MaxSteps - 1)
    BY <1>0, <1>2, SessionsAssumption DEF Caller
  <2>2. r \in Caller /\ r.pc # "backoff"
    BY <1>0, <2>1 DEF Caller
  <2>3. request' = [request EXCEPT ![q] = r]
    BY <1>2 DEF NextStep
  <2> HIDE DEF r
  <2> QED BY <2>2, <2>3, CallerTyped DEF TypeOK
<1>3. CASE NextStep(q) /\ ~(request[q].step + 1 < MaxSteps)
  BY <1>1, <1>3 DEF NextStep
<1> QED BY <1>1, <1>2, <1>3

LEMMA TypeInit == Init => TypeOK
<1> SUFFICES ASSUME Init PROVE TypeOK
  OBVIOUS
<1>1. 1 \in 1..MaxAttempts /\ 0 \in 0..(MaxSteps - 1)
  BY SessionsAssumption
<1>2. /\ request \in [Requests -> Caller]
      /\ \A q \in Requests : request[q].pc # "backoff"
  BY <1>1 DEF Init, Caller
<1>3. tools \in [Requests -> [waiting : 0..MaxCalls, active : 0..MaxParallel,
                              timeout : BOOLEAN]]
  BY SessionsAssumption DEF Init
<1> QED BY <1>2, <1>3 DEF Init, TypeOK

LEMMA TypeRun ==
  \A q \in Requests : TypeOK /\ RunStep(q) => TypeOK'
<1> SUFFICES ASSUME NEW q \in Requests, TypeOK, RunStep(q) PROVE TypeOK'
  OBVIOUS
<1>0. request[q] \in Caller
  BY DEF TypeOK
<1>1. CASE Begin(q)
  <2> DEFINE i == request[q].id
             o == IF i \in FreshIds \/ registry[i] = None THEN Run(q)
                                                          ELSE registry[i]
  <2>1. o \in Runs /\ Run(q) \in Runs /\ i \in NamedIds \cup FreshIds
    BY <1>0, RunTyped DEF TypeOK, Caller
  <2> DEFINE r == [request[q] EXCEPT !.pc = "plan", !.session = o]
  <2>2. /\ request' = [request EXCEPT ![q] = r]
        /\ registry' = [registry EXCEPT ![i] = o]
        /\ done' = done \cup ({cancelOf[o]} \ {None})
        /\ cancelOf' = [cancelOf EXCEPT ![o] = Run(q)]
        /\ UNCHANGED <<tools, expired, canceller>>
    BY <1>1 DEF Begin
  <2> HIDE DEF i, o
  <2>3. r \in Caller /\ r.pc # "backoff"
    BY <1>0, <2>1 DEF Caller
  <2> HIDE DEF r
  <2>4. /\ done' \subseteq Runs
        /\ registry' \in [NamedIds \cup FreshIds -> Runs \cup {None}]
        /\ cancelOf' \in [Runs -> Runs \cup {None}]
    BY <2>1, <2>2 DEF TypeOK
  <2> QED BY <2>2, <2>3, <2>4, CallerTyped DEF TypeOK
<1>2. CASE Plan(q) \/ HeadTimer(q)
  BY <1>2, GoTyped DEF Plan, HeadTimer, TypeOK
<1>3. CASE HeadCancelled(q) \/ ChatFails(q)
  <2>1. PICK f \in BOOLEAN : Return(q, f)
    BY <1>3 DEF HeadCancelled, ChatFails
  <2> QED BY <1>3, <2>1, ReturnTyped DEF HeadCancelled, ChatFails, TypeOK
<1>4. CASE ChatTalks(q)
  BY <1>4, ReturnTyped DEF ChatTalks, TypeOK
<1>5. CASE ChatCalls(q)
  BY <1>5, GoTyped DEF ChatCalls, TypeOK
<1>6. CASE Collect(q)
  <2>1. tools' \in [Requests -> [waiting : 0..MaxCalls, active : 0..MaxParallel,
                                 timeout : BOOLEAN]]
    BY <1>6, SessionsAssumption DEF Collect, LeaveTools, TypeOK
  <2> QED BY <1>6, <2>1, ReturnTyped DEF Collect, LeaveTools
<1>7. CASE Leave(q)
  <2>1. /\ done' \subseteq Runs /\ UNCHANGED <<cancelOf, tools, expired, canceller>>
        /\ registry' \in [NamedIds \cup FreshIds -> Runs \cup {None}]
    BY <1>7, RunTyped DEF Leave, TypeOK
  <2>2. PICK pc \in {"backoff", "answered"} :
          /\ request' = [request EXCEPT ![q].pc = pc]
          /\ pc = "backoff" => request[q].attempt < MaxAttempts
    BY <1>7 DEF Leave, Answer
  <2> DEFINE r == [request[q] EXCEPT !.pc = pc]
  <2>3. r \in Caller /\ (r.pc = "backoff" => r.attempt < MaxAttempts)
    BY <1>0, <2>2 DEF Caller
  <2>4. request' = [request EXCEPT ![q] = r]
    BY <2>2
  <2> HIDE DEF r
  <2> QED BY <2>1, <2>3, <2>4, CallerTyped DEF TypeOK
<1>8. CASE Retry(q)
  <2> DEFINE r == [request[q] EXCEPT !.pc = "new", !.attempt = @ + 1, !.step = 0]
  <2>1. request[q].attempt + 1 \in 1..MaxAttempts /\ 0 \in 0..(MaxSteps - 1)
    BY <1>0, <1>8, SessionsAssumption DEF Retry, TypeOK, Caller
  <2>2. r \in Caller /\ r.pc # "backoff"
    BY <1>0, <2>1 DEF Caller
  <2>3. request' = [request EXCEPT ![q] = r]
    BY <1>8 DEF Retry
  <2> HIDE DEF r
  <2> QED BY <1>8, <2>2, <2>3, CallerTyped DEF Retry, TypeOK
<1> QED BY <1>1, <1>2, <1>3, <1>4, <1>5, <1>6, <1>7, <1>8 DEF RunStep

LEMMA TypeRest ==
  /\ \A q \in Requests :
       TypeOK /\ (ToolStep(q) \/ ToolTimeout(q) \/ ContextDone(q)) => TypeOK'
  /\ \A c \in Cancellers : TypeOK /\ CancelStep(c) => TypeOK'
<1>1. ASSUME NEW q \in Requests, TypeOK,
             ToolStep(q) \/ ToolTimeout(q) \/ ContextDone(q)
      PROVE  TypeOK'
  <2> DEFINE Tools == [waiting : 0..MaxCalls, active : 0..MaxParallel,
                       timeout : BOOLEAN]
  <2>1. tools[q] \in Tools
    BY <1>1 DEF TypeOK
  <2>2. ASSUME NEW t \in Tools, tools' = [tools EXCEPT ![q] = t],
               UNCHANGED <<registry, cancelOf, request, done, expired, canceller>>
        PROVE  TypeOK'
    BY <1>1, <2>2 DEF TypeOK
  <2>3. CASE ToolStart(q)
    <3> DEFINE t == [tools[q] EXCEPT !.waiting = @ - 1, !.active = @ + 1]
    <3>1. /\ tools[q].waiting - 1 \in 0..MaxCalls
          /\ tools[q].active + 1 \in 0..MaxParallel
      BY <2>1, <2>3, SessionsAssumption DEF ToolStart
    <3>2. t \in Tools
      BY <2>1, <3>1
    <3>3. tools' = [tools EXCEPT ![q] = t]
      BY <2>3 DEF ToolStart
    <3> HIDE DEF t
    <3> QED BY <2>2, <2>3, <3>2, <3>3 DEF ToolStart
  <2>4. CASE ToolSkipped(q)
    <3> DEFINE t == [tools[q] EXCEPT !.waiting = @ - 1]
    <3>1. t \in Tools
      BY <2>1, <2>4, SessionsAssumption DEF ToolSkipped
    <3>2. tools' = [tools EXCEPT ![q] = t]
      BY <2>4 DEF ToolSkipped
    <3> HIDE DEF t
    <3> QED BY <2>2, <2>4, <3>1, <3>2 DEF ToolSkipped
  <2>5. CASE ToolReturns(q)
    <3> DEFINE t == [tools[q] EXCEPT !.active = @ - 1]
    <3>1. t \in Tools
      BY <2>1, <2>5, SessionsAssumption DEF ToolReturns
    <3>2. tools' = [tools EXCEPT ![q] = t]
      BY <2>5 DEF ToolReturns
    <3> HIDE DEF t
    <3> QED BY <2>2, <2>5, <3>1, <3>2 DEF ToolReturns
  <2>6. CASE ToolTimeout(q)
    <3> DEFINE t == [tools[q] EXCEPT !.timeout = TRUE]
    <3>1. t \in Tools
      BY <2>1
    <3>2. tools' = [tools EXCEPT ![q] = t]
      BY <2>6 DEF ToolTimeout
    <3> HIDE DEF t
    <3> QED BY <2>2, <2>6, <3>1, <3>2 DEF ToolTimeout
  <2>7. CASE ContextDone(q)
    BY <1>1, <2>7 DEF ContextDone, TypeOK
  <2> QED BY <1>1, <2>3, <2>4, <2>5, <2>6, <2>7 DEF ToolStep
<1>2. ASSUME NEW c \in Cancellers, TypeOK, CancelStep(c) PROVE TypeOK'
  <2>1. CASE CancelLook(c)
    BY <1>2, <2>1 DEF CancelLook, TypeOK
  <2>2. CASE CancelTake(c)
    <3>1. canceller[c].target \in Runs
      BY <1>2, <2>2 DEF CancelTake, TypeOK
    <3>2. cancelOf[canceller[c].target] \in Runs \cup {None}
      BY <1>2, <3>1 DEF TypeOK
    <3> QED BY <1>2, <2>2, <3>1, <3>2 DEF CancelTake, TypeOK
  <2>3. CASE CancelCall(c)
    BY <1>2, <2>3 DEF CancelCall, TypeOK
  <2> QED BY <1>2, <2>1, <2>2, <2>3 DEF CancelStep
<1> QED BY <1>1, <1>2

LEMMA TypeStep == TypeOK /\ [Next]_vars => TypeOK'
<1>1. TypeOK /\ UNCHANGED vars => TypeOK'
  BY DEF TypeOK, vars
<1> QED BY <1>1, TypeRun, TypeRest DEF Next

\* The variables of the agent's runs keep their types, whatever the numbers of
\* requests, steps, calls and attempts.
THEOREM SessionsTyped == Spec => []TypeOK
BY TypeInit, TypeStep, PTL DEF Spec

-----------------------------------------------------------------------------
(* Every live run can still be cancelled.                                  *)

Reachable(q) ==
  \/ Cancelled(q) \/ Held(q)
  \/ request[q].session # None /\ cancelOf[request[q].session] = Run(q)

LEMMA Reachability ==
  RunsAreCancellable <=> \A q \in Requests : Live(q) => Reachable(q)
BY DEF RunsAreCancellable, Reachable

\* A step that takes no Cancel away and ends no pars_control call leaves the
\* requests it does not move reachable.
LEMMA ReachableKept ==
  ASSUME NEW q \in Requests, Reachable(q),
         UNCHANGED <<cancelOf, canceller>>, done \subseteq done',
         expired \subseteq expired', request'[q].attempt = request[q].attempt,
         request'[q].session = request[q].session
  PROVE  Reachable(q)'
BY DEF Reachable, Cancelled, Held, Run

\* A step of one request that goes on inside its run or leaves it.
LEMMA MoveKept ==
  ASSUME TypeOK, RunsAreCancellable, NEW q \in Requests,
         \A p \in Requests \ {q} : request'[p] = request[p],
         Live(q)' => /\ Live(q)
                     /\ request'[q].attempt = request[q].attempt
                     /\ request'[q].session = request[q].session,
         UNCHANGED <<cancelOf, canceller>>, done \subseteq done',
         expired \subseteq expired'
  PROVE  RunsAreCancellable'
<1>1. ASSUME NEW p \in Requests, Live(p)' PROVE Reachable(p)'
  <2>1. /\ Live(p) /\ request'[p].attempt = request[p].attempt
        /\ request'[p].session = request[p].session
    BY <1>1 DEF Live
  <2>2. Reachable(p)
    BY <2>1, Reachability
  <2> QED BY <2>1, <2>2, ReachableKept
<1> QED BY <1>1 DEF RunsAreCancellable, Reachable

LEMMA BeginKept ==
  ASSUME TypeOK, RunsAreCancellable, NEW q \in Requests, Begin(q)
  PROVE  RunsAreCancellable'
<1> DEFINE i == request[q].id
           o == IF i \in FreshIds \/ registry[i] = None THEN Run(q)
                                                        ELSE registry[i]
<1>1. request[q] \in Caller
  BY DEF TypeOK
<1>2. o \in Runs /\ Run(q) \in Runs /\ o # None
  BY <1>1, RunTyped, NoneIsNoRun DEF TypeOK, Caller
<1>3. /\ request' = [request EXCEPT ![q].pc = "plan", ![q].session = o]
      /\ done' = done \cup ({cancelOf[o]} \ {None})
      /\ cancelOf' = [cancelOf EXCEPT ![o] = Run(q)]
      /\ UNCHANGED <<expired, canceller>>
  BY DEF Begin
<1> HIDE DEF i, o
<1>4. Reachable(q)'
  <2>1. request'[q].session = o /\ request'[q].attempt = request[q].attempt
    BY <1>1, <1>3 DEF TypeOK, Caller
  <2>2. cancelOf'[o] = Run(q)
    BY <1>2, <1>3 DEF TypeOK
  <2> QED BY <1>2, <2>1, <2>2 DEF Reachable, Run
<1>5. ASSUME NEW p \in Requests \ {q}, Live(p)' PROVE Reachable(p)'
  <2>1. request'[p] = request[p]
    BY <1>3 DEF TypeOK
  <2>2. Reachable(p) /\ Run(p) \in Runs
    BY <1>5, <2>1, Reachability, RunTyped DEF Live
  <2>3. CASE Cancelled(p) \/ Held(p)
    <3>1. Run(p)' = Run(p) /\ done \subseteq done'
      BY <1>3, <2>1 DEF Run
    <3>2. Cancelled(p) => Cancelled(p)'
      BY <1>3, <3>1 DEF Cancelled
    <3>3. Held(p) => Held(p)'
      BY <1>3, <3>1 DEF Held
    <3> QED BY <2>3, <3>2, <3>3 DEF Reachable
  <2>4. CASE request[p].session # None /\ cancelOf[request[p].session] = Run(p)
    <3>1. CASE request[p].session = o
      <4>1. Run(p) \in done'
        BY <1>3, <2>2, <2>4, <3>1, NoneIsNoRun
      <4> QED BY <2>1, <4>1 DEF Reachable, Cancelled, Run
    <3>2. CASE request[p].session # o
      <4>1. cancelOf'[request[p].session] = Run(p)
        BY <1>1, <1>3, <2>4, <3>2 DEF TypeOK, Caller
      <4> QED BY <2>1, <2>4, <4>1 DEF Reachable, Run
    <3> QED BY <3>1, <3>2
  <2> QED BY <2>2, <2>3, <2>4 DEF Reachable
<1> QED BY <1>4, <1>5 DEF RunsAreCancellable, Reachable

LEMMA CancelKept ==
  ASSUME TypeOK, RunsAreCancellable, NEW c \in Cancellers, CancelStep(c)
  PROVE  RunsAreCancellable'
<1>1. ASSUME NEW q \in Requests, Live(q)' PROVE Reachable(q)'
  <2>1. UNCHANGED <<request, expired>> /\ done \subseteq done'
    BY DEF CancelStep, CancelLook, CancelTake, CancelCall
  <2>2. Reachable(q) /\ Run(q)' = Run(q) /\ Run(q) \in Runs
    BY <1>1, <2>1, Reachability, RunTyped DEF Live, Run
  <2>3. CASE Cancelled(q)
    BY <2>1, <2>2, <2>3 DEF Reachable, Cancelled
  <2>4. CASE CancelLook(c)
    <3>1. UNCHANGED cancelOf
      BY <2>4 DEF CancelLook
    <3>2. Held(q) => Held(q)'
      BY <2>2, <2>4 DEF CancelLook, Held, TypeOK
    <3> QED BY <2>1, <2>2, <2>3, <3>1, <3>2 DEF Reachable
  <2>5. CASE CancelTake(c)
    <3> DEFINE o == canceller[c].target
    <3>1. /\ canceller' = [canceller EXCEPT ![c] = [pc |-> "call",
                                                     target |-> cancelOf[o]]]
          /\ cancelOf' = [cancelOf EXCEPT ![o] = None]
          /\ canceller[c].pc = "take"
      BY <2>5 DEF CancelTake
    <3>2. Held(q) => Held(q)'
      BY <2>2, <3>1 DEF Held, TypeOK
    <3>3. ASSUME request[q].session # None, cancelOf[request[q].session] = Run(q)
          PROVE  Held(q)' \/ cancelOf'[request[q].session] = Run(q)
      <4>1. CASE request[q].session = o
        <5>1. canceller'[c] = [pc |-> "call", target |-> Run(q)]
          BY <3>1, <3>3, <4>1 DEF TypeOK
        <5> QED BY <2>2, <5>1 DEF Held
      <4>2. CASE request[q].session # o
        BY <3>1, <3>3, <4>2 DEF TypeOK, Caller
      <4> QED BY <4>1, <4>2
    <3> QED BY <2>1, <2>2, <2>3, <3>2, <3>3 DEF Reachable
  <2>6. CASE CancelCall(c)
    <3>1. UNCHANGED cancelOf
      BY <2>6 DEF CancelCall
    <3>2. Held(q) => Held(q)' \/ Run(q) \in done'
      BY <2>2, <2>6, NoneIsNoRun DEF CancelCall, Held, TypeOK
    <3> QED BY <2>1, <2>2, <2>3, <3>1, <3>2 DEF Reachable, Cancelled
  <2> QED BY <2>4, <2>5, <2>6 DEF CancelStep
<1> QED BY <1>1 DEF RunsAreCancellable, Reachable

LEMMA CancellableStep ==
  TypeOK /\ RunsAreCancellable /\ [Next]_vars => RunsAreCancellable'
<1> SUFFICES ASSUME TypeOK, RunsAreCancellable, [Next]_vars
             PROVE  RunsAreCancellable'
  OBVIOUS
<1>1. ASSUME NEW q \in Requests, RunStep(q), ~Begin(q)
      PROVE  RunsAreCancellable'
  <2>1. /\ \A p \in Requests \ {q} : request'[p] = request[p]
        /\ UNCHANGED <<cancelOf, canceller, expired>> /\ done \subseteq done'
    BY <1>1
    DEF RunStep, Plan, HeadCancelled, HeadTimer, ChatFails, ChatTalks,
        ChatCalls, Collect, Leave, Retry, LeaveTools, Answer, Return, NextStep,
        Go, TypeOK
  <2>2. Live(q)' => /\ Live(q)
                    /\ request'[q].attempt = request[q].attempt
                    /\ request'[q].session = request[q].session
    <3>0. request[q] \in Caller /\ request \in [Requests -> Caller]
      BY DEF TypeOK
    <3>1. CASE Leave(q) \/ Retry(q)
      <4>1. CASE Leave(q)
        <5>1. PICK pc \in {"backoff", "answered"} :
                request' = [request EXCEPT ![q].pc = pc]
          BY <4>1 DEF Leave, Answer
        <5>2. request'[q].pc = pc
          BY <3>0, <5>1 DEF Caller
        <5> QED BY <5>2 DEF Live
      <4>2. CASE Retry(q)
        <5>1. request' = [request EXCEPT ![q] =
                [request[q] EXCEPT !.pc = "new", !.attempt = @ + 1, !.step = 0]]
          BY <4>2 DEF Retry
        <5>2. request'[q].pc = "new"
          BY <3>0, <5>1 DEF Caller
        <5> QED BY <5>2 DEF Live
      <4> QED BY <3>1, <4>1, <4>2
    <3>2. CASE Plan(q) \/ HeadTimer(q) \/ ChatCalls(q)
      BY <3>2 DEF Plan, HeadTimer, ChatCalls, Go, Live, TypeOK, Caller
    <3>3. ASSUME NEW f, Return(q, f) PROVE ~Live(q)'
      BY <3>3 DEF Return, Live, TypeOK, Caller
    <3>4. CASE NextStep(q) /\ Live(q)
      <4>1. CASE request[q].step + 1 < MaxSteps
        <5>1. request' = [request EXCEPT ![q] =
                [request[q] EXCEPT !.pc = "head", !.step = @ + 1]]
          BY <3>4, <4>1 DEF NextStep
        <5>2. /\ request'[q].attempt = request[q].attempt
              /\ request'[q].session = request[q].session
          BY <3>0, <5>1 DEF Caller
        <5> QED BY <3>4, <5>2
      <4>2. CASE ~(request[q].step + 1 < MaxSteps)
        BY <3>3, <3>4, <4>2 DEF NextStep
      <4> QED BY <4>1, <4>2
    <3> QED BY <1>1, <3>1, <3>2, <3>3, <3>4
            DEF RunStep, HeadCancelled, ChatFails, ChatTalks, Collect,
                LeaveTools, Live
  <2> QED BY <2>1, <2>2, MoveKept
<1>2. ASSUME NEW q \in Requests, ToolStep(q) \/ ToolTimeout(q) \/ ContextDone(q)
      PROVE  RunsAreCancellable'
  <2>1. /\ UNCHANGED <<request, cancelOf, canceller, done>>
        /\ expired \subseteq expired'
    BY <1>2
    DEF ToolStep, ToolStart, ToolSkipped, ToolReturns, ToolTimeout, ContextDone
  <2> QED BY <2>1, MoveKept DEF Live
<1>3. CASE UNCHANGED vars
  BY <1>3 DEF vars, RunsAreCancellable, Live, Cancelled, Held, Run
<1> QED BY <1>1, <1>2, <1>3, BeginKept, CancelKept DEF Next

\* No run slips away from being cancelled, for any number of concurrent
\* requests, sessions, attempts and pars_control calls.
THEOREM EveryRunCancellable == Spec => []RunsAreCancellable
<1>1. Init => TypeOK /\ RunsAreCancellable
  BY TypeInit DEF Init, RunsAreCancellable, Live
<1>2. TypeOK /\ RunsAreCancellable /\ [Next]_vars =>
        (TypeOK /\ RunsAreCancellable)'
  BY TypeStep, CancellableStep
<1> QED BY <1>1, <1>2, PTL DEF Spec

-----------------------------------------------------------------------------
(* The sessions of alerts                                                  *)

\* A session registered under an alert's id was made by a run of that id,
\* which has not ended.
AlertHeld(i) ==
  registry[i] # None =>
    LET q == registry[i][1] IN
      /\ request[q].id = i
      /\ Live(q) \/ request[q].pc = "leaving"

AlertsHeld == \A i \in AlertIds : AlertHeld(i)

LEMMA AlertIsNamed ==
  ASSUME NEW i \in AlertIds
  PROVE  i \in NamedIds /\ i \notin FreshIds /\ i \notin WhatsAppIds
BY SessionsAssumption

\* A step of q that keeps it in its run, or does not concern the run that holds
\* the entry.
LEMMA AlertKept ==
  ASSUME TypeOK, NEW i \in AlertIds, AlertHeld(i), registry'[i] = registry[i],
         \A p \in Requests :
           \/ request'[p] = request[p]
           \/ /\ request'[p].id = request[p].id
              /\ Live(p)' \/ request'[p].pc = "leaving"
  PROVE  AlertHeld(i)'
<1> SUFFICES ASSUME registry[i] # None PROVE AlertHeld(i)'
  BY DEF AlertHeld
<1>1. registry[i] \in Runs
  BY AlertIsNamed DEF TypeOK
<1>2. registry[i][1] \in Requests
  BY <1>1 DEF Runs
<1> QED BY <1>2 DEF AlertHeld, Live

LEMMA AlertsRun ==
  ASSUME TypeOK, AlertsHeld, NEW q \in Requests, RunStep(q)
  PROVE  AlertsHeld'
<1> SUFFICES ASSUME NEW i \in AlertIds PROVE AlertHeld(i)'
  BY DEF AlertsHeld
<1>0. /\ request \in [Requests -> Caller] /\ request[q] \in Caller
      /\ AlertHeld(i) /\ i \in NamedIds /\ i \notin FreshIds
      /\ registry \in [NamedIds \cup FreshIds -> Runs \cup {None}]
  BY AlertIsNamed DEF TypeOK, AlertsHeld
<1>1. CASE Begin(q)
  <2> DEFINE o == IF request[q].id \in FreshIds \/ registry[request[q].id] = None
                  THEN Run(q) ELSE registry[request[q].id]
  <2>1. /\ request' = [request EXCEPT ![q] =
                [request[q] EXCEPT !.pc = "plan", !.session = o]]
        /\ registry' = [registry EXCEPT ![request[q].id] = o]
    BY <1>1 DEF Begin
  <2>2. request'[q].pc = "plan" /\ request'[q].id = request[q].id
    BY <1>0, <2>1 DEF Caller
  <2>3. \A p \in Requests \ {q} : request'[p] = request[p]
    BY <1>0, <2>1
  <2>4. CASE registry'[i] = registry[i]
    BY <1>0, <2>2, <2>3, <2>4, AlertKept DEF Live
  <2>5. CASE registry'[i] # registry[i]
    <3>1. request[q].id = i /\ registry'[i] = o
      BY <1>0, <2>1, <2>5
    <3>2. registry'[i] = Run(q)
      BY <1>0, <2>5, <3>1
    <3>3. registry'[i][1] = q
      BY <3>2 DEF Run
    <3> QED BY <2>2, <3>1, <3>3 DEF AlertHeld, Live
  <2> QED BY <2>4, <2>5
<1>2. ASSUME \/ Go(q, "head") \/ Go(q, "chat") \/ Go(q, "tools")
             \/ NextStep(q) \/ \E f \in BOOLEAN : Return(q, f),
             registry' = registry
      PROVE  AlertHeld(i)'
  <2>1. ASSUME NEW r \in Caller, request' = [request EXCEPT ![q] = r],
               r.id = request[q].id,
               r.pc \in {"head", "chat", "tools", "leaving"}
        PROVE  AlertHeld(i)'
    BY <1>0, <1>2, <2>1, AlertKept DEF Live
  <2>2. ASSUME NEW pc \in {"head", "chat", "tools"}, Go(q, pc)
        PROVE  AlertHeld(i)'
    <3>1. LET r == [request[q] EXCEPT !.pc = pc]
          IN  r \in Caller /\ r.id = request[q].id /\ r.pc = pc
      BY <1>0 DEF Caller
    <3> QED BY <2>1, <2>2, <3>1 DEF Go
  <2>3. ASSUME NEW f \in BOOLEAN, Return(q, f) PROVE AlertHeld(i)'
    <3>1. LET r == [request[q] EXCEPT !.pc = "leaving", !.failed = f]
          IN  r \in Caller /\ r.id = request[q].id /\ r.pc = "leaving"
      BY <1>0 DEF Caller
    <3> QED BY <2>1, <2>3, <3>1 DEF Return
  <2>4. CASE NextStep(q) /\ request[q].step + 1 < MaxSteps
    <3>1. request[q].step + 1 \in 0..(MaxSteps - 1)
      BY <1>0, <2>4, SessionsAssumption DEF Caller
    <3>2. LET r == [request[q] EXCEPT !.pc = "head", !.step = request[q].step + 1]
          IN  r \in Caller /\ r.id = request[q].id /\ r.pc = "head"
      BY <1>0, <3>1 DEF Caller
    <3> QED BY <2>1, <2>4, <3>2 DEF NextStep
  <2> QED BY <1>2, <2>2, <2>3, <2>4 DEF NextStep
<1>3. CASE Leave(q)
  <2>1. CASE request[q].id = i
    BY <1>0, <1>3, <2>1 DEF Leave, AlertHeld
  <2>2. CASE request[q].id # i
    <3>1. registry'[i] = registry[i]
      BY <1>0, <1>3, <2>2 DEF Leave
    <3>2. \A p \in Requests \ {q} : request'[p] = request[p]
      BY <1>0, <1>3 DEF Leave, Answer
    <3> QED BY <1>0, <2>2, <3>1, <3>2 DEF AlertHeld, Live, Runs
  <2> QED BY <2>1, <2>2
<1>4. CASE Retry(q)
  <2>1. \A p \in Requests \ {q} : request'[p] = request[p]
    BY <1>0, <1>4 DEF Retry
  <2>2. request[q].pc = "backoff" /\ registry' = registry
    BY <1>4 DEF Retry
  <2> QED BY <1>0, <2>1, <2>2 DEF AlertHeld, Live, Runs
<1> QED BY <1>1, <1>2, <1>3, <1>4
        DEF RunStep, Plan, HeadCancelled, HeadTimer, ChatFails, ChatTalks,
            ChatCalls, Collect, LeaveTools

\* The session of an alert is in the registry no longer than the run that made
\* it is at work, whatever other runs of the id come and go meanwhile.
THEOREM AlertSessionsRemoved == Spec => []AlertsLeaveNothing
<1>1. Init => AlertsHeld
  BY AlertIsNamed DEF Init, AlertsHeld, AlertHeld
<1>2. TypeOK /\ AlertsHeld /\ [Next]_vars => AlertsHeld'
  <2> SUFFICES ASSUME TypeOK, AlertsHeld, [Next]_vars PROVE AlertsHeld'
    OBVIOUS
  <2>1. ASSUME UNCHANGED <<registry, request>> PROVE AlertsHeld'
    BY <2>1 DEF AlertsHeld, AlertHeld, Live
  <2> QED BY <2>1, AlertsRun
          DEF Next, vars, ToolStep, ToolStart, ToolSkipped, ToolReturns,
              ToolTimeout, ContextDone, CancelStep, CancelLook, CancelTake,
              CancelCall
<1>3. AlertsHeld => AlertsLeaveNothing
  BY DEF AlertsHeld, AlertHeld, AlertsLeaveNothing
<1> QED BY <1>1, <1>2, <1>3, TypeInit, TypeStep, PTL DEF Spec
=============================================================================
