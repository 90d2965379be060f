----------------------------- MODULE IpcStreams -----------------------------
(***************************************************************************)
(* The IPC server of the daemon (internal/ipc/local_api.go): the /stream   *)
(* handlers and the registry of their clients, the /execute handlers with  *)
(* their token pump and timeout monitor, the log hook that runs on the     *)
(* logger's one worker goroutine (internal/core/logger/logger.go) and the  *)
(* shutdown.  Messages are counted, not spelled: what matters is which     *)
(* channel they are sent to and whether that channel is still open.        *)
(***************************************************************************)
EXTENDS Integers, FiniteSets

CONSTANTS
  TaskIds,      \* task_id values of the requests
  Handlers,     \* bound: /stream connections, each with its StreamClient
  Requests,     \* bound: /execute requests
  StreamBuffer, \* MaxStreamBuffer
  MaxSlots,     \* capacity of executionSemaphore
  NoClient

ASSUME StreamAssumption ==
  /\ StreamBuffer \in Nat \ {0} /\ MaxSlots \in Nat \ {0}
  /\ NoClient \notin Handlers
  /\ IsFiniteSet(Requests)

VARIABLES
  registry,  \* streamClients
  conn,      \* the /stream handlers
  chan,      \* per handler, its client's Chan: messages waiting, and its state
  request,   \* the /execute handlers
  pump,      \* per request, its stream goroutine and the client it holds
  cancelled, \* requests whose streamCtx is cancelled
  slots,     \* places taken in executionSemaphore
  hook,      \* the logger's worker inside the IPC log hook
  listening, \* the HTTP server accepts connections
  phase,     \* how far StartServer has come after the daemon's context is done
  panicked   \* a goroutine without recover has panicked: the daemon is gone

streamVars  == <<registry, conn, chan>>
executeVars == <<request, pump, cancelled, slots>>
serverVars  == <<listening, phase>>
vars == <<streamVars, executeVars, hook, serverVars, panicked>>

Idle == [pc |-> "idle", target |-> NoClient]

Init ==
  /\ registry = [t \in TaskIds |-> NoClient]
  /\ conn \in [Handlers -> [pc : {"new"}, task : TaskIds]]
  /\ chan = [h \in Handlers |-> [waiting |-> 0, state |-> "open"]]
  /\ request \in [Requests -> [pc : {"new"}, task : TaskIds,
                               buffered : {0}]]
  /\ pump = [e \in Requests |-> [pc |-> "none", target |-> NoClient]]
  /\ cancelled = {} /\ slots = 0
  /\ hook = Idle /\ listening = TRUE /\ phase = "serving" /\ panicked = FALSE

-----------------------------------------------------------------------------
(* /stream                                                                 *)

\* A client is made and takes the place of whatever the task id named.
OpenStream(h) ==
  /\ conn[h].pc = "new" /\ listening
  /\ registry' = [registry EXCEPT ![conn[h].task] = h]
  /\ conn' = [conn EXCEPT ![h].pc = "open"]
  /\ UNCHANGED <<chan, executeVars, hook, serverVars, panicked>>

\* A message goes out to the connection.
Deliver(h) ==
  /\ conn[h].pc = "open" /\ chan[h].waiting > 0
  /\ chan' = [chan EXCEPT ![h].waiting = @ - 1]
  /\ UNCHANGED <<registry, conn, executeVars, hook, serverVars, panicked>>

\* The peer drops the connection.
Disconnect(h) ==
  /\ conn[h].pc = "open"
  /\ conn' = [conn EXCEPT ![h].pc = "leaving"]
  /\ UNCHANGED <<registry, chan, executeVars, hook, serverVars, panicked>>

\* Mutant: the handler does not watch the daemon's context.
LeaveOnClosedOnly(h) ==
  /\ conn[h].pc = "open"
  /\ chan[h].state = "closed" /\ chan[h].waiting = 0
  /\ conn' = [conn EXCEPT ![h].pc = "leaving"]
  /\ UNCHANGED <<registry, chan, executeVars, hook, serverVars, panicked>>

\* The daemon's context is done, or the client's drained channel is closed.
LeaveStream(h) ==
  /\ conn[h].pc = "open"
  /\ phase # "serving" \/ (chan[h].state = "closed" /\ chan[h].waiting = 0)
  /\ conn' = [conn EXCEPT ![h].pc = "leaving"]
  /\ UNCHANGED <<registry, chan, executeVars, hook, serverVars, panicked>>

\* Mutant: the deferred function closes the client and leaves its entry.
UnregisterForgotten(h) ==
  /\ conn[h].pc = "leaving"
  /\ chan' = [chan EXCEPT ![h].state = "closed"]
  /\ conn' = [conn EXCEPT ![h].pc = "gone"]
  /\ UNCHANGED <<registry, executeVars, hook, serverVars, panicked>>

\* The deferred function deletes the entry of its task id, whoever holds it.
Unregister(h) ==
  /\ conn[h].pc = "leaving"
  /\ registry' = [registry EXCEPT ![conn[h].task] = NoClient]
  /\ conn' = [conn EXCEPT ![h].pc = "unregistered"]
  /\ UNCHANGED <<chan, executeVars, hook, serverVars, panicked>>

\* SafeClose marks the client disconnected, once, before it closes Chan.
Marked(c) == IF c.state = "open" THEN [c EXCEPT !.state = "marked"] ELSE c

SafeClose(h) ==
  /\ conn[h].pc = "unregistered"
  /\ chan' = [chan EXCEPT ![h] = Marked(@)]
  /\ conn' = [conn EXCEPT ![h].pc = "gone"]
  /\ UNCHANGED <<registry, executeVars, hook, serverVars, panicked>>

\* SafeClose, whoever entered it first closes Chan.
CloseChan(h) ==
  /\ chan[h].state = "marked"
  /\ chan' = [chan EXCEPT ![h].state = "closed"]
  /\ UNCHANGED <<registry, conn, executeVars, hook, serverVars, panicked>>

-----------------------------------------------------------------------------
(* /execute                                                                *)

Go(e, pc) == request' = [request EXCEPT ![e].pc = pc]

\* RateLimiter.Allow lets the request in or turns it away: how many came in the
\* last minute is abstracted to a choice.
Arrive(e) ==
  /\ request[e].pc = "new" /\ listening
  /\ Go(e, "queued") \/ Go(e, "done")
  /\ UNCHANGED <<streamVars, pump, cancelled, slots, hook, serverVars, panicked>>

AcquireSlot(e) ==
  /\ request[e].pc = "queued" /\ slots < MaxSlots
  /\ Go(e, "accepted") /\ slots' = slots + 1
  /\ UNCHANGED <<streamVars, pump, cancelled, hook, serverVars, panicked>>

\* Mutant: the deferred release is in place before the slot is taken.
GiveUpQueueReleasing(e) ==
  /\ request[e].pc = "queued"
  /\ Go(e, "done") /\ slots' = slots - 1
  /\ UNCHANGED <<streamVars, pump, cancelled, hook, serverVars, panicked>>

\* The peer drops a request that waits for a slot.
GiveUpQueue(e) ==
  /\ request[e].pc = "queued"
  /\ Go(e, "done")
  /\ UNCHANGED <<streamVars, pump, cancelled, slots, hook, serverVars,
                 panicked>>

\* Mutant: the error return before the deferred release is in place.
RejectBodyKeepingSlot(e) ==
  /\ request[e].pc = "accepted"
  /\ Go(e, "done")
  /\ UNCHANGED <<streamVars, pump, cancelled, slots, hook, serverVars,
                 panicked>>

\* Invalid JSON or an empty prompt.
RejectBody(e) ==
  /\ request[e].pc = "accepted"
  /\ Go(e, "done") /\ slots' = slots - 1
  /\ UNCHANGED <<streamVars, pump, cancelled, hook, serverVars, panicked>>

\* The stream goroutine and the monitor start, and agent.Run is called.
StartRun(e) ==
  /\ request[e].pc = "accepted"
  /\ Go(e, "running")
  /\ pump' = [pump EXCEPT ![e].pc = "receive"]
  /\ UNCHANGED <<streamVars, cancelled, slots, hook, serverVars, panicked>>

\* The provider hands a token to llmStreamChan; it drops it when it is full.
Produce(e) ==
  /\ request[e].pc = "running" /\ request[e].buffered < StreamBuffer
  /\ request' = [request EXCEPT ![e].buffered = @ + 1]
  /\ UNCHANGED <<streamVars, pump, cancelled, slots, hook, serverVars, panicked>>

\* agent.Run returns, an error or a recovered panic included; streamCancel.
RunReturns(e) ==
  /\ request[e].pc = "running"
  /\ Go(e, "draining") /\ cancelled' = cancelled \cup {e}
  /\ UNCHANGED <<streamVars, pump, slots, hook, serverVars, panicked>>

\* The monitor's deadline passes: it stops the stream, not the run.
MonitorTimeout(e) ==
  /\ request[e].pc = "running" /\ e \notin cancelled
  /\ cancelled' = cancelled \cup {e}
  /\ UNCHANGED <<streamVars, request, pump, slots, hook, serverVars,
                 panicked>>

\* The stream goroutine has ended, or five seconds have passed; both
\* channels of the request are closed.
CloseChannels(e) ==
  /\ request[e].pc = "draining"
  /\ Go(e, "closed")
  /\ UNCHANGED <<streamVars, pump, cancelled, slots, hook, serverVars,
                 panicked>>

Respond(e) ==
  /\ request[e].pc = "closed"
  /\ Go(e, "done") /\ slots' = slots - 1
  /\ UNCHANGED <<streamVars, pump, cancelled, hook, serverVars, panicked>>

-----------------------------------------------------------------------------
(* The stream goroutine of a request                                       *)

PumpGo(e, pc, target) == pump' = [pump EXCEPT ![e] = [pc |-> pc, target |-> target]]

\* Takes a token and looks the task id's client up.
PumpReceive(e) ==
  /\ pump[e].pc = "receive" /\ request[e].buffered > 0
  /\ request' = [request EXCEPT ![e].buffered = @ - 1]
  /\ PumpGo(e, "check", registry[request[e].task])
  /\ UNCHANGED <<streamVars, cancelled, slots, hook, serverVars, panicked>>

\* IsDisconnected; the activity signal to the monitor panics once its channel
\* is closed, and the goroutine's recover ends it.  filterToolCallJSON may leave
\* nothing of the token to send.
PumpCheck(e) ==
  /\ pump[e].pc = "check"
  /\ LET c == pump[e].target IN
       IF c = NoClient \/ chan[c].state # "open" THEN PumpGo(e, "receive", NoClient)
       ELSE IF request[e].pc \in {"closed", "done"} THEN PumpGo(e, "ended", NoClient)
       ELSE PumpGo(e, "send", c) \/ PumpGo(e, "receive", NoClient)
  /\ UNCHANGED <<streamVars, request, cancelled, slots, hook, serverVars,
                 panicked>>

\* sendToChannel, at once and again after its delay: the token goes through,
\* is dropped on the second full channel, or the send panics on a closed one.
PumpSend(e) ==
  /\ pump[e].pc \in {"send", "resend"}
  /\ LET c == pump[e].target IN
       IF chan[c].state = "closed"
       THEN PumpGo(e, "ended", NoClient) /\ UNCHANGED chan
       ELSE IF chan[c].waiting < StreamBuffer
       THEN /\ PumpGo(e, "receive", NoClient)
            /\ chan' = [chan EXCEPT ![c].waiting = @ + 1]
       ELSE /\ IF pump[e].pc = "send" THEN PumpGo(e, "resend", c)
                                      ELSE PumpGo(e, "receive", NoClient)
            /\ UNCHANGED chan
  /\ UNCHANGED <<registry, conn, request, cancelled, slots, hook,
                 serverVars, panicked>>

\* streamCtx is cancelled, or llmStreamChan is closed and drained.
PumpEnd(e) ==
  /\ pump[e].pc = "receive"
  /\ \/ e \in cancelled
     \/ request[e].pc \in {"closed", "done"} /\ request[e].buffered = 0
  /\ PumpGo(e, "ended", NoClient)
  /\ UNCHANGED <<streamVars, request, cancelled, slots, hook, serverVars,
                 panicked>>

-----------------------------------------------------------------------------
(* The log hook, on the logger's worker goroutine                          *)

\* A log line tagged with a task id; the clients are copied under streamMu.
HookCopy ==
  /\ hook = Idle /\ phase = "serving"
  /\ \E t \in TaskIds : /\ registry[t] # NoClient
                        /\ hook' = [pc |-> "check", target |-> registry[t]]
  /\ UNCHANGED <<streamVars, executeVars, serverVars, panicked>>

HookCheck ==
  /\ hook.pc = "check"
  /\ hook' = IF chan[hook.target].state = "open"
             THEN [hook EXCEPT !.pc = "send"] ELSE Idle
  /\ UNCHANGED <<streamVars, executeVars, serverVars, panicked>>

\* The send waits for room, line by line of the message; on a closed channel it panics, with no recover.
HookSend ==
  /\ hook.pc = "send"
  /\ \/ /\ chan[hook.target].state # "closed"
        /\ chan[hook.target].waiting < StreamBuffer
        /\ chan' = [chan EXCEPT ![hook.target].waiting = @ + 1]
        /\ hook' \in {hook, Idle} /\ UNCHANGED panicked
     \/ /\ chan[hook.target].state = "closed"
        /\ panicked' = TRUE /\ UNCHANGED <<chan, hook>>
  /\ UNCHANGED <<registry, conn, executeVars, serverVars>>

\* Mutant: a client that does not keep up is taken out.
HookGiveUpDropping ==
  /\ hook.pc = "send"
  /\ chan[hook.target].state # "closed"
  /\ chan[hook.target].waiting = StreamBuffer
  /\ registry' = [registry EXCEPT ![conn[hook.target].task] = NoClient]
  /\ hook' = Idle
  /\ UNCHANGED <<conn, chan, executeVars, serverVars, panicked>>

\* The line is dropped after 100 ms on a full channel.
HookGiveUp ==
  /\ hook.pc = "send"
  /\ chan[hook.target].state # "closed"
  /\ chan[hook.target].waiting = StreamBuffer
  /\ hook' = Idle
  /\ UNCHANGED <<streamVars, executeVars, serverVars, panicked>>

-----------------------------------------------------------------------------
(* Shutdown                                                                *)

\* StopServer, which the runner calls first: no handler starts from here on.
StopServer ==
  /\ listening /\ listening' = FALSE
  /\ UNCHANGED <<streamVars, executeVars, hook, phase, panicked>>

\* The daemon's context is cancelled and the log hook removed.
StopServing ==
  /\ phase = "serving" /\ phase' = "stopping"
  /\ UNCHANGED <<streamVars, executeVars, hook, listening, panicked>>

\* Every registered client is closed and the registry emptied, under streamMu.
CloseClients ==
  /\ phase = "stopping" /\ phase' = "emptied"
  /\ LET held == {registry[t] : t \in TaskIds} IN
       chan' = [h \in Handlers |-> IF h \in held THEN Marked(chan[h]) ELSE chan[h]]
  /\ registry' = [t \in TaskIds |-> NoClient]
  /\ UNCHANGED <<conn, executeVars, hook, listening, panicked>>

\* server.Shutdown, whether or not StopServer came before.
CloseListener ==
  /\ phase = "emptied" /\ phase' = "closed"
  /\ listening' = FALSE
  /\ UNCHANGED <<streamVars, executeVars, hook, panicked>>

StreamHandler(h) ==
  \/ OpenStream(h) \/ Deliver(h) \/ Disconnect(h) \/ LeaveStream(h)
  \/ Unregister(h) \/ SafeClose(h) \/ CloseChan(h)
ExecuteHandler(e) ==
  \/ RejectBody(e) \/ StartRun(e) \/ RunReturns(e)
  \/ CloseChannels(e) \/ Respond(e)
Pump(e) == PumpReceive(e) \/ PumpCheck(e) \/ PumpSend(e) \/ PumpEnd(e)
Hook == HookCopy \/ HookCheck \/ HookSend \/ HookGiveUp

Next ==
  /\ ~panicked
  /\ \/ \E h \in Handlers : StreamHandler(h)
     \/ \E e \in Requests : \/ Arrive(e) \/ AcquireSlot(e) \/ GiveUpQueue(e)
                            \/ ExecuteHandler(e) \/ Produce(e) \/ MonitorTimeout(e)
                            \/ Pump(e)
     \/ Hook \/ StopServer \/ StopServing \/ CloseClients
     \/ CloseListener

\* A handler and its goroutines are scheduled while they can move, a run of the
\* agent ends, and a slot that stays free is taken.  The peers' moves, the log
\* lines, the tokens and the shutdown are not assumed to come.
Fairness ==
  /\ \A h \in Handlers :
       WF_vars(~panicked /\ (LeaveStream(h) \/ Unregister(h) \/ SafeClose(h)
                              \/ CloseChan(h)))
  /\ \A e \in Requests : /\ WF_vars(~panicked /\ AcquireSlot(e))
                         /\ WF_vars(~panicked /\ ExecuteHandler(e))
                         /\ WF_vars(~panicked /\ Pump(e))

Spec == Init /\ [][Next]_vars /\ Fairness

-----------------------------------------------------------------------------
(* Properties                                                              *)

TypeOK ==
  /\ registry \in [TaskIds -> Handlers \cup {NoClient}]
  /\ conn \in [Handlers -> [pc : {"new", "open", "leaving", "unregistered",
                                  "gone"},
                            task : TaskIds]]
  /\ chan \in [Handlers -> [waiting : 0..StreamBuffer,
                            state : {"open", "marked", "closed"}]]
  /\ request \in [Requests -> [pc : {"new", "queued", "accepted", "running",
                                     "draining", "closed", "done"},
                               task : TaskIds,
                               buffered : 0..StreamBuffer]]
  /\ pump \in [Requests -> [pc : {"none", "receive", "check", "send", "resend",
                                  "ended"},
                            target : Handlers \cup {NoClient}]]
  /\ \A e \in Requests :
       pump[e].pc \in {"send", "resend"} => pump[e].target \in Handlers
  /\ cancelled \subseteq Requests
  /\ slots \in 0..MaxSlots
  /\ hook \in [pc : {"check", "send"}, target : Handlers] \cup {Idle}
  /\ listening \in BOOLEAN
  /\ phase \in {"serving", "stopping", "emptied", "closed"} /\ panicked \in BOOLEAN

\* A client found in the registry is open when it is found: the pump and the
\* log hook race with its closing only after they have let the lock go, also
\* when a reconnected client has taken the entry over or lost it again.
RegisteredIsOpen ==
  \A t \in TaskIds :
    registry[t] # NoClient => /\ chan[registry[t]].state = "open"
                              /\ conn[registry[t]].task = t
                              /\ conn[registry[t]].pc \in {"open", "leaving"}

\* A connection that is in the registry leaves it when its own handler leaves or
\* the daemon shuts down.  Before that it loses its entry, and with it all that
\* is streamed to its task id, in one way only: a namesake, another connection
\* of the id, registers after it or leaves after it has been replaced.  Neither
\* a full channel nor a send that fails nor the end of a run takes it out.
EntryLostToNamesakeOnly ==
  [][\A h \in Handlers :
       LET t == conn[h].task
       IN  registry[t] = h /\ registry'[t] # h =>
             \/ conn[h].pc = "leaving"
             \/ phase = "stopping"
             \/ \E g \in Handlers \ {h} : conn[g].task = t /\ conn'[g].pc # conn[g].pc]_vars

\* The semaphore counts the requests between its acquisition and the end of
\* their handler, on every path out of it.
SlotsAccurate ==
  slots = Cardinality({e \in Requests : request[e].pc \in
                         {"accepted", "running", "draining", "closed"}})

\* A request that was not refused is answered, whether or not anybody streams,
\* a stream goroutine dies on a closed client or the monitor stops the stream.
Answered ==
  \A e \in Requests :
    request[e].pc = "queued" ~> request[e].pc = "done" \/ panicked

\* Once the clients are closed every stream handler ends: the ones whose client
\* a newer connection had replaced in the registry, and the ones that register
\* after the registry was emptied, included.
StreamsEndAtShutdown ==
  \A h \in Handlers :
    phase = "emptied" /\ conn[h].pc = "open" ~> conn[h].pc = "gone" \/ panicked

\* "Böylece WhatsApp/Client timeout verip bağlantıyı koparsa bile Pars görevini
\* arka planda bitirir" (local_api.go): a peer that drops its connection does
\* not take the daemon, and with it every run, down.
RunsSurviveDisconnect == ~panicked
=============================================================================
