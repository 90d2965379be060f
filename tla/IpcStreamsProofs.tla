-------------------------- MODULE IpcStreamsProofs --------------------------
(***************************************************************************)
(* Theorems about IpcStreams, for every value of its constants: any number *)
(* of connections and requests, any buffer and any number of slots.        *)
(***************************************************************************)
EXTENDS IpcStreams, FiniteSetTheorems, TLAPS

ConnPcs    == {"new", "open", "leaving", "unregistered", "gone"}
RequestPcs == {"new", "queued", "accepted", "running", "draining", "closed",
               "done"}
PumpPcs    == {"none", "receive", "check", "send", "resend", "ended"}

Conn    == [pc : ConnPcs, task : TaskIds]
Channel == [waiting : 0..StreamBuffer, state : {"open", "marked", "closed"}]
Asked   == [pc : RequestPcs, task : TaskIds, buffered : 0..StreamBuffer]
Pumped  == [pc : PumpPcs, target : Handlers \cup {NoClient}]
Hooked  == [pc : {"check", "send"}, target : Handlers] \cup {Idle}

\* TypeOK, with the sets it is made of named.
LEMMA Typed ==
  TypeOK <=>
    /\ registry \in [TaskIds -> Handlers \cup {NoClient}]
    /\ conn \in [Handlers -> Conn]
    /\ chan \in [Handlers -> Channel]
    /\ request \in [Requests -> Asked]
    /\ pump \in [Requests -> Pumped]
    /\ \A e \in Requests :
         pump[e].pc \in {"send", "resend"} => pump[e].target \in Handlers
    /\ cancelled \subseteq Requests
    /\ slots \in 0..MaxSlots
    /\ hook \in Hooked
    /\ listening \in BOOLEAN
    /\ phase \in {"serving", "stopping", "emptied", "closed"}
    /\ panicked \in BOOLEAN
BY DEF TypeOK, Conn, Channel, Asked, Pumped, Hooked, ConnPcs, RequestPcs,
       PumpPcs

-----------------------------------------------------------------------------
(* The places of the semaphore                                             *)

Holds(pc) == pc \in {"accepted", "running", "draining", "closed"}
Holding   == {e \in Requests : Holds(request[e].pc)}

LEMMA SlotsCountHolding == SlotsAccurate <=> slots = Cardinality(Holding)
BY DEF SlotsAccurate, Holding, Holds

LEMMA HoldingFinite ==
  IsFiniteSet(Holding) /\ Cardinality(Holding) \in Nat
BY StreamAssumption, FS_Subset, FS_CardinalityType DEF Holding

\* A request that goes to another place of its handler.
LEMMA GoMoves ==
  ASSUME TypeOK, NEW e \in Requests, NEW pc \in RequestPcs, Go(e, pc)
  PROVE  /\ request' \in [Requests -> Asked]
         /\ request'[e].pc = pc
         /\ \A f \in Requests \ {e} : request'[f] = request[f]
<1>1. request \in [Requests -> Asked] /\ request[e] \in Asked
  BY Typed
<1>2. request' = [request EXCEPT ![e] = [request[e] EXCEPT !.pc = pc]]
  BY DEF Go
<1>3. [request[e] EXCEPT !.pc = pc] \in Asked /\ [request[e] EXCEPT !.pc = pc].pc = pc
  BY <1>1 DEF Asked
<1> QED BY <1>1, <1>2, <1>3

\* Taking a place, giving one back and neither, counted.
LEMMA SlotTaken ==
  ASSUME TypeOK, SlotsAccurate, NEW e \in Requests, ~Holds(request[e].pc),
         NEW pc \in RequestPcs, Holds(pc), Go(e, pc),
         slots < MaxSlots, slots' = slots + 1
  PROVE  SlotsAccurate' /\ slots' \in 0..MaxSlots
<1>1. Holding' = Holding \cup {e} /\ e \notin Holding
  BY GoMoves DEF Holding
<1>2. Cardinality(Holding') = Cardinality(Holding) + 1
  BY <1>1, HoldingFinite, FS_AddElement
<1>3. slots' \in 0..MaxSlots
  BY StreamAssumption, Typed
<1> QED BY <1>2, <1>3, SlotsCountHolding DEF SlotsAccurate, Holding, Holds

LEMMA SlotGiven ==
  ASSUME TypeOK, SlotsAccurate, NEW e \in Requests, Holds(request[e].pc),
         NEW pc \in RequestPcs, ~Holds(pc), Go(e, pc), slots' = slots - 1
  PROVE  SlotsAccurate' /\ slots' \in 0..MaxSlots
<1>1. Holding' = Holding \ {e} /\ e \in Holding
  BY GoMoves DEF Holding
<1>2. Cardinality(Holding') = Cardinality(Holding) - 1
  BY <1>1, HoldingFinite, FS_RemoveElement
<1>3. Cardinality(Holding) # 0
  BY <1>1, HoldingFinite, FS_EmptySet
<1>4. slots' \in 0..MaxSlots
  BY <1>3, StreamAssumption, HoldingFinite, SlotsCountHolding, Typed
<1> QED BY <1>2, <1>4, SlotsCountHolding DEF SlotsAccurate, Holding, Holds

LEMMA SlotKept ==
  ASSUME SlotsAccurate, slots' = slots,
         \A e \in Requests : Holds(request'[e].pc) <=> Holds(request[e].pc)
  PROVE  SlotsAccurate'
<1>1. Holding' = Holding
  BY DEF Holding
<1> QED BY <1>1, SlotsCountHolding DEF SlotsAccurate, Holding, Holds

-----------------------------------------------------------------------------
(* Types and places, action by action                                      *)

Counted == TypeOK /\ SlotsAccurate

\* A stream handler moves, and its client's channel stays what it is.
LEMMA ConnMoves ==
  ASSUME TypeOK, NEW h \in Handlers, NEW pc \in ConnPcs,
         conn' = [conn EXCEPT ![h].pc = pc]
  PROVE  /\ conn' \in [Handlers -> Conn]
         /\ conn'[h].pc = pc /\ conn'[h].task = conn[h].task
         /\ \A g \in Handlers \ {h} : conn'[g] = conn[g]
<1>1. conn \in [Handlers -> Conn] /\ conn[h] \in Conn
  BY Typed
<1>2. conn' = [conn EXCEPT ![h] = [conn[h] EXCEPT !.pc = pc]]
  OBVIOUS
<1>3. LET c == [conn[h] EXCEPT !.pc = pc]
      IN  c \in Conn /\ c.pc = pc /\ c.task = conn[h].task
  BY <1>1 DEF Conn
<1> QED BY <1>1, <1>2, <1>3

\* A channel gets another count of messages, or another state.
LEMMA ChanMoves ==
  ASSUME TypeOK, NEW h \in Handlers,
         NEW n \in 0..StreamBuffer, NEW st \in {"open", "marked", "closed"},
         \/ chan' = [chan EXCEPT ![h].waiting = n] /\ st = chan[h].state
         \/ chan' = [chan EXCEPT ![h].state = st]
  PROVE  /\ chan' \in [Handlers -> Channel]
         /\ chan'[h].state = st
         /\ \A g \in Handlers \ {h} : chan'[g] = chan[g]
<1>1. chan \in [Handlers -> Channel] /\ chan[h] \in Channel
  BY Typed
<1>2. CASE chan' = [chan EXCEPT ![h].waiting = n] /\ st = chan[h].state
  <2>1. chan' = [chan EXCEPT ![h] = [chan[h] EXCEPT !.waiting = n]]
    BY <1>2
  <2>2. LET c == [chan[h] EXCEPT !.waiting = n]
        IN  c \in Channel /\ c.state = st
    BY <1>1, <1>2 DEF Channel
  <2> QED BY <1>1, <2>1, <2>2
<1>3. CASE chan' = [chan EXCEPT ![h].state = st]
  <2>1. chan' = [chan EXCEPT ![h] = [chan[h] EXCEPT !.state = st]]
    BY <1>3
  <2>2. LET c == [chan[h] EXCEPT !.state = st]
        IN  c \in Channel /\ c.state = st
    BY <1>1 DEF Channel
  <2> QED BY <1>1, <2>1, <2>2
<1> QED BY <1>2, <1>3

\* SafeClose's mark leaves an open channel marked and any other as it is.
LEMMA MarkedTyped ==
  ASSUME NEW c \in Channel
  PROVE  Marked(c) \in Channel
BY DEF Marked, Channel

\* A step of the /stream handlers, that leaves the requests alone.
LEMMA StreamCounted ==
  ASSUME Counted, UNCHANGED <<request, pump, cancelled, slots, hook>>,
         registry' \in [TaskIds -> Handlers \cup {NoClient}],
         conn' \in [Handlers -> Conn], chan' \in [Handlers -> Channel],
         listening' \in BOOLEAN,
         phase' \in {"serving", "stopping", "emptied", "closed"},
         panicked' \in BOOLEAN
  PROVE  Counted'
<1>1. TypeOK'
  BY Typed DEF Counted, TypeOK, Conn, Channel, ConnPcs
<1>2. SlotsAccurate'
  BY SlotKept DEF Counted
<1> QED BY <1>1, <1>2 DEF Counted

LEMMA StreamHandlerCounted ==
  ASSUME Counted, NEW h \in Handlers, StreamHandler(h)
  PROVE  Counted'
<1>0. /\ TypeOK
      /\ registry \in [TaskIds -> Handlers \cup {NoClient}]
      /\ conn \in [Handlers -> Conn] /\ conn[h] \in Conn
      /\ chan \in [Handlers -> Channel] /\ chan[h] \in Channel
      /\ listening \in BOOLEAN /\ panicked \in BOOLEAN
      /\ phase \in {"serving", "stopping", "emptied", "closed"}
  BY Typed DEF Counted
<1> USE DEF executeVars, serverVars
<1>1. CASE OpenStream(h)
  <2>1. conn' \in [Handlers -> Conn]
    BY <1>0, <1>1, ConnMoves DEF OpenStream, ConnPcs
  <2> QED BY <1>0, <1>1, <2>1, StreamCounted DEF OpenStream, Conn
<1>2. CASE Deliver(h)
  <2>1. chan[h].waiting - 1 \in 0..StreamBuffer /\ chan[h].state \in {"open", "marked", "closed"}
    BY <1>0, <1>2, StreamAssumption DEF Deliver, Channel
  <2>2. chan' \in [Handlers -> Channel]
    BY <1>0, <1>2, <2>1, ChanMoves DEF Deliver
  <2> QED BY <1>0, <1>2, <2>2, StreamCounted DEF Deliver
<1>3. CASE Disconnect(h) \/ LeaveStream(h)
  <2>1. conn' \in [Handlers -> Conn]
    BY <1>0, <1>3, ConnMoves DEF Disconnect, LeaveStream, ConnPcs
  <2> QED BY <1>0, <1>3, <2>1, StreamCounted DEF Disconnect, LeaveStream
<1>4. CASE Unregister(h)
  <2>1. conn' \in [Handlers -> Conn]
    BY <1>0, <1>4, ConnMoves DEF Unregister, ConnPcs
  <2> QED BY <1>0, <1>4, <2>1, StreamCounted DEF Unregister
<1>5. CASE SafeClose(h)
  <2>1. conn' \in [Handlers -> Conn]
    BY <1>0, <1>5, ConnMoves DEF SafeClose, ConnPcs
  <2>2. chan' \in [Handlers -> Channel]
    BY <1>0, <1>5, MarkedTyped DEF SafeClose
  <2> QED BY <1>0, <1>5, <2>1, <2>2, StreamCounted DEF SafeClose
<1>6. CASE CloseChan(h)
  <2>1. chan' = [chan EXCEPT ![h] = [chan[h] EXCEPT !.state = "closed"]]
    BY <1>6 DEF CloseChan
  <2>2. [chan[h] EXCEPT !.state = "closed"] \in Channel
    BY <1>0 DEF Channel
  <2>3. chan' \in [Handlers -> Channel]
    BY <1>0, <2>1, <2>2
  <2> QED BY <1>0, <1>6, <2>3, StreamCounted DEF CloseChan
<1> QED BY <1>1, <1>2, <1>3, <1>4, <1>5, <1>6 DEF StreamHandler

LEMMA ShutdownCounted ==
  ASSUME Counted, StopServer \/ StopServing \/ CloseClients \/ CloseListener
  PROVE  Counted'
<1>0. /\ registry \in [TaskIds -> Handlers \cup {NoClient}]
      /\ conn \in [Handlers -> Conn] /\ chan \in [Handlers -> Channel]
      /\ listening \in BOOLEAN /\ panicked \in BOOLEAN
      /\ phase \in {"serving", "stopping", "emptied", "closed"}
  BY Typed DEF Counted
<1> USE DEF streamVars, executeVars
<1>1. CASE StopServer \/ StopServing \/ CloseListener
  BY <1>0, <1>1, StreamCounted DEF StopServer, StopServing, CloseListener
<1>2. CASE CloseClients
  <2>1. chan' \in [Handlers -> Channel]
    BY <1>0, <1>2, MarkedTyped DEF CloseClients
  <2> QED BY <1>0, <1>2, <2>1, StreamCounted DEF CloseClients
<1> QED BY <1>1, <1>2

\* A step of an /execute handler and of its goroutines: what is left is the
\* places, the requests' own fields and the cancelled contexts.
LEMMA RequestCounted ==
  ASSUME Counted, UNCHANGED <<streamVars, hook, serverVars, panicked>>,
         request' \in [Requests -> Asked], pump' \in [Requests -> Pumped],
         \A e \in Requests :
           pump'[e].pc \in {"send", "resend"} => pump'[e].target \in Handlers,
         cancelled' \subseteq Requests,
         slots' \in 0..MaxSlots, SlotsAccurate'
  PROVE  Counted'
<1>1. TypeOK'
  BY Typed DEF Counted, TypeOK, streamVars, serverVars, Asked, Pumped,
     RequestPcs, PumpPcs
<1> QED BY <1>1 DEF Counted

\* A handler's step that takes or gives no place.
LEMMA GoCounted ==
  ASSUME Counted, UNCHANGED <<streamVars, hook, serverVars, panicked, pump, slots>>,
         NEW e \in Requests, NEW pc \in RequestPcs, Go(e, pc),
         Holds(pc) <=> Holds(request[e].pc), cancelled' \subseteq Requests
  PROVE  Counted'
<1>1. /\ request' \in [Requests -> Asked]
      /\ \A f \in Requests : Holds(request'[f].pc) <=> Holds(request[f].pc)
  BY GoMoves DEF Counted
<1>2. SlotsAccurate'
  BY <1>1, SlotKept DEF Counted
<1> QED BY <1>1, <1>2, RequestCounted, Typed DEF Counted

LEMMA HandlerCounted ==
  ASSUME Counted, NEW e \in Requests,
         \/ Arrive(e) \/ AcquireSlot(e) \/ GiveUpQueue(e) \/ ExecuteHandler(e)
         \/ MonitorTimeout(e)
  PROVE  Counted'
<1>0. /\ TypeOK /\ SlotsAccurate
      /\ pump \in [Requests -> Pumped]
      /\ \A f \in Requests :
           pump[f].pc \in {"send", "resend"} => pump[f].target \in Handlers
      /\ cancelled \subseteq Requests /\ slots \in 0..MaxSlots
      /\ request \in [Requests -> Asked]
  BY Typed DEF Counted
<1>1. CASE Arrive(e)
  BY <1>0, <1>1, GoCounted DEF Arrive, Holds, RequestPcs
<1>2. CASE GiveUpQueue(e)
  BY <1>0, <1>2, GoCounted DEF GiveUpQueue, Holds, RequestPcs
<1>3. CASE CloseChannels(e)
  BY <1>0, <1>3, GoCounted DEF CloseChannels, Holds, RequestPcs
<1>4. CASE RunReturns(e)
  BY <1>0, <1>4, GoCounted DEF RunReturns, Holds, RequestPcs
<1>5. CASE AcquireSlot(e)
  <2>1. /\ ~Holds(request[e].pc) /\ Holds("accepted") /\ "accepted" \in RequestPcs
        /\ Go(e, "accepted") /\ slots < MaxSlots /\ slots' = slots + 1
        /\ UNCHANGED <<streamVars, pump, cancelled, hook, serverVars, panicked>>
    BY <1>5 DEF AcquireSlot, Holds, RequestPcs
  <2>2. SlotsAccurate' /\ slots' \in 0..MaxSlots
    BY <1>0, <2>1, SlotTaken
  <2>3. request' \in [Requests -> Asked]
    BY <1>0, <2>1, GoMoves
  <2> QED BY <1>0, <2>1, <2>2, <2>3, RequestCounted
<1>6. CASE RejectBody(e) \/ Respond(e)
  <2>1. /\ Holds(request[e].pc) /\ ~Holds("done") /\ "done" \in RequestPcs
        /\ Go(e, "done") /\ slots' = slots - 1
        /\ UNCHANGED <<streamVars, pump, cancelled, hook, serverVars, panicked>>
    BY <1>6 DEF RejectBody, Respond, Holds, RequestPcs
  <2>2. SlotsAccurate' /\ slots' \in 0..MaxSlots
    BY <1>0, <2>1, SlotGiven
  <2>3. request' \in [Requests -> Asked]
    BY <1>0, <2>1, GoMoves
  <2> QED BY <1>0, <2>1, <2>2, <2>3, RequestCounted
<1>7. CASE StartRun(e)
  <2>1. /\ Holds(request[e].pc) /\ Holds("running") /\ "running" \in RequestPcs
        /\ Go(e, "running") /\ pump' = [pump EXCEPT ![e].pc = "receive"]
        /\ UNCHANGED <<streamVars, cancelled, slots, hook, serverVars, panicked>>
    BY <1>7 DEF StartRun, Holds, RequestPcs
  <2>2. /\ request' \in [Requests -> Asked]
        /\ \A f \in Requests : Holds(request'[f].pc) <=> Holds(request[f].pc)
    BY <1>0, <2>1, GoMoves
  <2>3. SlotsAccurate'
    BY <1>0, <2>1, <2>2, SlotKept
  <2>4. /\ pump' \in [Requests -> Pumped]
        /\ \A f \in Requests :
             pump'[f].pc \in {"send", "resend"} => pump'[f].target \in Handlers
    BY <1>0, <2>1 DEF Pumped, PumpPcs
  <2> QED BY <1>0, <2>1, <2>2, <2>3, <2>4, RequestCounted
<1>8. CASE MonitorTimeout(e)
  <2>1. SlotsAccurate'
    BY <1>0, <1>8, SlotKept DEF MonitorTimeout
  <2> QED BY <1>0, <1>8, <2>1, RequestCounted DEF MonitorTimeout
<1> QED BY <1>1, <1>2, <1>3, <1>4, <1>5, <1>6, <1>7, <1>8 DEF ExecuteHandler

\* The stream goroutine of a request goes to another place.
LEMMA PumpMoves ==
  ASSUME TypeOK, NEW e \in Requests, NEW pc \in PumpPcs,
         NEW c \in Handlers \cup {NoClient}, PumpGo(e, pc, c),
         pc \in {"send", "resend"} => c \in Handlers
  PROVE  /\ pump' \in [Requests -> Pumped]
         /\ \A f \in Requests :
              pump'[f].pc \in {"send", "resend"} => pump'[f].target \in Handlers
<1>1. [pc |-> pc, target |-> c] \in Pumped
  BY DEF Pumped
<1> QED BY <1>1, Typed DEF PumpGo

LEMMA TokenCounted ==
  ASSUME Counted, NEW e \in Requests, Produce(e) \/ Pump(e)
  PROVE  Counted'
<1>0. /\ TypeOK /\ SlotsAccurate
      /\ pump \in [Requests -> Pumped] /\ pump[e] \in Pumped
      /\ \A f \in Requests :
           pump[f].pc \in {"send", "resend"} => pump[f].target \in Handlers
      /\ cancelled \subseteq Requests /\ slots \in 0..MaxSlots
      /\ request \in [Requests -> Asked] /\ request[e] \in Asked
      /\ registry \in [TaskIds -> Handlers \cup {NoClient}]
      /\ conn \in [Handlers -> Conn] /\ chan \in [Handlers -> Channel]
  BY Typed DEF Counted
<1>1. ASSUME NEW n \in 0..StreamBuffer,
             request' = [request EXCEPT ![e] = [request[e] EXCEPT !.buffered = n]],
             slots' = slots
      PROVE  request' \in [Requests -> Asked] /\ SlotsAccurate'
  <2>1. LET r == [request[e] EXCEPT !.buffered = n]
        IN  r \in Asked /\ r.pc = request[e].pc
    BY <1>0 DEF Asked
  <2>2. /\ request' \in [Requests -> Asked]
        /\ \A f \in Requests : request'[f].pc = request[f].pc
    BY <1>0, <1>1, <2>1
  <2> QED BY <1>0, <1>1, <2>2, SlotKept
<1>2. CASE Produce(e)
  <2>1. request[e].buffered + 1 \in 0..StreamBuffer
    BY <1>0, <1>2, StreamAssumption DEF Produce, Asked
  <2>2. request' = [request EXCEPT ![e] =
                     [request[e] EXCEPT !.buffered = request[e].buffered + 1]]
    BY <1>2 DEF Produce
  <2> QED BY <1>0, <1>1, <1>2, <2>1, <2>2, RequestCounted DEF Produce
<1>3. CASE PumpReceive(e)
  <2>1. request[e].buffered - 1 \in 0..StreamBuffer
    BY <1>0, <1>3, StreamAssumption DEF PumpReceive, Asked
  <2>2. request' = [request EXCEPT ![e] =
                     [request[e] EXCEPT !.buffered = request[e].buffered - 1]]
    BY <1>3 DEF PumpReceive
  <2>3. "check" \in PumpPcs /\ registry[request[e].task] \in Handlers \cup {NoClient}
    BY <1>0 DEF PumpPcs, Asked
  <2>4. /\ pump' \in [Requests -> Pumped]
        /\ \A f \in Requests :
             pump'[f].pc \in {"send", "resend"} => pump'[f].target \in Handlers
    BY <1>0, <1>3, <2>3, PumpMoves DEF PumpReceive
  <2> QED BY <1>0, <1>1, <1>3, <2>1, <2>2, <2>4, RequestCounted DEF PumpReceive
<1>4. CASE PumpCheck(e) \/ PumpEnd(e)
  <2>1. /\ pump[e].target \in Handlers \cup {NoClient}
        /\ {"receive", "ended", "send"} \subseteq PumpPcs
    BY <1>0 DEF Pumped, PumpPcs
  <2>2. \/ PumpGo(e, "receive", NoClient) \/ PumpGo(e, "ended", NoClient)
        \/ PumpGo(e, "send", pump[e].target) /\ pump[e].target # NoClient
    BY <1>4 DEF PumpCheck, PumpEnd
  <2>3. /\ pump' \in [Requests -> Pumped]
        /\ \A f \in Requests :
             pump'[f].pc \in {"send", "resend"} => pump'[f].target \in Handlers
    BY <1>0, <2>1, <2>2, PumpMoves
  <2>4. SlotsAccurate'
    BY <1>0, <1>4, SlotKept DEF PumpCheck, PumpEnd
  <2> QED BY <1>0, <1>4, <2>3, <2>4, RequestCounted DEF PumpCheck, PumpEnd
<1>5. CASE PumpSend(e)
  <2> DEFINE c == pump[e].target
  <2>1. c \in Handlers /\ chan[c] \in Channel
    BY <1>0, <1>5 DEF PumpSend
  <2>2. \/ PumpGo(e, "receive", NoClient) \/ PumpGo(e, "ended", NoClient)
        \/ PumpGo(e, "resend", c)
    BY <1>5 DEF PumpSend
  <2>3. /\ pump' \in [Requests -> Pumped]
        /\ \A f \in Requests :
             pump'[f].pc \in {"send", "resend"} => pump'[f].target \in Handlers
    BY <1>0, <2>1, <2>2, PumpMoves DEF PumpPcs
  <2>4. CASE UNCHANGED chan
    <3>1. SlotsAccurate'
      BY <1>0, <1>5, SlotKept DEF PumpSend
    <3> QED BY <1>0, <1>5, <2>3, <2>4, <3>1, RequestCounted
            DEF PumpSend, streamVars
  <2>5. CASE /\ chan[c].waiting < StreamBuffer
             /\ chan' = [chan EXCEPT ![c].waiting = @ + 1]
    <3>1. /\ chan' = [chan EXCEPT ![c] = [chan[c] EXCEPT !.waiting = chan[c].waiting + 1]]
          /\ [chan[c] EXCEPT !.waiting = chan[c].waiting + 1] \in Channel
      BY <2>1, <2>5, StreamAssumption DEF Channel
    <3>2. chan' \in [Handlers -> Channel]
      BY <1>0, <2>1, <3>1
    <3>3. SlotsAccurate'
      BY <1>0, <1>5, SlotKept DEF PumpSend
    <3>4. TypeOK'
      BY <1>0, <1>5, <2>3, <3>2, Typed
      DEF PumpSend, serverVars, TypeOK, Channel, Pumped, PumpPcs
    <3> QED BY <3>3, <3>4 DEF Counted
  <2> QED BY <1>5, <2>4, <2>5 DEF PumpSend
<1> QED BY <1>2, <1>3, <1>4, <1>5 DEF Pump

LEMMA HookCounted ==
  ASSUME Counted, Hook
  PROVE  Counted'
<1>0. /\ TypeOK /\ SlotsAccurate
      /\ registry \in [TaskIds -> Handlers \cup {NoClient}]
      /\ chan \in [Handlers -> Channel] /\ hook \in Hooked
  BY Typed DEF Counted
<1>1. UNCHANGED <<registry, conn, executeVars, serverVars>>
  BY DEF Hook, HookCopy, HookCheck, HookSend, HookGiveUp, streamVars
<1>2. SlotsAccurate'
  BY <1>0, <1>1, SlotKept DEF executeVars
<1>3. ASSUME hook' \in Hooked, chan' \in [Handlers -> Channel], panicked' \in BOOLEAN
      PROVE  Counted'
  <2>1. TypeOK'
    BY <1>0, <1>1, <1>3 DEF TypeOK, Hooked, Channel, executeVars, serverVars
  <2> QED BY <1>2, <2>1 DEF Counted
<1>4. Idle \in Hooked /\ panicked \in BOOLEAN
  BY <1>0, Typed DEF Hooked
<1>5. CASE HookCopy
  <2>1. PICK t \in TaskIds : /\ registry[t] # NoClient
                             /\ hook' = [pc |-> "check", target |-> registry[t]]
    BY <1>5 DEF HookCopy
  <2>2. hook' \in Hooked
    BY <1>0, <2>1 DEF Hooked
  <2> QED BY <1>0, <1>3, <1>4, <1>5, <2>2 DEF HookCopy, streamVars
<1>6. CASE HookCheck
  <2>1. hook \in [pc : {"check", "send"}, target : Handlers]
    BY <1>0, <1>6 DEF HookCheck, Hooked, Idle
  <2>2. [hook EXCEPT !.pc = "send"] \in Hooked
    BY <2>1 DEF Hooked
  <2> QED BY <1>0, <1>3, <1>4, <1>6, <2>2 DEF HookCheck, streamVars
<1>7. CASE HookSend
  <2> DEFINE c == hook.target
  <2>1. c \in Handlers
    BY <1>0, <1>7 DEF HookSend, Hooked, Idle
  <2>2. CASE /\ chan[c].waiting < StreamBuffer
             /\ chan' = [chan EXCEPT ![c].waiting = @ + 1]
             /\ hook' \in {hook, Idle} /\ UNCHANGED panicked
    <3>1. /\ chan' = [chan EXCEPT ![c] = [chan[c] EXCEPT !.waiting = chan[c].waiting + 1]]
          /\ [chan[c] EXCEPT !.waiting = chan[c].waiting + 1] \in Channel
      BY <1>0, <2>1, <2>2, StreamAssumption DEF Channel
    <3> QED BY <1>0, <1>3, <1>4, <2>1, <2>2, <3>1
  <2>3. CASE panicked' = TRUE /\ UNCHANGED <<chan, hook>>
    BY <1>0, <1>3, <2>3
  <2> QED BY <1>7, <2>2, <2>3 DEF HookSend
<1>8. CASE HookGiveUp
  BY <1>0, <1>3, <1>4, <1>8 DEF HookGiveUp, streamVars
<1> QED BY <1>5, <1>6, <1>7, <1>8 DEF Hook

LEMMA CountedInit == Init => Counted
<1> SUFFICES ASSUME Init PROVE Counted
  OBVIOUS
<1>1. Holding = {}
  BY DEF Init, Holding, Holds
<1>2. SlotsAccurate
  BY <1>1, FS_EmptySet, SlotsCountHolding DEF Init
<1>3. /\ request \in [Requests -> Asked] /\ conn \in [Handlers -> Conn]
      /\ chan \in [Handlers -> Channel] /\ pump \in [Requests -> Pumped]
      /\ \A e \in Requests : pump[e].pc = "none"
      /\ slots \in 0..MaxSlots /\ hook \in Hooked
  BY StreamAssumption
  DEF Init, Asked, Conn, Channel, Pumped, RequestPcs, ConnPcs, PumpPcs, Hooked
<1>4. TypeOK
  BY <1>3, Typed DEF Init
<1> QED BY <1>2, <1>4 DEF Counted

LEMMA CountedStep == Counted /\ [Next]_vars => Counted'
<1> SUFFICES ASSUME Counted, [Next]_vars PROVE Counted'
  OBVIOUS
<1>1. CASE UNCHANGED vars
  BY <1>1 DEF vars, streamVars, executeVars, serverVars, Counted, TypeOK,
              SlotsAccurate
<1> QED BY <1>1, StreamHandlerCounted, HandlerCounted, TokenCounted,
           HookCounted, ShutdownCounted DEF Next

\* The IPC server's state keeps its type: in particular the places taken never
\* go below none or above the semaphore's capacity, whatever way the handlers
\* leave.
THEOREM StreamsTyped == Spec => []TypeOK
BY CountedInit, CountedStep, PTL DEF Spec, Counted

\* executionSemaphore counts the requests between its acquisition and the end
\* of their handler, for any number of requests and of places.
THEOREM SlotsCounted == Spec => []SlotsAccurate
BY CountedInit, CountedStep, PTL DEF Spec, Counted

-----------------------------------------------------------------------------
(* The registry of the streams' clients                                    *)

\* What RegisteredIsOpen needs besides: the client a handler is about to make
\* is not closed yet.
NewClientsOpen ==
  \A h \in Handlers : conn[h].pc = "new" => chan[h].state = "open"

Registered == RegisteredIsOpen /\ NewClientsOpen

\* A step that moves no handler and closes no channel.
LEMMA RegisteredKept ==
  ASSUME TypeOK, Registered, UNCHANGED <<registry, conn>>,
         \A h \in Handlers : chan'[h].state = chan[h].state
  PROVE  Registered'
BY Typed DEF Registered, RegisteredIsOpen, NewClientsOpen

\* A step of one handler is safe when the entry of its task id is gone unless it
\* is its own, and its client closed only when it has no entry.
LEMMA HandlerRegistered ==
  ASSUME TypeOK, Registered, NEW h \in Handlers, StreamHandler(h)
  PROVE  Registered'
<1>0. /\ registry \in [TaskIds -> Handlers \cup {NoClient}]
      /\ conn \in [Handlers -> Conn] /\ conn[h] \in Conn
      /\ chan \in [Handlers -> Channel] /\ chan[h] \in Channel
      /\ conn[h].task \in TaskIds /\ NoClient \notin Handlers
  BY Typed, StreamAssumption DEF Conn
<1> USE DEF streamVars, executeVars, serverVars
<1>1. CASE OpenStream(h)
  <2>1. /\ conn'[h].pc = "open" /\ conn'[h].task = conn[h].task
        /\ \A g \in Handlers \ {h} : conn'[g] = conn[g]
    BY <1>1, ConnMoves DEF OpenStream, ConnPcs
  <2>2. registry' = [registry EXCEPT ![conn[h].task] = h] /\ chan' = chan
    BY <1>1 DEF OpenStream
  <2>3. chan[h].state = "open"
    BY <1>1 DEF Registered, NewClientsOpen, OpenStream
  <2>4. \A t \in TaskIds : registry[t] # h
    BY <1>0, <1>1 DEF Registered, RegisteredIsOpen, OpenStream
  <2> QED BY <1>0, <2>1, <2>2, <2>3, <2>4
          DEF Registered, RegisteredIsOpen, NewClientsOpen
<1>2. CASE Deliver(h)
  <2>1. chan' = [chan EXCEPT ![h] = [chan[h] EXCEPT !.waiting = chan[h].waiting - 1]]
    BY <1>2 DEF Deliver
  <2>2. [chan[h] EXCEPT !.waiting = chan[h].waiting - 1].state = chan[h].state
    BY <1>0 DEF Channel
  <2>3. \A g \in Handlers : chan'[g].state = chan[g].state
    BY <1>0, <2>1, <2>2
  <2> QED BY <1>2, <2>3, RegisteredKept DEF Deliver
<1>3. CASE Disconnect(h) \/ LeaveStream(h)
  <2>1. /\ conn'[h].pc = "leaving" /\ conn'[h].task = conn[h].task
        /\ \A g \in Handlers \ {h} : conn'[g] = conn[g]
        /\ UNCHANGED <<registry, chan>>
    BY <1>3, ConnMoves DEF Disconnect, LeaveStream, ConnPcs
  <2> QED BY <1>0, <2>1 DEF Registered, RegisteredIsOpen, NewClientsOpen
<1>4. CASE Unregister(h)
  <2>1. /\ conn'[h].pc = "unregistered" /\ conn'[h].task = conn[h].task
        /\ \A g \in Handlers \ {h} : conn'[g] = conn[g]
        /\ registry' = [registry EXCEPT ![conn[h].task] = NoClient]
        /\ chan' = chan
    BY <1>4, ConnMoves DEF Unregister, ConnPcs
  <2>2. \A t \in TaskIds : registry'[t] # h
    BY <1>0, <2>1 DEF Registered, RegisteredIsOpen
  <2> QED BY <1>0, <2>1, <2>2 DEF Registered, RegisteredIsOpen, NewClientsOpen
<1>5. CASE SafeClose(h)
  <2>1. /\ conn'[h].pc = "gone"
        /\ \A g \in Handlers \ {h} : conn'[g] = conn[g]
    BY <1>5, ConnMoves DEF SafeClose, ConnPcs
  <2>2. registry' = registry /\ \A g \in Handlers \ {h} : chan'[g] = chan[g]
    BY <1>0, <1>5 DEF SafeClose
  <2>3. \A t \in TaskIds : registry[t] # h
    BY <1>0, <1>5 DEF Registered, RegisteredIsOpen, SafeClose
  <2> QED BY <1>0, <2>1, <2>2, <2>3
          DEF Registered, RegisteredIsOpen, NewClientsOpen
<1>6. CASE CloseChan(h)
  <2>1. UNCHANGED <<registry, conn>> /\ \A g \in Handlers \ {h} : chan'[g] = chan[g]
    BY <1>0, <1>6 DEF CloseChan
  <2>2. conn[h].pc # "new" /\ \A t \in TaskIds : registry[t] # h
    BY <1>0, <1>6 DEF Registered, RegisteredIsOpen, NewClientsOpen, CloseChan
  <2> QED BY <1>0, <2>1, <2>2 DEF Registered, RegisteredIsOpen, NewClientsOpen
<1> QED BY <1>1, <1>2, <1>3, <1>4, <1>5, <1>6 DEF StreamHandler

\* One more message in a channel leaves every channel's state.
LEMMA WaitingKeepsState ==
  ASSUME TypeOK, NEW c \in Handlers, NEW n,
         chan' = [chan EXCEPT ![c].waiting = n]
  PROVE  \A h \in Handlers : chan'[h].state = chan[h].state
<1>1. chan \in [Handlers -> Channel] /\ chan[c] \in Channel
  BY Typed
<1>2. chan' = [chan EXCEPT ![c] = [chan[c] EXCEPT !.waiting = n]]
  OBVIOUS
<1>3. [chan[c] EXCEPT !.waiting = n].state = chan[c].state
  BY <1>1 DEF Channel
<1> QED BY <1>1, <1>2, <1>3

LEMMA SendRegistered ==
  ASSUME TypeOK, Registered,
         Hook \/ \E e \in Requests : Pump(e)
  PROVE  Registered'
<1>1. UNCHANGED <<registry, conn>>
  BY DEF Hook, HookCopy, HookCheck, HookSend, HookGiveUp, Pump, PumpReceive,
         PumpCheck, PumpSend, PumpEnd, streamVars
<1>2. \/ UNCHANGED chan
      \/ \E c \in Handlers, n \in Int : chan' = [chan EXCEPT ![c].waiting = n]
  <2>1. CASE HookSend
    <3>1. hook.target \in Handlers
      BY <2>1, Typed DEF HookSend, Hooked, Idle
    <3>2. chan[hook.target].waiting + 1 \in Int
      BY <3>1, Typed, StreamAssumption DEF Channel
    <3> QED BY <2>1, <3>1, <3>2 DEF HookSend
  <2>2. ASSUME NEW e \in Requests, PumpSend(e)
        PROVE  \/ UNCHANGED chan
               \/ \E c \in Handlers, n \in Int : chan' = [chan EXCEPT ![c].waiting = n]
    <3>1. pump[e].target \in Handlers
      BY <2>2, Typed DEF PumpSend
    <3>2. chan[pump[e].target].waiting + 1 \in Int
      BY <3>1, Typed, StreamAssumption DEF Channel
    <3> QED BY <2>2, <3>1, <3>2 DEF PumpSend
  <2> QED BY <2>1, <2>2 DEF Hook, HookCopy, HookCheck, HookGiveUp, Pump,
             PumpReceive, PumpCheck, PumpEnd, streamVars
<1>3. \A h \in Handlers : chan'[h].state = chan[h].state
  BY <1>2, WaitingKeepsState
<1> QED BY <1>1, <1>3, RegisteredKept

LEMMA ShutdownRegistered ==
  ASSUME TypeOK, Registered,
         StopServer \/ StopServing \/ CloseClients \/ CloseListener
  PROVE  Registered'
<1>1. CASE StopServer \/ StopServing \/ CloseListener
  BY <1>1, RegisteredKept DEF StopServer, StopServing, CloseListener, streamVars
<1>2. CASE CloseClients
  <2>1. \A t \in TaskIds : registry'[t] = NoClient
    BY <1>2 DEF CloseClients
  <2>2. ASSUME NEW h \in Handlers, conn[h].pc = "new"
        PROVE  chan'[h].state = "open"
    <3>1. \A t \in TaskIds : registry[t] # h
      BY <2>2, Typed, StreamAssumption DEF Registered, RegisteredIsOpen
    <3>2. chan'[h] = chan[h]
      BY <1>2, <3>1 DEF CloseClients
    <3> QED BY <2>2, <3>2 DEF Registered, NewClientsOpen
  <2> QED BY <1>2, <2>1, <2>2
          DEF CloseClients, Registered, RegisteredIsOpen, NewClientsOpen
<1> QED BY <1>1, <1>2

LEMMA RegisteredStep == TypeOK /\ Registered /\ [Next]_vars => Registered'
<1> SUFFICES ASSUME TypeOK, Registered, [Next]_vars PROVE Registered'
  OBVIOUS
<1>1. CASE UNCHANGED vars
  BY <1>1, RegisteredKept DEF vars, streamVars
<1>2. ASSUME NEW e \in Requests,
             \/ Arrive(e) \/ AcquireSlot(e) \/ GiveUpQueue(e)
             \/ ExecuteHandler(e) \/ Produce(e) \/ MonitorTimeout(e)
      PROVE  Registered'
  <2>1. UNCHANGED streamVars
    BY <1>2 DEF Arrive, AcquireSlot, GiveUpQueue, ExecuteHandler, RejectBody,
       StartRun, RunReturns, CloseChannels, Respond, Produce, MonitorTimeout
  <2> QED BY <2>1, RegisteredKept DEF streamVars
<1> QED BY <1>1, <1>2, HandlerRegistered, SendRegistered, ShutdownRegistered
        DEF Next

\* A client found in the registry is open when it is found, for any number of
\* connections of a task id, in whatever order they come, are replaced and go.
THEOREM RegistryNamesOpenClients == Spec => []RegisteredIsOpen
<1>1. Init => Registered
  BY StreamAssumption
  DEF Init, Registered, RegisteredIsOpen, NewClientsOpen
<1> QED BY <1>1, CountedInit, CountedStep, RegisteredStep, PTL
        DEF Spec, Counted, Registered

-----------------------------------------------------------------------------
(* How a connection loses its entry                                        *)

\* The reasons EntryLostToNamesakeOnly allows, for one connection.
MayLose(h) ==
  \/ conn[h].pc = "leaving"
  \/ phase = "stopping"
  \/ \E g \in Handlers \ {h} :
       conn[g].task = conn[h].task /\ conn'[g].pc # conn[g].pc

\* Only a handler that registers or leaves and the end of serving write the registry.
LEMMA RegistryWriters ==
  ASSUME Next, registry' # registry
  PROVE  CloseClients \/ \E g \in Handlers : OpenStream(g) \/ Unregister(g)
BY DEF Next, StreamHandler, Deliver, Disconnect, LeaveStream, SafeClose,
       CloseChan, Arrive, AcquireSlot, GiveUpQueue, ExecuteHandler, RejectBody,
       StartRun, RunReturns, CloseChannels, Respond, Produce, MonitorTimeout,
       Pump, PumpReceive, PumpCheck, PumpSend, PumpEnd, Hook, HookCopy,
       HookCheck, HookSend, HookGiveUp, StopServer, StopServing, CloseListener,
       streamVars, executeVars, serverVars

LEMMA EntryLost ==
  ASSUME TypeOK, [Next]_vars, NEW h \in Handlers,
         registry[conn[h].task] = h, registry'[conn[h].task] # h
  PROVE  MayLose(h)
<1>1. registry' # registry /\ Next
  BY DEF vars, streamVars
<1>2. conn \in [Handlers -> Conn] /\ registry \in [TaskIds -> Handlers \cup {NoClient}]
  BY Typed
<1>3. CASE CloseClients
  BY <1>3 DEF CloseClients, MayLose
<1>4. ASSUME NEW g \in Handlers, OpenStream(g)
      PROVE  MayLose(h)
  <2>1. conn[g].pc = "new" /\ conn'[g].pc = "open"
    BY <1>4, ConnMoves DEF OpenStream, ConnPcs
  <2>2. conn[g].task = conn[h].task /\ g # h
    BY <1>2, <1>4 DEF OpenStream, Conn
  <2> QED BY <2>1, <2>2 DEF MayLose
<1>5. ASSUME NEW g \in Handlers, Unregister(g)
      PROVE  MayLose(h)
  <2>1. conn[g].pc = "leaving" /\ conn'[g].pc = "unregistered"
    BY <1>5, ConnMoves DEF Unregister, ConnPcs
  <2>2. conn[g].task = conn[h].task
    BY <1>2, <1>5 DEF Unregister, Conn
  <2> QED BY <2>1, <2>2 DEF MayLose
<1> QED BY <1>1, <1>3, <1>4, <1>5, RegistryWriters

\* An open connection loses its entry to a namesake only, for any number of
\* connections, requests and log lines.
THEOREM EntriesLostToNamesakes == Spec => EntryLostToNamesakeOnly
<1>1. TypeOK /\ [Next]_vars =>
        \A h \in Handlers :
          registry[conn[h].task] = h /\ registry'[conn[h].task] # h => MayLose(h)
  BY EntryLost
<1>2. TypeOK /\ [Next]_vars =>
        [\A h \in Handlers :
           LET t == conn[h].task
           IN  registry[t] = h /\ registry'[t] # h =>
                 \/ conn[h].pc = "leaving"
                 \/ phase = "stopping"
                 \/ \E g \in Handlers \ {h} : conn[g].task = t /\ conn'[g].pc # conn[g].pc]_vars
  BY <1>1 DEF MayLose
<1> QED BY <1>2, CountedInit, CountedStep, PTL
        DEF Spec, Counted, EntryLostToNamesakeOnly
=============================================================================
