------------------------------ MODULE WhatsApp ------------------------------
(***************************************************************************)
(* The WhatsApp listener: Start with its attempts to connect and to pair,  *)
(* the message that names the administrator, the live log and Disconnect   *)
(* (internal/communication/whatsapp/client.go, processor.go), with the     *)
(* logger's registry of hooks (internal/core/logger/logger.go).  What a    *)
(* message makes the agent do is in module AgentSessions.                  *)
(***************************************************************************)
EXTENDS Integers

CONSTANTS
  MaxReconnectAttempts,
  HookLimit             \* bound: hooks ever added

ASSUME ListenerAssumption == MaxReconnectAttempts \in Nat /\ HookLimit \in Nat

VARIABLES
  publishHooks,   \* ids of the logger's hooks; only the live log's are looked at
  hookIDCounter,
  paired,         \* Client.Store.ID is set
  link,           \* the client's connection
  isConnected, logHookID, adminPhone, setupKey,   \* the listener's; the last
                                                  \* two set or not
  start,          \* the goroutine of Start, and how often it has tried
  setup,          \* setupLiveLogging, in Start and in the client's event loop
  leave           \* Disconnect

hookVars     == <<publishHooks, hookIDCounter>>
listenerVars == <<paired, link, isConnected, adminPhone, setupKey>>
waVars       == <<hookVars, listenerVars, logHookID, start, setup, leave>>

Setups  == {"start", "message"}   \* the callers of setupLiveLogging

NoHook  == 0
Resting == [pc |-> "idle", id |-> NoHook]

WhatsAppInit ==
  /\ publishHooks = {} /\ hookIDCounter = 0
  /\ paired \in BOOLEAN /\ adminPhone \in BOOLEAN
  /\ link = "down" /\ isConnected = FALSE /\ setupKey = FALSE
  /\ logHookID = NoHook
  /\ start = [pc |-> "new", tries |-> 0]
  /\ setup = [s \in Setups |-> Resting]
  /\ leave = Resting

StartAt(pc) == start.pc = pc
StartGo(pc) == start' = [start EXCEPT !.pc = pc]

-----------------------------------------------------------------------------
(* Start                                                                   *)

\* The listener is not connected yet.  The database or its device may fail.
BeginStart ==
  /\ StartAt("new") /\ ~isConnected
  /\ StartGo("connect") \/ StartGo("failed")
  /\ UNCHANGED <<hookVars, listenerVars, logHookID, setup, leave>>

\* connectWithRetry: the QR channel or the connection fails.
ConnectFails ==
  /\ StartAt("connect") /\ start.tries < MaxReconnectAttempts
  /\ start' = [start EXCEPT !.tries = @ + 1]
  /\ UNCHANGED <<hookVars, listenerVars, logHookID, setup, leave>>

\* A connection is a success, whether or not the codes it shows are read in time.
Connect ==
  /\ StartAt("connect") /\ start.tries < MaxReconnectAttempts
  /\ link' = "up"
  /\ paired' \in {paired, TRUE}
  /\ StartGo("key")
  /\ UNCHANGED <<hookVars, isConnected, adminPhone, setupKey, logHookID, setup, leave>>

GiveUpConnecting ==
  /\ StartAt("connect") /\ start.tries = MaxReconnectAttempts
  /\ StartGo("failed")
  /\ UNCHANGED <<hookVars, listenerVars, logHookID, setup, leave>>

\* Without an administrator a key is made that names the one who sends it.
MakeKey ==
  /\ StartAt("key")
  /\ setupKey' = ~adminPhone
  /\ StartGo("admin")
  /\ UNCHANGED <<hookVars, paired, link, isConnected, adminPhone, logHookID,
                 setup, leave>>

BeginSetup(s) == setup' = [setup EXCEPT ![s] = [pc |-> "enter", id |-> NoHook]]

\* AdminPhone is read again: the message with the key may have come.
LogForAdmin ==
  /\ StartAt("admin")
  /\ \/ adminPhone /\ BeginSetup("start") /\ StartGo("logging")
     \/ ~adminPhone /\ StartGo("finish") /\ UNCHANGED setup
  /\ UNCHANGED <<hookVars, listenerVars, logHookID, leave>>

FinishStart ==
  /\ StartAt("finish") \/ (StartAt("logging") /\ setup["start"] = Resting)
  /\ isConnected' = TRUE
  /\ StartGo("active")
  /\ UNCHANGED <<hookVars, paired, link, adminPhone, setupKey, logHookID, setup, leave>>

-----------------------------------------------------------------------------
(* The message with the key, in the event loop of a client that is paired  *)

TakeKey ==
  /\ link = "up" /\ paired /\ setupKey /\ setup["message"] = Resting
  /\ adminPhone' = TRUE /\ setupKey' = FALSE
  /\ BeginSetup("message")
  /\ UNCHANGED <<hookVars, paired, link, isConnected, logHookID, start, leave>>

-----------------------------------------------------------------------------
(* setupLiveLogging                                                        *)

SetupGo(s, pc, id) == setup' = [setup EXCEPT ![s] = [pc |-> pc, id |-> id]]

\* Under the listener's lock the id of the old hook is taken.
TakeOldHook(s) ==
  /\ setup[s].pc = "enter"
  /\ SetupGo(s, IF logHookID # NoHook THEN "remove" ELSE "add", logHookID)
  /\ logHookID' = NoHook
  /\ UNCHANGED <<hookVars, listenerVars, start, leave>>

\* logger.RemoveOutputHook.
RemoveOldHook(s) ==
  /\ setup[s].pc = "remove"
  /\ publishHooks' = publishHooks \ {setup[s].id}
  /\ SetupGo(s, "add", NoHook)
  /\ UNCHANGED <<hookIDCounter, listenerVars, logHookID, start, leave>>

\* logger.AddOutputHook.
AddOutputHook(s) ==
  /\ setup[s].pc = "add" /\ hookIDCounter < HookLimit
  /\ hookIDCounter' = hookIDCounter + 1
  /\ publishHooks' = publishHooks \cup {hookIDCounter'}
  /\ SetupGo(s, "record", hookIDCounter')
  /\ UNCHANGED <<listenerVars, logHookID, start, leave>>

RecordHook(s) ==
  /\ setup[s].pc = "record"
  /\ logHookID' = setup[s].id
  /\ SetupGo(s, "idle", NoHook)
  /\ UNCHANGED <<hookVars, listenerVars, start, leave>>

-----------------------------------------------------------------------------
(* The shutdown                                                            *)

\* Mutant: the listener forgets its hook without removing it.
DisconnectForgetting ==
  /\ leave.pc = "idle"
  /\ IF ~isConnected THEN UNCHANGED <<isConnected, logHookID>>
     ELSE isConnected' = FALSE /\ logHookID' = NoHook
  /\ leave' = [pc |-> "left", id |-> NoHook]
  /\ UNCHANGED <<hookVars, paired, link, adminPhone, setupKey, start, setup>>

\* Disconnect does nothing to a listener that is not connected yet.
DisconnectListener ==
  /\ leave.pc = "idle"
  /\ IF ~isConnected
     THEN leave' = [pc |-> "left", id |-> NoHook] /\ UNCHANGED <<isConnected, logHookID>>
     ELSE /\ isConnected' = FALSE /\ logHookID' = NoHook
          /\ leave' = [pc |-> "remove", id |-> logHookID]
  /\ UNCHANGED <<hookVars, paired, link, adminPhone, setupKey, start, setup>>

DisconnectClient ==
  /\ leave.pc = "remove"
  /\ publishHooks' = publishHooks \ {leave.id}
  /\ link' = "down"
  /\ leave' = [pc |-> "left", id |-> NoHook]
  /\ UNCHANGED <<hookIDCounter, paired, isConnected, adminPhone, setupKey,
                 logHookID, start, setup>>

\* logger.Close, at the end of the shutdown: ClearAllHooks.
CloseLogger ==
  /\ leave.pc = "left"
  /\ publishHooks' = {}
  /\ leave' = [pc |-> "closed", id |-> NoHook]
  /\ UNCHANGED <<hookIDCounter, listenerVars, logHookID, start, setup>>

SetupStep(s) == TakeOldHook(s) \/ RemoveOldHook(s) \/ AddOutputHook(s) \/ RecordHook(s)

WhatsAppNext ==
  \/ BeginStart \/ ConnectFails \/ Connect \/ GiveUpConnecting \/ MakeKey
  \/ LogForAdmin \/ FinishStart \/ TakeKey
  \/ \E s \in Setups : SetupStep(s)
  \/ DisconnectListener \/ DisconnectClient \/ CloseLogger

WhatsAppSpec == WhatsAppInit /\ [][WhatsAppNext]_waVars

-----------------------------------------------------------------------------
(* Properties                                                              *)

\* The type invariant of the listener.
WhatsAppTypeOK ==
  /\ publishHooks \subseteq 1..HookLimit /\ hookIDCounter \in 0..HookLimit
  /\ {paired, isConnected, adminPhone, setupKey} \subseteq BOOLEAN
  /\ link \in {"down", "up"} /\ logHookID \in 0..HookLimit
  /\ start.tries \in 0..MaxReconnectAttempts
  /\ start.pc \in {"new", "connect", "key", "admin", "logging", "finish", "active", "failed"}
  /\ setup \in [Setups -> [pc : {"idle", "enter", "remove", "add", "record"}, id : 0..HookLimit]]
  /\ leave \in [pc : {"idle", "remove", "left", "closed"}, id : 0..HookLimit]

\* Somebody can still remove the hook: the listener has its id, or a call of
\* setupLiveLogging or Disconnect is about to record or to remove it.
Removable(id) ==
  \/ logHookID = id
  \/ \E s \in Setups : setup[s].id = id
  \/ leave.id = id

\* The live log's hook is exchanged in four steps under two locks, while Start,
\* the message with the key and Disconnect may each be at it.  No hook stays
\* behind that nobody can remove, except when one exchange records its hook over
\* that of another.
HookLostByExchangeOnly ==
  [][\A id \in publishHooks' :
       ~Removable(id)' =>
         \/ id \in publishHooks /\ ~Removable(id)
         \/ \E s \in Setups : /\ setup[s].pc = "record" /\ setup'[s].pc = "idle"
                               /\ logHookID = id]_waVars
=============================================================================
