--------------------------- MODULE DatabasePools ---------------------------
(***************************************************************************)
(* The two pools of database handles: db_manager's, which the daemon's own *)
(* databases come from (internal/db_manager/manager.go), and the one of    *)
(* the db_query tool (internal/skills/network/db_tool.go).  Both look a    *)
(* handle up under a read lock, and open, ping and store a new one under   *)
(* the write lock after a second look.  Only db_manager ever closes a      *)
(* handle it has stored; StartPoolCleanup, CloseConnection and CloseAll of *)
(* db_query's pool have no caller.                                         *)
(***************************************************************************)
EXTENDS Integers, FiniteSets

CONSTANTS
  Managed,      \* absolute paths db_manager.GetDB is called with
  Queried,      \* dsn arguments of db_query
  Handles,      \* bound: handles ever opened
  DbCallers,    \* goroutines that want a handle
  NoHandle

DbKeys == Managed \cup Queried

ASSUME PoolAssumption ==
  /\ Managed # {} /\ Managed \cap Queried = {}
  /\ NoHandle \notin Handles

VARIABLES
  dbPool,       \* the maps of that name
  handle,       \* the handles: their state and what they are open on
  dbCall,       \* GetDB and db_query calls
  closedAll     \* CloseAll has run

poolVars == <<dbPool, handle, dbCall, closedAll>>

\* The goroutines that hold a pool's write lock are in the middle of a ping.
PoolOf(k) == IF k \in Managed THEN Managed ELSE Queried
LockFree(k) == \A c \in DbCallers : dbCall[c].pc = "ping" => dbCall[c].key \notin PoolOf(k)

HandleOpen(h) == handle[h].state = "open"

DbGoto(c, pc) == dbCall' = [dbCall EXCEPT ![c].pc = pc]
DbTake(c, h)  == dbCall' = [dbCall EXCEPT ![c].pc = "use", ![c].db = h]
DbReturn(c)   == dbCall' = [dbCall EXCEPT ![c].pc = "idle", ![c].db = NoHandle]

PoolInit ==
  /\ dbPool = [k \in DbKeys |-> NoHandle]
  /\ handle = [h \in Handles |-> [state |-> "none", key |-> CHOOSE k \in DbKeys : TRUE]]
  /\ dbCall = [c \in DbCallers |-> [pc |-> "idle", db |-> NoHandle,
                                    key |-> CHOOSE k \in DbKeys : TRUE]]
  /\ closedAll = FALSE

\* A path normalizeDBPath makes absolute, or a dsn that validateDSN accepts.
WantHandle(c) ==
  /\ dbCall[c].pc = "idle"
  /\ \E k \in DbKeys : dbCall' = [dbCall EXCEPT ![c].pc = "look", ![c].key = k]
  /\ UNCHANGED <<dbPool, handle, closedAll>>

FindHandle(c) ==
  LET k == dbCall[c].key
  IN  /\ dbCall[c].pc = "look" /\ LockFree(k)
      /\ \/ dbPool[k] # NoHandle /\ DbTake(c, dbPool[k])
         \/ dbPool[k] = NoHandle /\ DbGoto(c, "lock")
      /\ UNCHANGED <<dbPool, handle, closedAll>>

\* Mutant: the look under the read lock is the only one.
OpenHandleTrusting(c) ==
  LET k == dbCall[c].key
  IN  /\ dbCall[c].pc = "lock" /\ LockFree(k)
      /\ \E h \in Handles :
           /\ handle[h].state = "none"
           /\ handle' = [handle EXCEPT ![h] = [state |-> "open", key |-> k]]
           /\ dbCall' = [dbCall EXCEPT ![c].pc = "ping", ![c].db = h]
      /\ UNCHANGED <<dbPool, closedAll>>

\* Under the write lock: the second look, and sql.Open, which may fail.
OpenHandle(c) ==
  LET k == dbCall[c].key
  IN  /\ dbCall[c].pc = "lock" /\ LockFree(k)
      /\ \/ /\ dbPool[k] # NoHandle
            /\ DbTake(c, dbPool[k]) /\ UNCHANGED handle
         \/ /\ dbPool[k] = NoHandle
            /\ DbReturn(c) /\ UNCHANGED handle
         \/ /\ dbPool[k] = NoHandle
            /\ \E h \in Handles :
                 /\ handle[h].state = "none"
                 /\ handle' = [handle EXCEPT ![h] = [state |-> "open", key |-> k]]
                 /\ dbCall' = [dbCall EXCEPT ![c].pc = "ping", ![c].db = h]
      /\ UNCHANGED <<dbPool, closedAll>>

\* Mutant: the handle of a database that does not answer is closed and stored.
PingFailsStoring(c) ==
  /\ dbCall[c].pc = "ping"
  /\ handle' = [handle EXCEPT ![dbCall[c].db].state = "closed"]
  /\ dbPool' = [dbPool EXCEPT ![dbCall[c].key] = dbCall[c].db]
  /\ DbReturn(c)
  /\ UNCHANGED closedAll

PingFails(c) ==
  /\ dbCall[c].pc = "ping"
  /\ handle' = [handle EXCEPT ![dbCall[c].db].state = "closed"]
  /\ DbReturn(c)
  /\ UNCHANGED <<dbPool, closedAll>>

StoreHandle(c) ==
  /\ dbCall[c].pc = "ping"
  /\ dbPool' = [dbPool EXCEPT ![dbCall[c].key] = dbCall[c].db]
  /\ DbGoto(c, "use")
  /\ UNCHANGED <<handle, closedAll>>

\* The caller's statements, for as long as it likes: the heartbeat and the memory
\* stores keep their handle.  They fail on a handle that is closed.
UseHandle(c) ==
  /\ dbCall[c].pc = "use"
  /\ DbReturn(c)
  /\ UNCHANGED <<dbPool, handle, closedAll>>

\* db_manager.CloseAll, under its lock: checkpoint, close and forget each handle.
CloseAll ==
  /\ \A k \in Managed : LockFree(k)
  /\ closedAll' = TRUE
  /\ handle' = [h \in Handles |-> IF \E k \in Managed : dbPool[k] = h
                                  THEN [handle[h] EXCEPT !.state = "closed"] ELSE handle[h]]
  /\ dbPool' = [k \in DbKeys |-> IF k \in Managed THEN NoHandle ELSE dbPool[k]]
  /\ UNCHANGED dbCall

HandleStep(c) ==
  FindHandle(c) \/ OpenHandle(c) \/ PingFails(c) \/ StoreHandle(c) \/ UseHandle(c)

-----------------------------------------------------------------------------

PoolTypeOK ==
  /\ dbPool \in [DbKeys -> Handles \cup {NoHandle}]
  /\ handle \in [Handles -> [state : {"none", "open", "closed"}, key : DbKeys]]
  /\ dbCall \in [DbCallers -> [pc : {"idle", "look", "lock", "ping", "use"},
                               db : Handles \cup {NoHandle}, key : DbKeys]]
  /\ closedAll \in BOOLEAN

\* However many goroutines ask for one database at once, and whatever fails on
\* the way, there is one open handle on it: with MaxOpenConns(1) of
\* db_manager.GetDB that is what makes the daemon's statements on a database
\* one after the other.
OneHandlePerKey ==
  \A g, h \in Handles :
    HandleOpen(g) /\ HandleOpen(h) /\ handle[g].key = handle[h].key => g = h

\* Nobody is given a handle that is closed, and none is closed under its user
\* before the end of the daemon has begun; a caller that comes after CloseAll
\* gets a new one.
HandlesWork ==
  \A c \in DbCallers :
    /\ dbCall[c].pc = "ping" => HandleOpen(dbCall[c].db)
    /\ dbCall[c].pc = "use" /\ ~HandleOpen(dbCall[c].db) => closedAll
    /\ \A k \in DbKeys : dbPool[k] # NoHandle => HandleOpen(dbPool[k])
=============================================================================
