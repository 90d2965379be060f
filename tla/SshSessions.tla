---------------------------- MODULE SshSessions ----------------------------
(***************************************************************************)
(* The SSH tool: the map of sessions by host, the calls of ssh_tool, the   *)
(* reader and keep-alive goroutines of a tunnel, and the cleanup worker    *)
(* (internal/skills/network/ssh.go; the worker is started by               *)
(* cmd/pars/runner.go with the daemon's context).                          *)
(*                                                                         *)
(* A tunnel is one SSHSession with its client: its transport is open until *)
(* somebody closes it, whatever its peer does.  Ages are counted in units  *)
(* of which IdleTimeout and MaxAge are multiples, up to AgeLimit.          *)
(***************************************************************************)
EXTENDS Integers, FiniteSets

CONSTANTS
  Hosts,
  Tunnels,       \* bound: connections ever dialled
  SshCallers,    \* concurrent calls of ssh_tool
  NoTunnel, NoCaller,
  IdleTimeout,   \* SSHIdleTimeout
  MaxAge         \* SSHMaxSessionAge

ASSUME SshAssumption ==
  /\ Hosts # {}
  /\ NoTunnel \notin Tunnels /\ NoCaller \notin SshCallers
  /\ IdleTimeout \in Nat /\ MaxAge \in Nat

VARIABLES
  sshSessions,   \* the map of that name: host -> session
  tunnel,        \* every connection dialled so far
  sshCall,       \* the calls, and the step of the agent each belongs to
  sweep          \* the pass the cleanup worker makes next

sshVars == <<sshSessions, tunnel, sshCall, sweep>>

Longest(a, b) == IF a > b THEN a ELSE b
AgeLimit == Longest(IdleTimeout, MaxAge) + 1   \* bound

\* "use" stands for exec, terminal, upload and download.
SshActions == {"connect", "use", "close"}

Tunnel ==
  [host      : Hosts,
   transport : {"none", "open", "closed"},
   alive     : BOOLEAN,                         \* IsAlive
   silent    : BOOLEAN,                         \* the peer is gone without a word
   keepAlive : SshCallers \cup {NoCaller},      \* the call whose context startKeepAlive has
   idle      : 0..AgeLimit,                     \* since LastActive
   age       : 0..AgeLimit]                     \* since CreatedAt

NotDialled ==
  [host |-> CHOOSE h \in Hosts : TRUE, transport |-> "none", alive |-> FALSE,
   silent |-> FALSE, keepAlive |-> NoCaller, idle |-> 0, age |-> 0]

CallPcs == {"idle", "look", "check", "close", "delete", "dial", "shell",
            "register", "use", "returned"}

SshCall ==
  [pc         : CallPcs,
   action     : SshActions,
   host       : Hosts,
   session    : Tunnels \cup {NoTunnel},        \* the local variable of that name
   exists     : BOOLEAN,                        \* likewise
   answer     : {"none", "closed", "other"}]    \* "closed": close has closed a session

Open(k)       == tunnel[k].transport = "open"
Registered(k) == \E h \in Hosts : sshSessions[h] = k
IsConnected(k) == tunnel[k].alive
HeldBy(c, k)  == /\ sshCall[c].pc \in {"shell", "register", "close"}
                 /\ sshCall[c].session = k

\* closeSSHSession: the session is marked dead, then everything it has is closed;
\* its goroutines find that out and end without any other effect.
Closed(t) == [NotDialled EXCEPT !.host = t.host, !.transport = "closed"]

SshGoto(c, pc)       == sshCall' = [sshCall EXCEPT ![c].pc = pc]
SshAnswer(c, answer) == sshCall' = [sshCall EXCEPT ![c].pc = "returned",
                                                ![c].session = NoTunnel,
                                                ![c].exists = FALSE,
                                                ![c].answer = answer]

NoCall ==
  [pc |-> "idle", action |-> "connect", host |-> CHOOSE h \in Hosts : TRUE,
   session |-> NoTunnel, exists |-> FALSE, answer |-> "none"]

SshInit ==
  /\ sshSessions = [h \in Hosts |-> NoTunnel]
  /\ tunnel = [k \in Tunnels |-> NotDialled]
  /\ sshCall = [c \in SshCallers |-> NoCall]
  /\ sweep = "idle"

-----------------------------------------------------------------------------
(* A call of ssh_tool                                                      *)

\* Execute with arguments validateSSHInput accepts; others change nothing.
CallSsh(c) ==
  /\ sshCall[c].pc = "idle"
  /\ \E action \in SshActions, h \in Hosts :
       sshCall' = [sshCall EXCEPT ![c].pc = "look", ![c].action = action,
                                  ![c].host = h]
  /\ UNCHANGED <<sshSessions, tunnel, sweep>>

FindSession(c) ==
  LET k == sshSessions[sshCall[c].host]
  IN  /\ sshCall[c].pc = "look"
      /\ sshCall' = [sshCall EXCEPT ![c].pc = "check", ![c].session = k,
                                    ![c].exists = (k # NoTunnel)]
      /\ UNCHANGED <<sshSessions, tunnel, sweep>>

\* A session that is no longer connected is removed and counts as none; so is,
\* on request, one that is connected.
CheckSession(c) ==
  LET k == sshCall[c].session
  IN  /\ sshCall[c].pc = "check"
      /\ \/ /\ k # NoTunnel /\ ~IsConnected(k)
            /\ sshCall' = [sshCall EXCEPT ![c].pc = "close", ![c].exists = FALSE]
         \/ k # NoTunnel /\ IsConnected(k) /\ sshCall[c].action = "close" /\ SshGoto(c, "close")
         \/ k # NoTunnel /\ IsConnected(k) /\ sshCall[c].action # "close" /\ SshGoto(c, "use")
         \/ k = NoTunnel /\ sshCall[c].action = "close" /\ SshAnswer(c, "other")
         \/ k = NoTunnel /\ sshCall[c].action # "close" /\ SshGoto(c, "dial")
      /\ UNCHANGED <<sshSessions, tunnel, sweep>>

\* closeAndRemoveSession closes the session it was given ...
CloseSession(c) ==
  /\ sshCall[c].pc = "close"
  /\ tunnel' = [tunnel EXCEPT ![sshCall[c].session] = Closed(@)]
  /\ SshGoto(c, "delete")
  /\ UNCHANGED <<sshSessions, sweep>>

\* ... and then removes whatever the host has in the map.
DeleteSession(c) ==
  /\ sshCall[c].pc = "delete"
  /\ sshSessions' = [sshSessions EXCEPT ![sshCall[c].host] = NoTunnel]
  /\ \/ sshCall[c].action = "close" /\ sshCall[c].exists  /\ SshAnswer(c, "closed")
     \/ sshCall[c].action = "close" /\ ~sshCall[c].exists /\ SshAnswer(c, "other")
     \/ /\ sshCall[c].action # "close"
        /\ sshCall' = [sshCall EXCEPT ![c].pc = "dial", ![c].session = NoTunnel]
  /\ UNCHANGED <<tunnel, sweep>>

\* establishConnection up to ssh.Dial: a bad key, no authentication, an unknown
\* host key or an unreachable host end the call.
DialHost(c) ==
  /\ sshCall[c].pc = "dial"
  /\ \/ SshAnswer(c, "other") /\ UNCHANGED tunnel
     \/ \E k \in Tunnels :
          /\ tunnel[k].transport = "none"
          /\ tunnel' = [tunnel EXCEPT ![k].transport = "open",
                                      ![k].host = sshCall[c].host]
          /\ sshCall' = [sshCall EXCEPT ![c].pc = "shell", ![c].session = k]
  /\ UNCHANGED <<sshSessions, sweep>>

\* Mutant: a failure after the dial leaves the client open.
ShellFailsLeaking(c) ==
  /\ sshCall[c].pc = "shell"
  /\ SshAnswer(c, "other")
  /\ UNCHANGED <<sshSessions, tunnel, sweep>>

\* The session, the terminal, a pipe or the shell fails: each way out closes the client.
ShellFails(c) ==
  /\ sshCall[c].pc = "shell"
  /\ tunnel' = [tunnel EXCEPT ![sshCall[c].session] = Closed(@)]
  /\ SshAnswer(c, "other")
  /\ UNCHANGED <<sshSessions, sweep>>

\* The rest of establishConnection: the goroutines start, that of the keep-alive
\* if the call asks for it, in the context of the call.
ShellStarts(c) ==
  /\ sshCall[c].pc = "shell"
  /\ \E keepAlive \in {c, NoCaller} :
       tunnel' = [tunnel EXCEPT ![sshCall[c].session].alive = TRUE,
                                ![sshCall[c].session].keepAlive = keepAlive]
  /\ SshGoto(c, "register")
  /\ UNCHANGED <<sshSessions, sweep>>

RegisterSession(c) ==
  /\ sshCall[c].pc = "register"
  /\ sshSessions' = [sshSessions EXCEPT ![sshCall[c].host] = sshCall[c].session]
  /\ IF sshCall[c].action = "connect" THEN SshAnswer(c, "other") ELSE SshGoto(c, "use")
  /\ UNCHANGED <<tunnel, sweep>>

\* MarkActive.  The handlers that follow use the session they were given, whatever
\* becomes of it, and leave map and session alone.
UseSession(c) ==
  /\ sshCall[c].pc = "use"
  /\ tunnel' = [tunnel EXCEPT ![sshCall[c].session].idle = IF Open(sshCall[c].session) THEN 0 ELSE @]
  /\ SshAnswer(c, "other")
  /\ UNCHANGED <<sshSessions, sweep>>

\* The step of the agent is over and cancels the context its tools had, which
\* ends their keep-alives (agent/execution.go).
EndSshStep(c) ==
  /\ sshCall[c].pc = "returned"
  /\ tunnel' = [k \in Tunnels |-> IF tunnel[k].keepAlive = c
                                  THEN [tunnel[k] EXCEPT !.keepAlive = NoCaller]
                                  ELSE tunnel[k]]
  /\ sshCall' = [sshCall EXCEPT ![c] = NoCall]
  /\ UNCHANGED <<sshSessions, sweep>>

-----------------------------------------------------------------------------
(* The goroutines of a tunnel, the network and the cleanup worker          *)

MarkDead(k) ==
  tunnel' = [tunnel EXCEPT ![k].alive = FALSE, ![k].silent = FALSE,
                           ![k].keepAlive = NoCaller]

\* startOutputReader: the peer closes the connection and Stdout.Read fails.
ReaderEnds(k) ==
  /\ IsConnected(k) /\ ~tunnel[k].silent
  /\ MarkDead(k)
  /\ UNCHANGED <<sshSessions, sshCall, sweep>>

PeerFalls(k) ==
  /\ IsConnected(k) /\ ~tunnel[k].silent
  /\ tunnel' = [tunnel EXCEPT ![k].silent = TRUE]
  /\ UNCHANGED <<sshSessions, sshCall, sweep>>

\* startKeepAlive: the request fails also when the peer is gone without a word.
KeepAliveFails(k) ==
  /\ IsConnected(k) /\ tunnel[k].keepAlive # NoCaller /\ tunnel[k].silent
  /\ MarkDead(k)
  /\ UNCHANGED <<sshSessions, sshCall, sweep>>

\* Mutant: both passes look at the idle time.
SweptIdle(k) ==
  \/ sweep = "idle" /\ tunnel[k].idle > IdleTimeout
  \/ sweep = "expired" /\ tunnel[k].idle > IdleTimeout

\* The sessions a pass of the cleanup takes.
Swept(k) ==
  \/ sweep = "idle" /\ tunnel[k].idle > IdleTimeout
  \/ sweep = "expired" /\ tunnel[k].age > MaxAge

\* cleanupSessions, all of it under the map's lock.
Sweep ==
  LET gone == {h \in Hosts : sshSessions[h] # NoTunnel /\ Swept(sshSessions[h])}
  IN  /\ sshSessions' = [h \in Hosts |-> IF h \in gone THEN NoTunnel ELSE sshSessions[h]]
      /\ tunnel' = [k \in Tunnels |-> IF \E h \in gone : sshSessions[h] = k
                                     THEN Closed(tunnel[k]) ELSE tunnel[k]]
      /\ sweep' = IF sweep = "idle" THEN "expired" ELSE "idle"
      /\ UNCHANGED sshCall

Aged(t) ==
  IF t.transport # "open" THEN t
  ELSE [t EXCEPT !.idle = IF @ = AgeLimit THEN @ ELSE @ + 1,
                 !.age  = IF @ = AgeLimit THEN @ ELSE @ + 1]

SessionsAge ==
  /\ tunnel' = [k \in Tunnels |-> Aged(tunnel[k])]
  /\ tunnel' # tunnel
  /\ UNCHANGED <<sshSessions, sshCall, sweep>>

SshStep(c) ==
  \/ FindSession(c) \/ CheckSession(c) \/ CloseSession(c) \/ DeleteSession(c)
  \/ DialHost(c) \/ ShellFails(c) \/ ShellStarts(c) \/ RegisterSession(c)
  \/ UseSession(c) \/ EndSshStep(c)

SshNext ==
  \/ \E c \in SshCallers : CallSsh(c) \/ SshStep(c)
  \/ \E k \in Tunnels : ReaderEnds(k) \/ PeerFalls(k) \/ KeepAliveFails(k)
  \/ Sweep
  \/ SessionsAge

SshFairness ==
  /\ \A c \in SshCallers : WF_sshVars(SshStep(c))
  /\ \A k \in Tunnels : WF_sshVars(KeepAliveFails(k))
  /\ WF_sshVars(Sweep)
  /\ WF_sshVars(SessionsAge)

SshSpec == SshInit /\ [][SshNext]_sshVars

-----------------------------------------------------------------------------
(* Properties                                                              *)

SshTypeOK ==
  /\ sshSessions \in [Hosts -> Tunnels \cup {NoTunnel}]
  /\ tunnel \in [Tunnels -> Tunnel]
  /\ sshCall \in [SshCallers -> SshCall]
  /\ sweep \in {"idle", "expired"}

\* A tunnel somebody can still close: it is in the map, or a call that has
\* dialled it has not registered it yet, or a call is about to close it.
Reachable(k) == Registered(k) \/ \E c \in SshCallers : HeldBy(c, k)

\* A call that writes the host's entry over, or deletes it, without looking
\* at the session that is in it (Execute after establishConnection,
\* closeAndRemoveSession).
Displaces(c, k) ==
  /\ sshSessions[sshCall[c].host] = k /\ sshCall[c].session # k
  /\ \/ sshCall[c].pc = "register" /\ sshSessions'[sshCall[c].host] = sshCall[c].session
     \/ sshCall[c].pc = "delete" /\ sshSessions'[sshCall[c].host] = NoTunnel

\* Whatever fails while a connection is made and however calls, cleanup and
\* network interleave, an open connection is lost from sight in one way only:
\* a call for the same host displaces its entry.  Every error path of
\* establishConnection and both passes of the cleanup close what they drop.
LostOnlyByDisplacement ==
  [][\A k \in Tunnels :
       (Open(k) /\ Reachable(k) /\ ~Reachable(k)') =>
         \/ ~Open(k)'
         \/ \E c \in SshCallers : Displaces(c, k)]_sshVars

\* No session stays in the map for good, although calls may use it at any time,
\* its peer may be gone without a word and its keep-alive ended with the step
\* of the agent that made it: the second pass of the cleanup goes by age.
SessionsExpire ==
  \A k \in Tunnels : Registered(k) ~> ~Registered(k)
=============================================================================
