------------------------- MODULE ConnectionsProofs -------------------------
(***************************************************************************)
(* Proofs about what the daemon keeps open, for any number of hosts, keys  *)
(* and callers: its SSH sessions, and the handles of its database pools    *)
(* from the start of the daemon to its end.                                *)
(***************************************************************************)
EXTENDS SshSessions, Daemon, TLAPS

-----------------------------------------------------------------------------
(* SSH sessions                                                            *)

\* Who removes a host's entry has closed the session it removes it for.
ClosedBeforeDeleted ==
  \A c \in SshCallers, k \in Tunnels :
    sshCall[c].pc = "delete" /\ sshCall[c].session = k =>
      tunnel[k].transport = "closed"

SshIInv == SshTypeOK /\ ClosedBeforeDeleted

\* Ages stay within their limit, which is a positive number.
LEMMA AgeLimitPositive == AgeLimit \in Nat /\ AgeLimit >= 1
BY SshAssumption DEF AgeLimit, Longest

\* There is a host to name in the records of what does not exist yet.
LEMMA SomeHost == (CHOOSE h \in Hosts : TRUE) \in Hosts
<1>1. \E h \in Hosts : TRUE
  BY SshAssumption
<1> QED
  BY <1>1, Zenon

\* A connection not dialled is one of the kind; so is one that is closed.
LEMMA NotDialledTyped == NotDialled \in Tunnel
<1> DEFINE h == CHOOSE x \in Hosts : TRUE
<1>1. h \in Hosts
  BY SomeHost
<1>2. NotDialled = [host |-> h, transport |-> "none", alive |-> FALSE,
                    silent |-> FALSE, keepAlive |-> NoCaller, idle |-> 0, age |-> 0]
  BY Zenon DEF NotDialled
<1> HIDE DEF h
<1> QED
  BY <1>1, <1>2, AgeLimitPositive DEF Tunnel

\* Closing and ageing make a tunnel of a tunnel.
LEMMA TunnelsStay ==
  ASSUME NEW t \in Tunnel
  PROVE  /\ Closed(t) \in Tunnel /\ Closed(t).transport = "closed"
         /\ Aged(t) \in Tunnel /\ Aged(t).transport = t.transport
<1>1. AgeLimit \in Nat /\ AgeLimit >= 1
  BY AgeLimitPositive
<1>2. Closed(t) \in Tunnel /\ Closed(t).transport = "closed"
  BY NotDialledTyped DEF Closed, Tunnel
<1>3. Aged(t) \in Tunnel /\ Aged(t).transport = t.transport
  <2> DEFINE idle == IF t.idle = AgeLimit THEN t.idle ELSE t.idle + 1
             age  == IF t.age = AgeLimit THEN t.age ELSE t.age + 1
  <2>1. t.idle \in 0..AgeLimit /\ t.age \in 0..AgeLimit
    BY DEF Tunnel
  <2>2. idle \in 0..AgeLimit /\ age \in 0..AgeLimit
    BY <1>1, <2>1
  <2>3. Aged(t) = IF t.transport # "open" THEN t
                  ELSE [t EXCEPT !.idle = idle, !.age = age]
    BY DEF Aged, Tunnel
  <2> HIDE DEF idle, age
  <2> QED
    BY <2>2, <2>3 DEF Tunnel
<1> QED
  BY <1>2, <1>3

\* A call not made yet is one of the kind.
LEMMA NoCallTyped == NoCall \in SshCall /\ NoCall.pc = "idle"
<1> DEFINE h == CHOOSE x \in Hosts : TRUE
<1>1. h \in Hosts
  BY SomeHost
<1>2. NoCall = [pc |-> "idle", action |-> "connect", host |-> h,
                session |-> NoTunnel, exists |-> FALSE, answer |-> "none"]
  BY Zenon DEF NoCall
<1> HIDE DEF h
<1> QED
  BY <1>1, <1>2 DEF SshCall, CallPcs, SshActions

\* At the start no host has a session and nothing is dialled.
LEMMA SshInitial == SshInit => SshIInv
BY NotDialledTyped, NoCallTyped DEF SshInit, SshIInv, SshTypeOK, ClosedBeforeDeleted

\* A call that takes a step, without coming before a removal, while the tunnels
\* stay as they are.
LEMMA CallMoves ==
  ASSUME SshIInv, NEW c \in SshCallers, NEW r \in SshCall,
         sshCall' = [sshCall EXCEPT ![c] = r], r.pc # "delete",
         sshSessions' \in [Hosts -> Tunnels \cup {NoTunnel}],
         UNCHANGED <<tunnel, sweep>>
  PROVE  SshIInv'
<1>1. sshCall' \in [SshCallers -> SshCall]
  BY DEF SshIInv, SshTypeOK
<1>2. SshTypeOK'
  BY <1>1 DEF SshIInv, SshTypeOK
<1>3. ClosedBeforeDeleted'
  BY DEF SshIInv, SshTypeOK, ClosedBeforeDeleted
<1> QED
  BY <1>2, <1>3 DEF SshIInv

\* The tunnels change, and those that are closed stay it.
LEMMA TunnelsMove ==
  ASSUME SshIInv, tunnel' \in [Tunnels -> Tunnel],
         \A k \in Tunnels : tunnel[k].transport = "closed" =>
                               tunnel'[k].transport = "closed",
         sshSessions' \in [Hosts -> Tunnels \cup {NoTunnel}],
         sshCall' \in [SshCallers -> SshCall],
         \A c \in SshCallers :
           sshCall'[c].pc = "delete" => /\ sshCall[c].pc = "delete"
                                        /\ sshCall'[c].session = sshCall[c].session,
         sweep' \in {"idle", "expired"}
  PROVE  SshIInv'
BY DEF SshIInv, SshTypeOK, ClosedBeforeDeleted

\* The records a step makes of a call's.
LEMMA CallRecords ==
  ASSUME NEW r \in SshCall, NEW pc \in CallPcs, NEW k \in Tunnels \cup {NoTunnel},
         NEW b \in BOOLEAN, NEW answer \in {"none", "closed", "other"}
  PROVE  /\ [r EXCEPT !.pc = pc] \in SshCall
         /\ [r EXCEPT !.pc = pc].pc = pc
         /\ [r EXCEPT !.pc = pc, !.session = k] \in SshCall
         /\ [r EXCEPT !.pc = pc, !.session = k].pc = pc
         /\ [r EXCEPT !.pc = pc, !.exists = b] \in SshCall
         /\ [r EXCEPT !.pc = pc, !.exists = b].pc = pc
         /\ [r EXCEPT !.pc = pc, !.session = k, !.exists = b] \in SshCall
         /\ [r EXCEPT !.pc = pc, !.session = k, !.exists = b].pc = pc
         /\ [r EXCEPT !.pc = pc, !.session = k, !.exists = b, !.answer = answer] \in SshCall
         /\ [r EXCEPT !.pc = pc, !.session = k, !.exists = b, !.answer = answer].pc = pc
BY DEF SshCall

\* Each step of a call, of a tunnel's goroutines, of the network and of the
\* cleanup keeps the invariant: only a dial opens, and it opens what was not
\* there; a call comes before a removal only by its CloseSession.
LEMMA SshInductive == SshIInv /\ [SshNext]_sshVars => SshIInv'
<1> SUFFICES ASSUME SshIInv, [SshNext]_sshVars PROVE SshIInv'
  OBVIOUS
<1>a. /\ sshSessions \in [Hosts -> Tunnels \cup {NoTunnel}]
      /\ tunnel \in [Tunnels -> Tunnel]
      /\ sshCall \in [SshCallers -> SshCall]
      /\ sweep \in {"idle", "expired"}
  BY DEF SshIInv, SshTypeOK
<1>1. ASSUME NEW c \in SshCallers, CallSsh(c)
      PROVE  SshIInv'
  <2>1. PICK action \in SshActions, h \in Hosts :
          sshCall' = [sshCall EXCEPT ![c].pc = "look", ![c].action = action, ![c].host = h]
    BY <1>1 DEF CallSsh
  <2> DEFINE r == [sshCall[c] EXCEPT !.pc = "look", !.action = action, !.host = h]
  <2>2. sshCall' = [sshCall EXCEPT ![c] = r]
    BY <1>a, <2>1
  <2>3. r \in SshCall /\ r.pc = "look"
    BY <1>a DEF SshCall, CallPcs
  <2> HIDE DEF r
  <2> QED
    BY <1>1, <1>a, <2>2, <2>3, CallMoves DEF CallSsh
<1>2. ASSUME NEW c \in SshCallers, NEW pc \in CallPcs \ {"delete"}, SshGoto(c, pc),
             sshSessions' \in [Hosts -> Tunnels \cup {NoTunnel}],
             UNCHANGED <<tunnel, sweep>>
      PROVE  SshIInv'
  <2> DEFINE r == [sshCall[c] EXCEPT !.pc = pc]
  <2>1. sshCall' = [sshCall EXCEPT ![c] = r]
    BY <1>2, <1>a DEF SshGoto
  <2>2. r \in SshCall /\ r.pc = pc
    BY <1>a DEF SshCall
  <2> HIDE DEF r
  <2> QED
    BY <1>2, <2>1, <2>2, CallMoves
<1>3. ASSUME NEW c \in SshCallers, NEW answer \in {"none", "closed", "other"},
             SshAnswer(c, answer)
      PROVE  /\ sshCall' \in [SshCallers -> SshCall]
             /\ \A d \in SshCallers : d # c => sshCall'[d] = sshCall[d]
             /\ sshCall'[c].pc = "returned"
  <2> DEFINE r == [sshCall[c] EXCEPT !.pc = "returned", !.session = NoTunnel,
                                     !.exists = FALSE, !.answer = answer]
  <2>1. sshCall' = [sshCall EXCEPT ![c] = r]
    BY <1>3, <1>a DEF SshAnswer
  <2>2. r \in SshCall /\ r.pc = "returned"
    BY <1>a DEF SshCall, CallPcs
  <2> HIDE DEF r
  <2> QED
    BY <1>a, <2>1, <2>2
<1>4. ASSUME NEW c \in SshCallers, NEW answer \in {"none", "closed", "other"},
             SshAnswer(c, answer),
             sshSessions' \in [Hosts -> Tunnels \cup {NoTunnel}],
             tunnel' \in [Tunnels -> Tunnel],
             \A k \in Tunnels : tunnel[k].transport = "closed" =>
                                   tunnel'[k].transport = "closed",
             UNCHANGED sweep
      PROVE  SshIInv'
  <2>1. /\ sshCall' \in [SshCallers -> SshCall]
        /\ \A d \in SshCallers : d # c => sshCall'[d] = sshCall[d]
        /\ sshCall'[c].pc = "returned"
    BY <1>3, <1>4
  <2> QED
    BY <1>4, <1>a, <2>1, TunnelsMove
<1>5. ASSUME NEW c \in SshCallers, FindSession(c)
      PROVE  SshIInv'
  <2> DEFINE k == sshSessions[sshCall[c].host]
             r == [sshCall[c] EXCEPT !.pc = "check", !.session = k, !.exists = (k # NoTunnel)]
  <2>1. sshCall' = [sshCall EXCEPT ![c] = r]
    BY <1>5, <1>a DEF FindSession
  <2>2. sshCall[c] \in SshCall /\ k \in Tunnels \cup {NoTunnel}
    BY <1>a DEF SshCall
  <2> HIDE DEF k
  <2>3. r \in SshCall /\ r.pc = "check"
    BY <2>2 DEF SshCall, CallPcs
  <2> HIDE DEF r
  <2> QED
    BY <1>5, <1>a, <2>1, <2>3, CallMoves DEF FindSession
<1>6. ASSUME NEW c \in SshCallers, CheckSession(c)
      PROVE  SshIInv'
  <2>1. CASE sshCall' = [sshCall EXCEPT ![c].pc = "close", ![c].exists = FALSE]
    <3> DEFINE r == [sshCall[c] EXCEPT !.pc = "close", !.exists = FALSE]
    <3>1. sshCall' = [sshCall EXCEPT ![c] = r]
      BY <2>1, <1>a
    <3>2. r \in SshCall /\ r.pc = "close"
      BY <1>a DEF SshCall, CallPcs
    <3> HIDE DEF r
    <3> QED
      BY <1>6, <1>a, <3>1, <3>2, CallMoves DEF CheckSession
  <2>2. UNCHANGED <<sshSessions, tunnel, sweep>>
    BY <1>6 DEF CheckSession
  <2>3. {"close", "use", "dial"} \subseteq CallPcs \ {"delete"}
    BY DEF CallPcs
  <2>4. CASE SshGoto(c, "close") \/ SshGoto(c, "use") \/ SshGoto(c, "dial")
    BY <1>2, <1>a, <2>2, <2>3, <2>4
  <2>5. CASE SshAnswer(c, "other")
    BY <1>4, <1>a, <2>2, <2>5
  <2> QED
    BY <1>6, <2>1, <2>4, <2>5 DEF CheckSession
<1>7. ASSUME NEW c \in SshCallers, CloseSession(c)
      PROVE  SshIInv'
  <2>1. /\ tunnel' \in [Tunnels -> Tunnel]
        /\ \A k \in Tunnels : IF k = sshCall[c].session
                              THEN tunnel'[k].transport = "closed"
                              ELSE tunnel'[k] = tunnel[k]
    BY <1>7, <1>a, TunnelsStay DEF CloseSession
  <2> DEFINE r == [sshCall[c] EXCEPT !.pc = "delete"]
  <2>2. sshCall' = [sshCall EXCEPT ![c] = r]
    BY <1>7, <1>a DEF CloseSession, SshGoto
  <2>3. r \in SshCall /\ r.session = sshCall[c].session
    BY <1>a DEF SshCall, CallPcs
  <2> HIDE DEF r
  <2>4. SshTypeOK'
    BY <1>7, <1>a, <2>1, <2>2, <2>3 DEF CloseSession, SshTypeOK
  <2>5. ClosedBeforeDeleted'
    <3> SUFFICES ASSUME NEW d \in SshCallers, NEW k \in Tunnels,
                        sshCall'[d].pc = "delete", sshCall'[d].session = k
                 PROVE  tunnel'[k].transport = "closed"
      BY DEF ClosedBeforeDeleted
    <3>1. CASE d = c
      BY <1>a, <2>1, <2>2, <2>3, <3>1
    <3>2. CASE d # c
      BY <1>a, <2>1, <2>2, <3>2 DEF SshIInv, ClosedBeforeDeleted
    <3> QED
      BY <3>1, <3>2
  <2> QED
    BY <2>4, <2>5 DEF SshIInv
<1>8. ASSUME NEW c \in SshCallers, DeleteSession(c)
      PROVE  SshIInv'
  <2>1. sshSessions' \in [Hosts -> Tunnels \cup {NoTunnel}] /\ UNCHANGED <<tunnel, sweep>>
    BY <1>8, <1>a DEF DeleteSession
  <2>2. CASE SshAnswer(c, "closed") \/ SshAnswer(c, "other")
    BY <1>4, <1>a, <2>1, <2>2
  <2>3. CASE sshCall' = [sshCall EXCEPT ![c].pc = "dial", ![c].session = NoTunnel]
    <3> DEFINE r == [sshCall[c] EXCEPT !.pc = "dial", !.session = NoTunnel]
    <3>1. sshCall' = [sshCall EXCEPT ![c] = r]
      BY <2>3, <1>a
    <3>2. r \in SshCall /\ r.pc = "dial"
      BY <1>a DEF SshCall, CallPcs
    <3> HIDE DEF r
    <3> QED
      BY <2>1, <3>1, <3>2, CallMoves
  <2> QED
    BY <1>8, <2>2, <2>3 DEF DeleteSession
<1>9. ASSUME NEW c \in SshCallers, DialHost(c)
      PROVE  SshIInv'
  <2>1. CASE SshAnswer(c, "other") /\ UNCHANGED tunnel
    BY <1>4, <1>9, <1>a, <2>1 DEF DialHost
  <2>2. ASSUME NEW k \in Tunnels, tunnel[k].transport = "none",
               tunnel' = [tunnel EXCEPT ![k].transport = "open",
                                        ![k].host = sshCall[c].host],
               sshCall' = [sshCall EXCEPT ![c].pc = "shell", ![c].session = k]
        PROVE  SshIInv'
    <3> DEFINE r == [sshCall[c] EXCEPT !.pc = "shell", !.session = k]
               t == [tunnel[k] EXCEPT !.transport = "open", !.host = sshCall[c].host]
    <3>1. sshCall' = [sshCall EXCEPT ![c] = r] /\ tunnel' = [tunnel EXCEPT ![k] = t]
      BY <2>2, <1>a
    <3>a. sshCall[c] \in SshCall /\ tunnel[k] \in Tunnel /\ sshCall[c].host \in Hosts
      BY <1>a DEF SshCall
    <3>b. r \in SshCall /\ r.pc = "shell"
      BY <3>a DEF SshCall, CallPcs
    <3>c. t \in Tunnel
      BY <3>a DEF Tunnel
    <3>2. r \in SshCall /\ r.pc = "shell" /\ t \in Tunnel
      BY <3>b, <3>c
    <3> HIDE DEF r, t
    <3>3. SshTypeOK'
      BY <1>9, <1>a, <3>1, <3>2 DEF DialHost, SshTypeOK
    <3>4. ClosedBeforeDeleted'
      <4> SUFFICES ASSUME NEW d \in SshCallers, NEW l \in Tunnels,
                          sshCall'[d].pc = "delete", sshCall'[d].session = l
                   PROVE  tunnel'[l].transport = "closed"
        BY DEF ClosedBeforeDeleted
      <4>1. d # c
        BY <1>a, <3>1, <3>2
      <4>2. tunnel[l].transport = "closed"
        BY <1>a, <3>1, <4>1 DEF SshIInv, ClosedBeforeDeleted
      <4> QED
        BY <1>a, <2>2, <3>1, <4>2
    <3> QED
      BY <3>3, <3>4 DEF SshIInv
  <2> QED
    BY <1>9, <2>1, <2>2 DEF DialHost
<1>10. ASSUME NEW c \in SshCallers, ShellFails(c)
      PROVE  SshIInv'
  <2>1. /\ tunnel' \in [Tunnels -> Tunnel]
        /\ \A k \in Tunnels : IF k = sshCall[c].session
                              THEN tunnel'[k].transport = "closed"
                              ELSE tunnel'[k] = tunnel[k]
    BY <1>10, <1>a, TunnelsStay DEF ShellFails
  <2> QED
    BY <1>4, <1>10, <1>a, <2>1 DEF ShellFails
<1>11. ASSUME NEW c \in SshCallers, ShellStarts(c)
      PROVE  SshIInv'
  <2> DEFINE k == sshCall[c].session
  <2>1. PICK keepAlive \in {c, NoCaller} :
          tunnel' = [tunnel EXCEPT ![k].alive = TRUE, ![k].keepAlive = keepAlive]
    BY <1>11 DEF ShellStarts
  <2>2. \A l \in Tunnels :
          tunnel'[l] = IF l = k THEN [tunnel[l] EXCEPT !.alive = TRUE, !.keepAlive = keepAlive]
                       ELSE tunnel[l]
    BY <1>a, <2>1
  <2>3. \A l \in Tunnels :
          LET t == [tunnel[l] EXCEPT !.alive = TRUE, !.keepAlive = keepAlive]
          IN  t \in Tunnel /\ t.transport = tunnel[l].transport
    BY <1>a DEF Tunnel
  <2>4. tunnel' \in [Tunnels -> Tunnel]
    BY <1>a, <2>1, <2>2, <2>3
  <2> DEFINE r == [sshCall[c] EXCEPT !.pc = "register"]
  <2>5. sshCall' = [sshCall EXCEPT ![c] = r]
    BY <1>11, <1>a DEF ShellStarts, SshGoto
  <2>6. r \in SshCall /\ r.pc = "register"
    BY <1>a DEF SshCall, CallPcs
  <2> HIDE DEF r, k
  <2> QED
    BY <1>11, <1>a, <2>2, <2>3, <2>4, <2>5, <2>6, TunnelsMove DEF ShellStarts
<1>12. ASSUME NEW c \in SshCallers, RegisterSession(c)
      PROVE  SshIInv'
  <2>1. sshSessions' \in [Hosts -> Tunnels \cup {NoTunnel}] /\ UNCHANGED <<tunnel, sweep>>
    BY <1>12, <1>a DEF RegisterSession, SshCall
  <2>2. "use" \in CallPcs \ {"delete"}
    BY DEF CallPcs
  <2> QED
    BY <1>2, <1>4, <1>12, <1>a, <2>1, <2>2 DEF RegisterSession
<1>13. ASSUME NEW c \in SshCallers, UseSession(c)
      PROVE  SshIInv'
  <2> DEFINE k == sshCall[c].session
  <2> DEFINE idle == IF Open(k) THEN 0 ELSE tunnel[k].idle
  <2>1. tunnel' = [tunnel EXCEPT ![k] = [tunnel[k] EXCEPT !.idle = idle]]
    BY <1>13, <1>a DEF UseSession
  <2>2. ASSUME k \in Tunnels
        PROVE  /\ [tunnel[k] EXCEPT !.idle = idle] \in Tunnel
               /\ [tunnel[k] EXCEPT !.idle = idle].transport = tunnel[k].transport
    <3>1. idle \in 0..AgeLimit
      BY <1>a, <2>2, AgeLimitPositive DEF Tunnel
    <3> HIDE DEF idle
    <3> QED
      BY <1>a, <2>2, <3>1 DEF Tunnel
  <2> HIDE DEF k, idle
  <2>3. /\ tunnel' \in [Tunnels -> Tunnel]
        /\ \A l \in Tunnels : tunnel'[l].transport = tunnel[l].transport
    BY <1>a, <2>1, <2>2
  <2> QED
    BY <1>4, <1>13, <1>a, <2>3 DEF UseSession
<1>14. ASSUME NEW c \in SshCallers, EndSshStep(c)
      PROVE  SshIInv'
  <2>1. \A l \in Tunnels : LET t == [tunnel[l] EXCEPT !.keepAlive = NoCaller]
                            IN  t \in Tunnel /\ t.transport = tunnel[l].transport
    BY <1>a DEF Tunnel
  <2>2. /\ tunnel' \in [Tunnels -> Tunnel]
        /\ \A l \in Tunnels : tunnel'[l].transport = tunnel[l].transport
    BY <1>14, <1>a, <2>1 DEF EndSshStep
  <2> QED
    BY <1>14, <1>a, <2>2, NoCallTyped, TunnelsMove DEF EndSshStep
<1>15. ASSUME NEW k \in Tunnels, ReaderEnds(k) \/ PeerFalls(k) \/ KeepAliveFails(k)
      PROVE  SshIInv'
  <2>1. \A l \in Tunnels :
          /\ LET t == [tunnel[l] EXCEPT !.alive = FALSE, !.silent = FALSE, !.keepAlive = NoCaller]
             IN  t \in Tunnel /\ t.transport = tunnel[l].transport
          /\ LET t == [tunnel[l] EXCEPT !.silent = TRUE]
             IN  t \in Tunnel /\ t.transport = tunnel[l].transport
    BY <1>a DEF Tunnel
  <2>2. /\ tunnel' \in [Tunnels -> Tunnel]
        /\ \A l \in Tunnels : tunnel'[l].transport = tunnel[l].transport
    BY <1>15, <1>a, <2>1 DEF ReaderEnds, PeerFalls, KeepAliveFails, MarkDead
  <2> QED
    BY <1>15, <1>a, <2>2, TunnelsMove DEF ReaderEnds, PeerFalls, KeepAliveFails
<1>16. CASE Sweep
  <2>1. /\ tunnel' \in [Tunnels -> Tunnel]
        /\ \A k \in Tunnels : tunnel'[k].transport \in {tunnel[k].transport, "closed"}
    BY <1>16, <1>a, TunnelsStay DEF Sweep
  <2>2. sshSessions' \in [Hosts -> Tunnels \cup {NoTunnel}]
    BY <1>16, <1>a DEF Sweep
  <2> QED
    BY <1>16, <1>a, <2>1, <2>2, TunnelsMove DEF Sweep
<1>17. CASE SessionsAge
  <2>1. /\ tunnel' \in [Tunnels -> Tunnel]
        /\ \A k \in Tunnels : tunnel'[k].transport = tunnel[k].transport
    BY <1>17, <1>a, TunnelsStay DEF SessionsAge
  <2> QED
    BY <1>17, <1>a, <2>1, TunnelsMove DEF SessionsAge
<1>18. CASE UNCHANGED sshVars
  BY <1>18 DEF SshIInv, SshTypeOK, ClosedBeforeDeleted, sshVars
<1> QED
  BY <1>1, <1>5, <1>6, <1>7, <1>8, <1>9, <1>10, <1>11, <1>12, <1>13, <1>14, <1>15,
     <1>16, <1>17, <1>18 DEF SshNext, SshStep

\* The type invariant of the SSH tool, for any hosts, tunnels and calls: map,
\* tunnels and calls keep their kinds and no age passes its limit.
THEOREM SshTyped == SshSpec => []SshTypeOK
<1>1. SshIInv => SshTypeOK
  BY DEF SshIInv
<1> QED
  BY <1>1, SshInitial, SshInductive, PTL DEF SshSpec

\* One step of a call.  What the call stops holding it has closed or put into
\* the map; what leaves the map it has closed before, or displaces.
LEMMA CallsDropNothing ==
  ASSUME SshIInv, NEW c \in SshCallers, SshStep(c), NEW k \in Tunnels,
         Open(k), Reachable(k), ~Reachable(k)'
  PROVE  ~Open(k)' \/ Displaces(c, k)
<1>a. /\ sshSessions \in [Hosts -> Tunnels \cup {NoTunnel}]
      /\ tunnel \in [Tunnels -> Tunnel]
      /\ sshCall \in [SshCallers -> SshCall]
  BY DEF SshIInv, SshTypeOK
<1>b. sshCall[c].host \in Hosts
  BY <1>a DEF SshCall
\* Another call holds what it held.
<1>c. ASSUME NEW d \in SshCallers, HeldBy(d, k), sshCall'[d] = sshCall[d]
      PROVE  FALSE
  BY <1>c DEF HeldBy, Reachable
<1>1. ASSUME UNCHANGED sshSessions, ~HeldBy(c, k),
             \A d \in SshCallers \ {c} : sshCall'[d] = sshCall[d]
      PROVE  FALSE
  BY <1>1, <1>c DEF Reachable, Registered
<1>2. CASE FindSession(c)
  BY <1>1, <1>2, <1>a DEF FindSession, HeldBy
<1>3. CASE CheckSession(c)
  BY <1>1, <1>3, <1>a DEF CheckSession, SshGoto, SshAnswer, HeldBy
<1>4. CASE CloseSession(c)
  <2>1. CASE k = sshCall[c].session
    BY <1>4, <1>a, <2>1, TunnelsStay DEF CloseSession, Open
  <2>2. CASE k # sshCall[c].session
    BY <1>1, <1>4, <1>a, <2>2 DEF CloseSession, SshGoto, HeldBy
  <2> QED
    BY <2>1, <2>2
<1>5. CASE DeleteSession(c)
  <2>1. sshCall[c].session # k
    BY <1>5 DEF DeleteSession, SshIInv, ClosedBeforeDeleted, Open
  <2>2. \A d \in SshCallers \ {c} : sshCall'[d] = sshCall[d]
    BY <1>5, <1>a DEF DeleteSession, SshAnswer
  <2>3. ~HeldBy(c, k)
    BY <1>5 DEF DeleteSession, HeldBy
  <2>4. Registered(k)
    BY <1>c, <2>2, <2>3 DEF Reachable
  <2>5. sshSessions[sshCall[c].host] = k /\ sshSessions'[sshCall[c].host] = NoTunnel
    BY <1>5, <1>a, <1>b, <2>4 DEF DeleteSession, Registered, Reachable
  <2> QED
    BY <1>5, <2>1, <2>5 DEF DeleteSession, Displaces
<1>6. CASE DialHost(c)
  <2>1. \A d \in SshCallers \ {c} : sshCall'[d] = sshCall[d]
    BY <1>6, <1>a DEF DialHost, SshAnswer
  <2> QED
    BY <1>1, <1>6, <2>1 DEF DialHost, HeldBy
<1>7. CASE ShellFails(c)
  <2>1. CASE k = sshCall[c].session
    BY <1>7, <1>a, <2>1, TunnelsStay DEF ShellFails, Open
  <2>2. CASE k # sshCall[c].session
    BY <1>1, <1>7, <1>a, <2>2 DEF ShellFails, SshAnswer, HeldBy
  <2> QED
    BY <2>1, <2>2
<1>8. CASE ShellStarts(c)
  <2>1. /\ sshCall' = [sshCall EXCEPT ![c].pc = "register"]
        /\ sshCall[c].pc = "shell" /\ UNCHANGED sshSessions
    BY <1>8 DEF ShellStarts, SshGoto
  <2>2. HeldBy(c, k) => HeldBy(c, k)'
    BY <1>a, <2>1 DEF HeldBy, SshCall
  <2>3. \A d \in SshCallers \ {c} : sshCall'[d] = sshCall[d]
    BY <1>a, <2>1
  <2> QED
    BY <1>1, <2>1, <2>2, <2>3 DEF Reachable
<1>9. CASE RegisterSession(c)
  <2>1. /\ sshSessions' = [sshSessions EXCEPT ![sshCall[c].host] = sshCall[c].session]
        /\ sshCall[c].pc = "register"
    BY <1>9 DEF RegisterSession
  <2>2. sshCall[c].session # k
    BY <1>a, <1>b, <2>1 DEF Reachable, Registered
  <2>3. \A d \in SshCallers \ {c} : sshCall'[d] = sshCall[d]
    BY <1>9, <1>a DEF RegisterSession, SshAnswer, SshGoto
  <2>4. ~HeldBy(c, k)
    BY <2>2 DEF HeldBy
  <2>5. Registered(k)
    BY <1>c, <2>3, <2>4 DEF Reachable
  <2>6. sshSessions[sshCall[c].host] = k
    BY <1>a, <1>b, <2>1, <2>5 DEF Registered, Reachable
  <2> QED
    BY <1>a, <1>b, <2>1, <2>2, <2>6 DEF Displaces
<1>10. CASE UseSession(c)
  BY <1>1, <1>10, <1>a DEF UseSession, SshAnswer, HeldBy
<1>11. CASE EndSshStep(c)
  BY <1>1, <1>11, <1>a DEF EndSshStep, HeldBy
<1> QED
  BY <1>2, <1>3, <1>4, <1>5, <1>6, <1>7, <1>8, <1>9, <1>10, <1>11 DEF SshStep

\* The step property of LostOnlyByDisplacement, for every step.
LEMMA NothingElseIsLost ==
  ASSUME SshIInv, [SshNext]_sshVars, NEW k \in Tunnels,
         Open(k), Reachable(k), ~Reachable(k)'
  PROVE  ~Open(k)' \/ \E c \in SshCallers : Displaces(c, k)
<1>a. /\ sshSessions \in [Hosts -> Tunnels \cup {NoTunnel}]
      /\ tunnel \in [Tunnels -> Tunnel]
      /\ sshCall \in [SshCallers -> SshCall]
  BY DEF SshIInv, SshTypeOK
<1>1. ASSUME NEW c \in SshCallers, CallSsh(c)
      PROVE  FALSE
  BY <1>1, <1>a DEF CallSsh, Reachable, Registered, HeldBy
<1>2. ASSUME NEW c \in SshCallers, SshStep(c)
      PROVE  ~Open(k)' \/ Displaces(c, k)
  BY <1>2, CallsDropNothing
<1>3. ASSUME UNCHANGED <<sshSessions, sshCall>>
      PROVE  FALSE
  BY <1>3 DEF Reachable, Registered, HeldBy
<1>4. CASE Sweep
  <2>1. UNCHANGED sshCall
    BY <1>4 DEF Sweep
  <2>2. Registered(k) /\ ~Registered(k)'
    BY <2>1 DEF Reachable, HeldBy
  <2>3. PICK h \in Hosts : sshSessions[h] = k
    BY <2>2 DEF Registered
  <2>4. k # NoTunnel
    BY SshAssumption
  <2>5. Swept(k)
    BY <1>4, <1>a, <2>2, <2>3, <2>4 DEF Sweep, Registered
  <2>6. tunnel'[k] = Closed(tunnel[k])
    BY <1>4, <1>a, <2>3, <2>4, <2>5 DEF Sweep
  <2> QED
    BY <1>a, <2>6, TunnelsStay DEF Open
<1> QED
  BY <1>1, <1>2, <1>3, <1>4
  DEF SshNext, sshVars, ReaderEnds, PeerFalls, KeepAliveFails, SessionsAge

\* ssh.go: an open connection is lost from sight only when a call for its host
\* displaces its entry, for any number of hosts, connections and calls and
\* whatever fails while a connection is made.
THEOREM ConnectionsLostByDisplacement == SshSpec => LostOnlyByDisplacement
<1>1. SshIInv /\ [SshNext]_sshVars =>
        [\A k \in Tunnels :
           (Open(k) /\ Reachable(k) /\ ~Reachable(k)') =>
             \/ ~Open(k)'
             \/ \E c \in SshCallers : Displaces(c, k)]_sshVars
  BY NothingElseIsLost
<1> QED
  BY <1>1, SshInitial, SshInductive, PTL DEF SshSpec, LostOnlyByDisplacement
-----------------------------------------------------------------------------
(* Handles of the database pools, in the daemon                            *)

\* What a pool has for a key is an open handle on it.
PooledAreOpen ==
  \A k \in DbKeys :
    dbPool[k] # NoHandle => HandleOpen(dbPool[k]) /\ handle[dbPool[k]].key = k

\* A handle that is being pinged is open, on a key the pool has nothing for.
PingedAreNew ==
  \A c \in DbCallers :
    dbCall[c].pc = "ping" =>
      /\ dbCall[c].db \in Handles /\ HandleOpen(dbCall[c].db)
      /\ handle[dbCall[c].db].key = dbCall[c].key
      /\ dbPool[dbCall[c].key] = NoHandle

\* Whoever pings holds the write lock of the pool.
OneWriter ==
  \A c, d \in DbCallers :
    dbCall[c].pc = "ping" /\ dbCall[d].pc = "ping" /\ c # d =>
      dbCall[c].key \notin PoolOf(dbCall[d].key)

\* Every open handle is in its pool or being pinged on the way there.
OpenAccounted ==
  \A h \in Handles :
    HandleOpen(h) =>
      \/ dbPool[handle[h].key] = h
      \/ \E c \in DbCallers : dbCall[c].pc = "ping" /\ dbCall[c].db = h

\* What a caller uses has been opened, nobody pings it any more, and it is closed
\* only if everything of db_manager is.
UsedWork ==
  \A c \in DbCallers :
    dbCall[c].pc = "use" =>
      /\ dbCall[c].db \in Handles /\ handle[dbCall[c].db].state # "none"
      /\ ~HandleOpen(dbCall[c].db) => closedAll
      /\ \A d \in DbCallers : dbCall[d].pc = "ping" => dbCall[d].db # dbCall[c].db

PoolIInv ==
  /\ PoolTypeOK /\ PooledAreOpen /\ PingedAreNew /\ OneWriter /\ OpenAccounted
  /\ UsedWork

\* The pools have no key in common, and each key is in its own.
LEMMA PoolsApart ==
  ASSUME NEW j \in DbKeys, NEW k \in DbKeys
  PROVE  k \in PoolOf(k) /\ (j \in PoolOf(k) => k \in PoolOf(j))
BY PoolAssumption DEF PoolOf, DbKeys

\* At the start the pools are empty.
LEMMA PoolInitial == PoolInit => PoolIInv
<1> DEFINE some == CHOOSE k \in DbKeys : TRUE
<1>1. some \in DbKeys
  <2>1. \E k \in DbKeys : TRUE
    BY PoolAssumption DEF DbKeys
  <2> QED
    BY <2>1, Zenon
<1>2. PoolInit =>
        /\ dbPool = [k \in DbKeys |-> NoHandle]
        /\ handle = [h \in Handles |-> [state |-> "none", key |-> some]]
        /\ dbCall = [c \in DbCallers |-> [pc |-> "idle", db |-> NoHandle, key |-> some]]
        /\ closedAll = FALSE
  BY Zenon DEF PoolInit
<1> HIDE DEF some
<1>3. PoolInit => /\ \A k \in DbKeys : dbPool[k] = NoHandle
                  /\ \A h \in Handles : handle[h].state = "none"
                  /\ \A c \in DbCallers : dbCall[c].pc = "idle"
  BY <1>2
<1>4. PoolInit => PoolTypeOK
  <2>1. PoolInit => dbPool \in [DbKeys -> Handles \cup {NoHandle}]
    BY <1>2
  <2>2. PoolInit =>
          handle \in [Handles -> [state : {"none", "open", "closed"}, key : DbKeys]]
    BY <1>1, <1>2
  <2>3. PoolInit =>
          dbCall \in [DbCallers -> [pc : {"idle", "look", "lock", "ping", "use"},
                                   db : Handles \cup {NoHandle}, key : DbKeys]]
    BY <1>1, <1>2
  <2> QED
    BY <1>2, <2>1, <2>2, <2>3 DEF PoolTypeOK
<1> QED
  BY <1>3, <1>4 DEF PoolIInv, PooledAreOpen, PingedAreNew, OneWriter, OpenAccounted,
     UsedWork, HandleOpen

\* A caller that goes on without taking, opening or dropping a handle changes
\* nothing of the others.
LEMMA CallersMove ==
  ASSUME PoolIInv, NEW c \in DbCallers, UNCHANGED <<dbPool, handle, closedAll>>,
         dbCall[c].pc # "ping",
         dbCall' \in [DbCallers -> [pc : {"idle", "look", "lock", "ping", "use"},
                                    db : Handles \cup {NoHandle}, key : DbKeys]],
         dbCall'[c].pc \in {"idle", "look", "lock"},
         \A d \in DbCallers \ {c} : dbCall'[d] = dbCall[d]
  PROVE  PoolIInv'
<1>1. \A d \in DbCallers : dbCall'[d].pc \in {"ping", "use"} => dbCall'[d] = dbCall[d]
  OBVIOUS
<1>2. \A d \in DbCallers : dbCall[d].pc = "ping" => dbCall'[d] = dbCall[d]
  OBVIOUS
<1>3. PoolTypeOK' /\ PooledAreOpen'
  BY DEF PoolIInv, PoolTypeOK, PooledAreOpen, HandleOpen
<1>4. PingedAreNew' /\ OneWriter'
  BY <1>1 DEF PoolIInv, PingedAreNew, OneWriter, HandleOpen, PoolOf
<1>5. OpenAccounted'
  BY <1>2 DEF PoolIInv, OpenAccounted, HandleOpen
<1>6. UsedWork'
  BY <1>1 DEF PoolIInv, UsedWork, HandleOpen
<1> QED
  BY <1>3, <1>4, <1>5, <1>6 DEF PoolIInv

\* A caller that takes what the pool has uses an open handle nobody pings.
LEMMA CallersTake ==
  ASSUME PoolIInv, NEW c \in DbCallers, NEW k \in DbKeys,
         dbCall[c].pc # "ping", dbPool[k] # NoHandle, DbTake(c, dbPool[k]),
         UNCHANGED <<dbPool, handle, closedAll>>
  PROVE  PoolIInv'
<1>a. /\ dbPool \in [DbKeys -> Handles \cup {NoHandle}]
      /\ dbCall \in [DbCallers -> [pc : {"idle", "look", "lock", "ping", "use"},
                                   db : Handles \cup {NoHandle}, key : DbKeys]]
  BY DEF PoolIInv, PoolTypeOK
<1>1. /\ dbPool[k] \in Handles /\ HandleOpen(dbPool[k]) /\ handle[dbPool[k]].key = k
      /\ handle[dbPool[k]].state # "none"
  BY <1>a DEF PoolIInv, PooledAreOpen, HandleOpen
<1>2. /\ dbCall'[c] = [dbCall[c] EXCEPT !.pc = "use", !.db = dbPool[k]]
      /\ \A d \in DbCallers \ {c} : dbCall'[d] = dbCall[d]
      /\ dbCall' \in [DbCallers -> [pc : {"idle", "look", "lock", "ping", "use"},
                                    db : Handles \cup {NoHandle}, key : DbKeys]]
  BY <1>a, <1>1 DEF DbTake
<1>3. dbCall'[c].pc = "use" /\ dbCall'[c].db = dbPool[k]
  BY <1>a, <1>2
<1>4. \A d \in DbCallers : dbCall[d].pc = "ping" => dbCall[d].db # dbPool[k]
  BY <1>1 DEF PoolIInv, PingedAreNew
<1>5. PoolTypeOK' /\ PooledAreOpen'
  BY <1>2 DEF PoolIInv, PoolTypeOK, PooledAreOpen, HandleOpen
<1>b. \A d \in DbCallers : dbCall'[d].pc = "ping" => dbCall'[d] = dbCall[d]
  BY <1>2, <1>3
<1>6. PingedAreNew' /\ OneWriter'
  <2>1. PingedAreNew'
    BY <1>b DEF PoolIInv, PingedAreNew, HandleOpen
  <2>2. OneWriter'
    BY <1>b DEF PoolIInv, OneWriter, PoolOf
  <2> QED
    BY <2>1, <2>2
<1>7. OpenAccounted'
  BY <1>2 DEF PoolIInv, OpenAccounted, HandleOpen
<1>8. UsedWork'
  <2>1. SUFFICES ASSUME NEW u \in DbCallers, dbCall'[u].pc = "use"
                 PROVE  /\ dbCall'[u].db \in Handles /\ handle[dbCall'[u].db].state # "none"
                        /\ handle[dbCall'[u].db].state # "open" => closedAll
                        /\ \A d \in DbCallers :
                             dbCall'[d].pc = "ping" => dbCall'[d].db # dbCall'[u].db
    BY DEF UsedWork, HandleOpen
  <2>3. CASE u = c
    BY <1>1, <1>3, <1>4, <1>b, <2>3 DEF HandleOpen
  <2>4. CASE u # c
    BY <1>2, <2>1, <1>b, <2>4 DEF PoolIInv, UsedWork, HandleOpen
  <2> QED
    BY <2>3, <2>4
<1> QED
  BY <1>5, <1>6, <1>7, <1>8 DEF PoolIInv

\* A caller that opens a handle holds the write lock, and the pool has none.
LEMMA CallersOpen ==
  ASSUME PoolIInv, NEW c \in DbCallers, NEW h \in Handles,
         dbCall[c].pc = "lock", LockFree(dbCall[c].key),
         dbPool[dbCall[c].key] = NoHandle, handle[h].state = "none",
         handle' = [handle EXCEPT ![h] = [state |-> "open", key |-> dbCall[c].key]],
         dbCall' = [dbCall EXCEPT ![c].pc = "ping", ![c].db = h],
         UNCHANGED <<dbPool, closedAll>>
  PROVE  PoolIInv'
<1>a. /\ dbPool \in [DbKeys -> Handles \cup {NoHandle}]
      /\ handle \in [Handles -> [state : {"none", "open", "closed"}, key : DbKeys]]
      /\ dbCall \in [DbCallers -> [pc : {"idle", "look", "lock", "ping", "use"},
                                   db : Handles \cup {NoHandle}, key : DbKeys]]
  BY DEF PoolIInv, PoolTypeOK
<1>1. /\ dbCall'[c].pc = "ping" /\ dbCall'[c].db = h /\ dbCall'[c].key = dbCall[c].key
      /\ \A d \in DbCallers \ {c} : dbCall'[d] = dbCall[d]
  BY <1>a
<1>2. /\ handle'[h].state = "open" /\ handle'[h].key = dbCall[c].key
      /\ \A g \in Handles \ {h} : handle'[g] = handle[g]
  BY <1>a
<1>3. PoolTypeOK'
  <2>1. handle' \in [Handles -> [state : {"none", "open", "closed"}, key : DbKeys]]
    BY <1>a
  <2>2. dbCall' \in [DbCallers -> [pc : {"idle", "look", "lock", "ping", "use"},
                                   db : Handles \cup {NoHandle}, key : DbKeys]]
    <3> DEFINE r == [dbCall[c] EXCEPT !.pc = "ping", !.db = h]
    <3>1. dbCall' = [dbCall EXCEPT ![c] = r]
      BY <1>a
    <3>2. r \in [pc : {"idle", "look", "lock", "ping", "use"},
                db : Handles \cup {NoHandle}, key : DbKeys]
      BY <1>a
    <3> HIDE DEF r
    <3> QED
      BY <1>a, <3>1, <3>2
  <2> QED
    BY <2>1, <2>2 DEF PoolIInv, PoolTypeOK
<1>4. PooledAreOpen'
  BY <1>a, <1>2 DEF PoolIInv, PooledAreOpen, HandleOpen
<1>5. PingedAreNew'
  BY <1>a, <1>1, <1>2 DEF PoolIInv, PingedAreNew, HandleOpen
<1>6. OneWriter'
  <2>1. \A d \in DbCallers : dbCall[d].pc = "ping" =>
          /\ dbCall[d].key \notin PoolOf(dbCall[c].key)
          /\ dbCall[c].key \notin PoolOf(dbCall[d].key)
    BY <1>a, PoolsApart DEF LockFree
  <2>2. \A k : PoolOf(k)' = PoolOf(k)
    BY DEF PoolOf
  <2>3. SUFFICES ASSUME NEW d \in DbCallers, NEW e \in DbCallers,
                        dbCall'[d].pc = "ping", dbCall'[e].pc = "ping", d # e
                 PROVE  dbCall'[d].key \notin PoolOf(dbCall'[e].key)
    BY DEF OneWriter, PoolOf
  <2>4. CASE d = c
    BY <1>1, <2>1, <2>3, <2>4
  <2>5. CASE e = c
    BY <1>1, <2>1, <2>3, <2>5
  <2>6. CASE d # c /\ e # c
    BY <1>1, <2>3, <2>6 DEF PoolIInv, OneWriter
  <2> QED
    BY <2>4, <2>5, <2>6
<1>7. OpenAccounted'
  <2>1. SUFFICES ASSUME NEW g \in Handles, handle'[g].state = "open"
                 PROVE  \/ dbPool'[handle'[g].key] = g
                        \/ \E d \in DbCallers : dbCall'[d].pc = "ping" /\ dbCall'[d].db = g
    BY DEF OpenAccounted, HandleOpen
  <2>2. CASE g = h
    BY <1>1, <2>2
  <2>3. CASE g # h
    <3>1. handle'[g] = handle[g]
      BY <1>2, <2>3
    <3>2. \/ dbPool[handle[g].key] = g
          \/ \E d \in DbCallers : dbCall[d].pc = "ping" /\ dbCall[d].db = g
      BY <2>1, <3>1 DEF PoolIInv, OpenAccounted, HandleOpen
    <3>3. \A d \in DbCallers : dbCall[d].pc = "ping" => dbCall'[d] = dbCall[d]
      BY <1>1
    <3> QED
      BY <3>1, <3>2, <3>3
  <2> QED
    BY <2>2, <2>3
<1>8. UsedWork'
  BY <1>a, <1>1, <1>2 DEF PoolIInv, UsedWork, HandleOpen
<1> QED
  BY <1>3, <1>4, <1>5, <1>6, <1>7, <1>8 DEF PoolIInv

\* A handle whose ping fails was nobody else's.
LEMMA PingsFail ==
  ASSUME PoolIInv, NEW c \in DbCallers, PingFails(c)
  PROVE  PoolIInv'
<1> DEFINE h == dbCall[c].db
<1>a. /\ dbPool \in [DbKeys -> Handles \cup {NoHandle}]
      /\ handle \in [Handles -> [state : {"none", "open", "closed"}, key : DbKeys]]
      /\ dbCall \in [DbCallers -> [pc : {"idle", "look", "lock", "ping", "use"},
                                   db : Handles \cup {NoHandle}, key : DbKeys]]
  BY DEF PoolIInv, PoolTypeOK
<1>b. dbCall[c].pc = "ping" /\ UNCHANGED <<dbPool, closedAll>>
  BY DEF PingFails
<1>c. h \in Handles /\ handle[h].key = dbCall[c].key /\ dbPool[dbCall[c].key] = NoHandle
  BY <1>b DEF PoolIInv, PingedAreNew
<1>1. /\ dbCall'[c].pc = "idle"
      /\ \A d \in DbCallers \ {c} : dbCall'[d] = dbCall[d]
  BY <1>a DEF PingFails, DbReturn
<1>2. /\ handle'[h].state = "closed"
      /\ \A g \in Handles \ {h} : handle'[g] = handle[g]
  BY <1>a, <1>c DEF PingFails
<1>3. PoolTypeOK'
  <2>1. handle' \in [Handles -> [state : {"none", "open", "closed"}, key : DbKeys]]
    BY <1>a, <1>c DEF PingFails
  <2>2. dbCall' \in [DbCallers -> [pc : {"idle", "look", "lock", "ping", "use"},
                                   db : Handles \cup {NoHandle}, key : DbKeys]]
    BY <1>a DEF PingFails, DbReturn
  <2> QED
    BY <1>b, <2>1, <2>2 DEF PoolIInv, PoolTypeOK
<1>4. \A d \in DbCallers \ {c} : dbCall[d].pc = "ping" => dbCall[d].db # h
  <2>1. SUFFICES ASSUME NEW d \in DbCallers \ {c}, dbCall[d].pc = "ping", dbCall[d].db = h
                 PROVE  FALSE
    OBVIOUS
  <2>2. dbCall[d].key = dbCall[c].key
    BY <1>c, <2>1 DEF PoolIInv, PingedAreNew
  <2>3. dbCall[d].key \notin PoolOf(dbCall[c].key)
    BY <1>b, <2>1 DEF PoolIInv, OneWriter
  <2> QED
    BY <1>a, <2>2, <2>3, PoolsApart
<1>5. PooledAreOpen'
  <2>1. \A k \in DbKeys : dbPool[k] # h
    BY <1>c, PoolAssumption DEF PoolIInv, PooledAreOpen
  <2> QED
    BY <1>a, <1>b, <1>2, <2>1 DEF PoolIInv, PooledAreOpen, HandleOpen
<1>6. PingedAreNew' /\ OneWriter'
  BY <1>b, <1>1, <1>2, <1>4 DEF PoolIInv, PingedAreNew, OneWriter, HandleOpen, PoolOf
<1>7. OpenAccounted'
  <2>1. SUFFICES ASSUME NEW g \in Handles, handle'[g].state = "open"
                 PROVE  \/ dbPool'[handle'[g].key] = g
                        \/ \E d \in DbCallers : dbCall'[d].pc = "ping" /\ dbCall'[d].db = g
    BY DEF OpenAccounted, HandleOpen
  <2>2. g # h /\ handle'[g] = handle[g]
    BY <1>2, <2>1
  <2>3. \/ dbPool[handle[g].key] = g
        \/ \E d \in DbCallers : dbCall[d].pc = "ping" /\ dbCall[d].db = g
    BY <2>1, <2>2 DEF PoolIInv, OpenAccounted, HandleOpen
  <2> QED
    BY <1>b, <1>1, <2>2, <2>3
<1>8. UsedWork'
  BY <1>b, <1>1, <1>2 DEF PoolIInv, UsedWork, HandleOpen
<1> QED
  BY <1>3, <1>5, <1>6, <1>7, <1>8 DEF PoolIInv

\* A handle that is stored was the only open one on its key.
LEMMA HandlesStored ==
  ASSUME PoolIInv, NEW c \in DbCallers, StoreHandle(c)
  PROVE  PoolIInv'
<1> DEFINE h == dbCall[c].db
           k == dbCall[c].key
<1>a. /\ dbPool \in [DbKeys -> Handles \cup {NoHandle}]
      /\ handle \in [Handles -> [state : {"none", "open", "closed"}, key : DbKeys]]
      /\ dbCall \in [DbCallers -> [pc : {"idle", "look", "lock", "ping", "use"},
                                   db : Handles \cup {NoHandle}, key : DbKeys]]
  BY DEF PoolIInv, PoolTypeOK
<1>b. dbCall[c].pc = "ping" /\ UNCHANGED <<handle, closedAll>> /\ k \in DbKeys
  BY <1>a DEF StoreHandle
<1>c. /\ h \in Handles /\ handle[h].state = "open" /\ handle[h].key = k
      /\ dbPool[k] = NoHandle
  BY <1>b DEF PoolIInv, PingedAreNew, HandleOpen
<1>1. /\ dbCall'[c].pc = "use" /\ dbCall'[c].db = h
      /\ \A d \in DbCallers \ {c} : dbCall'[d] = dbCall[d]
  BY <1>a DEF StoreHandle, DbGoto
<1>2. dbPool'[k] = h /\ \A j \in DbKeys \ {k} : dbPool'[j] = dbPool[j]
  BY <1>a, <1>b DEF StoreHandle
<1>3. PoolTypeOK'
  BY <1>a, <1>b, <1>c DEF StoreHandle, DbGoto, PoolIInv, PoolTypeOK
<1>4. \A d \in DbCallers \ {c} : dbCall[d].pc = "ping" => dbCall[d].db # h /\ dbCall[d].key # k
  <2>1. SUFFICES ASSUME NEW d \in DbCallers \ {c}, dbCall[d].pc = "ping"
                 PROVE  dbCall[d].key # k
    BY <1>c DEF PoolIInv, PingedAreNew
  <2>2. dbCall[d].key \notin PoolOf(k)
    BY <1>b, <2>1 DEF PoolIInv, OneWriter
  <2> QED
    BY <1>b, <2>2, PoolsApart
<1>5. PooledAreOpen'
  BY <1>b, <1>c, <1>2 DEF PoolIInv, PooledAreOpen, HandleOpen
<1>6. PingedAreNew'
  <2>1. SUFFICES ASSUME NEW d \in DbCallers, dbCall'[d].pc = "ping"
                 PROVE  /\ dbCall'[d].db \in Handles /\ handle[dbCall'[d].db].state = "open"
                        /\ handle[dbCall'[d].db].key = dbCall'[d].key
                        /\ dbPool'[dbCall'[d].key] = NoHandle
    BY <1>b DEF PingedAreNew, HandleOpen
  <2>2. d # c /\ dbCall'[d] = dbCall[d]
    BY <1>1, <2>1
  <2> QED
    BY <1>a, <1>2, <1>4, <2>1, <2>2 DEF PoolIInv, PingedAreNew, HandleOpen
<1>7. OneWriter'
  BY <1>1 DEF PoolIInv, OneWriter, PoolOf
<1>8. OpenAccounted'
  <2>1. SUFFICES ASSUME NEW g \in Handles, handle[g].state = "open"
                 PROVE  \/ dbPool'[handle[g].key] = g
                        \/ \E d \in DbCallers : dbCall'[d].pc = "ping" /\ dbCall'[d].db = g
    BY <1>b DEF OpenAccounted, HandleOpen
  <2>2. CASE g = h
    BY <1>c, <1>2, <2>2
  <2>3. CASE g # h
    <3>1. \/ dbPool[handle[g].key] = g
          \/ \E d \in DbCallers : dbCall[d].pc = "ping" /\ dbCall[d].db = g
      BY <2>1 DEF PoolIInv, OpenAccounted, HandleOpen
    <3>2. CASE dbPool[handle[g].key] = g
      BY <1>a, <1>c, <1>2, <2>1, <3>2, PoolAssumption
    <3>3. CASE \E d \in DbCallers : dbCall[d].pc = "ping" /\ dbCall[d].db = g
      BY <1>1, <2>3, <3>3
    <3> QED
      BY <3>1, <3>2, <3>3
  <2> QED
    BY <2>2, <2>3
<1>9. UsedWork'
  BY <1>b, <1>c, <1>1, <1>4 DEF PoolIInv, UsedWork, HandleOpen
<1> QED
  BY <1>3, <1>5, <1>6, <1>7, <1>8, <1>9 DEF PoolIInv

\* The end of the daemon closes and forgets what db_manager has stored, while
\* nobody pings a database of db_manager's.
LEMMA AllClosed ==
  ASSUME PoolIInv, CloseAll
  PROVE  PoolIInv'
<1> DEFINE Gone(h) == \E k \in Managed : dbPool[k] = h
<1>a. /\ dbPool \in [DbKeys -> Handles \cup {NoHandle}]
      /\ handle \in [Handles -> [state : {"none", "open", "closed"}, key : DbKeys]]
      /\ dbCall \in [DbCallers -> [pc : {"idle", "look", "lock", "ping", "use"},
                                   db : Handles \cup {NoHandle}, key : DbKeys]]
  BY DEF PoolIInv, PoolTypeOK
<1>b. UNCHANGED dbCall /\ closedAll' = TRUE
  BY DEF CloseAll
<1>1. \A h \in Handles :
        /\ handle'[h].key = handle[h].key
        /\ handle'[h].state = IF Gone(h) THEN "closed" ELSE handle[h].state
        /\ handle'[h] \in [state : {"none", "open", "closed"}, key : DbKeys]
  BY <1>a DEF CloseAll
<1>2. /\ \A k \in Managed : dbPool'[k] = NoHandle
      /\ \A k \in DbKeys \ Managed : dbPool'[k] = dbPool[k]
  BY DEF CloseAll, DbKeys
<1>3. PoolTypeOK'
  BY <1>a, <1>b, <1>1, <1>2 DEF CloseAll, PoolTypeOK
<1>4. \A h \in Handles : Gone(h) => handle[h].key \in Managed
  BY <1>a, PoolAssumption DEF PoolIInv, PooledAreOpen, DbKeys
<1>5. \A c \in DbCallers : dbCall[c].pc = "ping" => dbCall[c].key \in DbKeys \ Managed
  <2>1. \A k \in Managed : PoolOf(k) = Managed
    BY DEF PoolOf
  <2>2. \A c \in DbCallers, k \in Managed :
          dbCall[c].pc = "ping" => dbCall[c].key \notin PoolOf(k)
    BY DEF CloseAll, LockFree
  <2> QED
    BY <1>a, <2>1, <2>2, PoolAssumption
<1>6. PooledAreOpen'
  <2>1. SUFFICES ASSUME NEW k \in DbKeys, dbPool'[k] # NoHandle
                 PROVE  handle'[dbPool'[k]].state = "open" /\ handle'[dbPool'[k]].key = k
    BY DEF PooledAreOpen, HandleOpen
  <2>2. k \notin Managed /\ dbPool'[k] = dbPool[k] /\ dbPool[k] \in Handles
    BY <1>a, <1>2, <2>1
  <2>3. handle[dbPool[k]].state = "open" /\ handle[dbPool[k]].key = k
    BY <2>1, <2>2 DEF PoolIInv, PooledAreOpen, HandleOpen
  <2>4. ~Gone(dbPool[k])
    BY <1>4, <2>2, <2>3
  <2> QED
    BY <1>1, <2>2, <2>3, <2>4
<1>7. PingedAreNew'
  <2>1. SUFFICES ASSUME NEW c \in DbCallers, dbCall[c].pc = "ping"
                 PROVE  /\ dbCall[c].db \in Handles /\ handle'[dbCall[c].db].state = "open"
                        /\ handle'[dbCall[c].db].key = dbCall[c].key
                        /\ dbPool'[dbCall[c].key] = NoHandle
    BY <1>b DEF PingedAreNew, HandleOpen
  <2>2. /\ dbCall[c].db \in Handles /\ handle[dbCall[c].db].state = "open"
        /\ handle[dbCall[c].db].key = dbCall[c].key /\ dbPool[dbCall[c].key] = NoHandle
    BY <2>1 DEF PoolIInv, PingedAreNew, HandleOpen
  <2>3. ~Gone(dbCall[c].db)
    BY <1>4, <1>5, <2>1, <2>2
  <2> QED
    BY <1>1, <1>2, <1>5, <2>1, <2>2, <2>3
<1>8. OneWriter'
  BY <1>b DEF PoolIInv, OneWriter, PoolOf
<1>9. OpenAccounted'
  <2>1. SUFFICES ASSUME NEW h \in Handles, handle'[h].state = "open"
                 PROVE  \/ dbPool'[handle[h].key] = h
                        \/ \E c \in DbCallers : dbCall[c].pc = "ping" /\ dbCall[c].db = h
    BY <1>b, <1>1 DEF OpenAccounted, HandleOpen
  <2>2. ~Gone(h) /\ handle[h].state = "open" /\ handle[h].key \in DbKeys
    BY <1>a, <1>1, <2>1
  <2>3. \/ dbPool[handle[h].key] = h
        \/ \E c \in DbCallers : dbCall[c].pc = "ping" /\ dbCall[c].db = h
    BY <2>2 DEF PoolIInv, OpenAccounted, HandleOpen
  <2> QED
    BY <1>2, <2>2, <2>3
<1>10. UsedWork'
  BY <1>b, <1>1 DEF PoolIInv, UsedWork, HandleOpen
<1> QED
  BY <1>3, <1>6, <1>7, <1>8, <1>9, <1>10 DEF PoolIInv

\* A step of one caller.
LEMMA HandleSteps ==
  ASSUME PoolIInv, NEW c \in DbCallers, WantHandle(c) \/ HandleStep(c)
  PROVE  PoolIInv'
<1>a. /\ dbPool \in [DbKeys -> Handles \cup {NoHandle}]
      /\ dbCall \in [DbCallers -> [pc : {"idle", "look", "lock", "ping", "use"},
                                   db : Handles \cup {NoHandle}, key : DbKeys]]
      /\ dbCall[c].key \in DbKeys
  BY DEF PoolIInv, PoolTypeOK
<1>1. CASE WantHandle(c)
  <2>1. PICK k \in DbKeys : dbCall' = [dbCall EXCEPT ![c].pc = "look", ![c].key = k]
    BY <1>1 DEF WantHandle
  <2>2. dbCall[c].pc = "idle" /\ UNCHANGED <<dbPool, handle, closedAll>>
    BY <1>1 DEF WantHandle
  <2>3. /\ dbCall' \in [DbCallers -> [pc : {"idle", "look", "lock", "ping", "use"},
                                      db : Handles \cup {NoHandle}, key : DbKeys]]
        /\ dbCall'[c].pc = "look" /\ \A d \in DbCallers \ {c} : dbCall'[d] = dbCall[d]
    BY <1>a, <2>1
  <2> QED
    BY <2>2, <2>3, CallersMove
<1>2. CASE FindHandle(c)
  <2>1. CASE dbPool[dbCall[c].key] # NoHandle
    BY <1>2, <1>a, <2>1, CallersTake DEF FindHandle
  <2>2. CASE dbPool[dbCall[c].key] = NoHandle
    BY <1>2, <1>a, <2>2, CallersMove DEF FindHandle, DbGoto
  <2> QED
    BY <2>1, <2>2
<1>3. CASE OpenHandle(c)
  <2>1. CASE dbPool[dbCall[c].key] # NoHandle
    BY <1>3, <1>a, <2>1, CallersTake DEF OpenHandle
  <2>2. CASE DbReturn(c) /\ UNCHANGED handle
    BY <1>3, <1>a, <2>2, CallersMove DEF OpenHandle, DbReturn
  <2>3. CASE /\ dbPool[dbCall[c].key] = NoHandle
             /\ \E h \in Handles :
                  /\ handle[h].state = "none"
                  /\ handle' = [handle EXCEPT ![h] = [state |-> "open",
                                                      key |-> dbCall[c].key]]
                  /\ dbCall' = [dbCall EXCEPT ![c].pc = "ping", ![c].db = h]
    <3>1. PICK h \in Handles :
             /\ handle[h].state = "none"
             /\ handle' = [handle EXCEPT ![h] = [state |-> "open", key |-> dbCall[c].key]]
             /\ dbCall' = [dbCall EXCEPT ![c].pc = "ping", ![c].db = h]
      BY <2>3
    <3>2. /\ dbCall[c].pc = "lock" /\ LockFree(dbCall[c].key)
          /\ UNCHANGED <<dbPool, closedAll>>
      BY <1>3 DEF OpenHandle
    <3> QED
      BY <2>3, <3>1, <3>2, CallersOpen
  <2> QED
    BY <1>3, <2>1, <2>2, <2>3 DEF OpenHandle
<1>4. CASE PingFails(c)
  BY <1>4, PingsFail
<1>5. CASE StoreHandle(c)
  BY <1>5, HandlesStored
<1>6. CASE UseHandle(c)
  BY <1>6, <1>a, CallersMove DEF UseHandle, DbReturn
<1> QED
  BY <1>1, <1>2, <1>3, <1>4, <1>5, <1>6 DEF HandleStep

\* Only the callers and the end of the daemon touch the pools.
LEMMA PoolInductive ==
  ASSUME PoolIInv, [DaemonNext]_lifeVars
  PROVE  PoolIInv'
<1>1. CASE Databases
  BY <1>1, HandleSteps DEF Databases
<1>2. CASE CloseDatabases
  BY <1>2, AllClosed DEF CloseDatabases
<1>3. ASSUME UNCHANGED poolVars
      PROVE  PoolIInv'
  BY <1>3 DEF PoolIInv, PoolTypeOK, PooledAreOpen, PingedAreNew, OneWriter,
     OpenAccounted, UsedWork, HandleOpen, PoolOf, poolVars
<1>4. CASE WayUp
  BY <1>3, <1>4 DEF WayUp, Configure, ChooseBrains, OpenStores, RegisterTools,
     StartServices, StartHeartbeat, StartWhatsApp, StartKangal
<1>5. CASE WayDown
  BY <1>2, <1>3, <1>5 DEF WayDown, HeartbeatStop, HeartbeatStopCleanup, StopIpc, Cancel,
     Exit
<1>6. CASE Signal \/ MainExits \/ StopServices \/ HeartbeatPulse \/ HeartbeatLeaves
  BY <1>3, <1>6 DEF Signal, MainExits, StopServices, HeartbeatPulse, HeartbeatLeaves
<1>7. CASE UNCHANGED lifeVars
  BY <1>3, <1>7 DEF lifeVars
<1> QED
  BY <1>1, <1>4, <1>5, <1>6, <1>7 DEF DaemonNext

\* In no state of the daemon are two handles open on one key.
LEMMA OneOfAKind == PoolIInv => OneHandlePerKey
<1>1. SUFFICES ASSUME PoolIInv, NEW g \in Handles, NEW h \in Handles,
                      HandleOpen(g), HandleOpen(h), handle[g].key = handle[h].key
               PROVE  g = h
  BY DEF OneHandlePerKey
<1>2. dbPool[handle[g].key] = g \/
        \E c \in DbCallers : dbCall[c].pc = "ping" /\ dbCall[c].db = g
  BY <1>1 DEF PoolIInv, OpenAccounted
<1>3. dbPool[handle[h].key] = h \/
        \E d \in DbCallers : dbCall[d].pc = "ping" /\ dbCall[d].db = h
  BY <1>1 DEF PoolIInv, OpenAccounted
<1>4. \A c \in DbCallers, f \in Handles :
        dbCall[c].pc = "ping" /\ dbCall[c].db = f =>
          dbCall[c].key = handle[f].key /\ dbPool[handle[f].key] = NoHandle
  BY <1>1 DEF PoolIInv, PingedAreNew
<1>5. NoHandle \notin Handles
  BY PoolAssumption
<1>6. \A c, d \in DbCallers :
        /\ dbCall[c].pc = "ping" /\ dbCall[c].db = g
        /\ dbCall[d].pc = "ping" /\ dbCall[d].db = h
        => c = d
  <2>1. SUFFICES ASSUME NEW c \in DbCallers, NEW d \in DbCallers, c # d,
                        dbCall[c].pc = "ping", dbCall[c].db = g,
                        dbCall[d].pc = "ping", dbCall[d].db = h
                 PROVE  FALSE
    OBVIOUS
  <2>2. dbCall[c].key = dbCall[d].key /\ dbCall[c].key \in DbKeys
    BY <1>1, <1>4, <2>1 DEF PoolIInv, PoolTypeOK
  <2>3. dbCall[c].key \notin PoolOf(dbCall[d].key)
    BY <1>1, <2>1 DEF PoolIInv, OneWriter
  <2> QED
    BY <2>2, <2>3, PoolsApart
<1> QED
  BY <1>1, <1>2, <1>3, <1>4, <1>5, <1>6

\* manager.go, db_tool.go: however many goroutines ask for one database at once and
\* whichever ping fails, it has one open handle, for any databases and callers.
THEOREM OneHandle == DaemonSpec => []OneHandlePerKey
<1>1. DaemonInit => PoolIInv
  BY PoolInitial DEF DaemonInit
<1> QED
  BY <1>1, PoolInductive, OneOfAKind, PTL DEF DaemonSpec

\* manager.go, db_tool.go: nobody is given a closed handle, and none is closed under
\* its user before the end of the daemon, for any databases and callers.
THEOREM HandlesStayOpen == DaemonSpec => []HandlesWork
<1>1. DaemonInit => PoolIInv
  BY PoolInitial DEF DaemonInit
<1>2. PoolIInv => HandlesWork
  BY DEF PoolIInv, PingedAreNew, UsedWork, PooledAreOpen, HandlesWork
<1> QED
  BY <1>1, <1>2, PoolInductive, PTL DEF DaemonSpec

-----------------------------------------------------------------------------
(* The life of the daemon                                                  *)

\* What there is to say of the daemon besides its pools.
DaemonTyped ==
  /\ stage \in UpStages \cup DownStages
  /\ process \in {"up", "failed", "exited", "panicked"}
  /\ signalled \in BOOLEAN /\ cancelled \in BOOLEAN
  /\ hbLoop \in {"none", "select", "pulse", "ended"}
  /\ stopChan \in {"open", "closed"} /\ cleanupStopChan \in {"open", "closed"}

\* Each step of the daemon's life is from one of its stages to another.
LEMMA DaemonStaysTyped == DaemonTyped /\ [DaemonNext]_lifeVars => DaemonTyped'
<1> SUFFICES ASSUME DaemonTyped, [DaemonNext]_lifeVars
             PROVE  DaemonTyped'
  OBVIOUS
<1> USE DEF DaemonTyped, UpStages, DownStages, Enter, ExitWith, heartbeatVars, daemonVars
<1>1. CASE WayUp
  BY <1>1 DEF WayUp, Configure, ChooseBrains, OpenStores, RegisterTools, StartServices,
              StartHeartbeat, StartWhatsApp, StartKangal
<1>2. CASE Signal \/ MainExits \/ StopServices
  BY <1>2 DEF Signal, MainExits, StopServices
<1>3. CASE WayDown
  BY <1>3 DEF WayDown, HeartbeatStop, HeartbeatStopCleanup, CloseCleanupStopChan, StopIpc,
              CloseDatabases, Cancel, Exit
<1>4. CASE HeartbeatPulse \/ HeartbeatLeaves
  BY <1>4 DEF HeartbeatPulse, HeartbeatLeaves, CloseCleanupStopChan
<1>5. CASE Databases \/ UNCHANGED lifeVars
  BY <1>5 DEF Databases, lifeVars
<1> QED
  BY <1>1, <1>2, <1>3, <1>4, <1>5 DEF DaemonNext

LEMMA DaemonInitial == DaemonInit => DaemonTyped /\ PoolIInv
BY PoolInitial DEF DaemonInit, DaemonTyped, UpStages

\* The type invariant of the daemon: its stages, its channels and its pools.
THEOREM DaemonsTyped == DaemonSpec => []DaemonTypeOK
<1>1. DaemonTyped /\ PoolIInv => DaemonTypeOK
  BY DEF DaemonTyped, PoolIInv, DaemonTypeOK
<1> QED
  BY <1>1, DaemonInitial, DaemonStaysTyped, PoolInductive, PTL DEF DaemonSpec
=============================================================================
