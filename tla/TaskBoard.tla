----------------------------- MODULE TaskBoard -----------------------------
(***************************************************************************)
(* What the heartbeat promises to whoever posts a task, without the table, *)
(* the pulse or the goroutines: an id names one task for good, a task is   *)
(* executed by one execution at a time, an execution ends, and only the    *)
(* end of the process can cut executions short.                            *)
(***************************************************************************)
CONSTANT Ids

VARIABLES
  board,   \* what each id stands for
  busy     \* the ids whose task is being executed

vars == <<board, busy>>

Kinds == {"user", "agent"}

Init == board = [i \in Ids |-> "unused"] /\ busy = {}

Post(i) ==
  /\ board[i] = "unused"
  /\ \E k \in Kinds : board' = [board EXCEPT ![i] = k]
  /\ UNCHANGED busy

Remove(i) ==
  /\ board[i] \in Kinds
  /\ board' = [board EXCEPT ![i] = "gone"]
  /\ UNCHANGED busy

\* A task removed after it was picked is still executed this once.
Begin(i) ==
  /\ board[i] # "unused" /\ i \notin busy
  /\ busy' = busy \cup {i}
  /\ UNCHANGED board

End(i) ==
  /\ i \in busy
  /\ busy' = busy \ {i}
  /\ UNCHANGED board

Outage == busy' = {} /\ UNCHANGED board

Next ==
  \/ \E i \in Ids : Post(i) \/ Remove(i) \/ Begin(i) \/ End(i)
  \/ Outage

Spec == Init /\ [][Next]_vars /\ \A i \in Ids : WF_vars(End(i))
=============================================================================
