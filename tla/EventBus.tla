------------------------------ MODULE EventBus ------------------------------
(***************************************************************************)
(* Pars.EventChannel: the channel on which telemetry, the security engine  *)
(* and Kangal report to the agent (internal/agent/pars.go, session.go).    *)
(* Messages are counted.                                                   *)
(***************************************************************************)
EXTENDS Integers

CONSTANT BusCap      \* capacity of EventChannel

ASSUME BusAssumption == BusCap \in Nat \ {0}

VARIABLE bus         \* messages waiting in EventChannel

\* Mutant: a monitor's send waits for room.
OfferBlocking == bus < BusCap /\ bus' = bus + 1

\* Mutant: a monitor's send takes no notice of the capacity.
OfferGrowing == bus' = bus + 1

\* A monitor's send: select with a default branch that drops the message.
Offer == bus' = IF bus < BusCap THEN bus + 1 ELSE bus

\* startEventProcessor's goroutine takes a message and runs AlertHook for it
\* on a goroutine of its own.
Deliver == bus > 0 /\ bus' = bus - 1

\* The monitors that are not being looked at.
OthersSend == bus < BusCap /\ bus' = bus + 1
=============================================================================
