--------------------------- MODULE MCBrokerClient ---------------------------
(* Bounds for TLC: with a subscription two messages and two faults, without one
   three messages and no fault. *)
EXTENDS BrokerClient

MCMaxFaults == [s \in BOOLEAN |-> IF s THEN 2 ELSE 0]
MCMaxSends == [s \in BOOLEAN |-> IF s THEN 2 ELSE 3]
=============================================================================
