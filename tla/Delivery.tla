------------------------------ MODULE Delivery ------------------------------
(***************************************************************************)
(* What a message of libs/broker is promised, without connections or       *)
(* channels: at least once for what was accepted, never for what was       *)
(* refused.  BrokerClient implements it (BrokerClient!ImplementsDelivery). *)
(***************************************************************************)
CONSTANT Messages

VARIABLES
  stage,   \* per message: new, sending, refused, wire, lost, queue or done
  handled  \* messages whose handler has settled at least once

deliveryVars == <<stage, handled>>

In(s) == {m \in Messages : stage[m] = s}

Init == stage = [m \in Messages |-> "new"] /\ handled = {}

Send(m) ==
  /\ stage[m] = "new"
  /\ stage' = [stage EXCEPT ![m] = "sending"]
  /\ UNCHANGED handled

\* The caller is told that the message is sent; nobody confirms that it arrived.
Publish(m) ==
  /\ stage[m] = "sending"
  /\ stage' = [stage EXCEPT ![m] = "wire"]
  /\ UNCHANGED handled

\* Sends are refused, messages on the wire arrive or are lost: all those a connection
\* or a process has at once when it ends.
Settle(refused, lost, arrived) ==
  /\ lost \cap arrived = {}
  /\ stage' = [m \in Messages |->
                 CASE m \in refused -> "refused"
                   [] m \in lost -> "lost"
                   [] m \in arrived -> "queue"
                   [] OTHER -> stage[m]]
  /\ UNCHANGED handled

\* A handler settles; only now may the message leave the queue, or stay to be
\* delivered again.
Handle(m) ==
  /\ stage[m] = "queue"
  /\ stage' \in {stage, [stage EXCEPT ![m] = "done"]}
  /\ handled' = handled \cup {m}

Next ==
  \/ \E m \in Messages : Send(m) \/ Publish(m) \/ Handle(m)
  \/ \E refused \in SUBSET In("sending") :
       \E lost \in SUBSET In("wire"), arrived \in SUBSET In("wire") :
         Settle(refused, lost, arrived)

Spec == Init /\ [][Next]_deliveryVars
=============================================================================
