---------------------------- MODULE BrokerClient ----------------------------
(***************************************************************************)
(* The RabbitMQ client of libs/broker: one lazily opened connection and    *)
(* channel per process, shared by every send, by the subscriptions made    *)
(* while the module starts, and by close() when it is destroyed.  A step   *)
(* ends at an await.  The server keeps the durable queue; a connection may *)
(* be closed by it, a process may die, and close and restart in order.     *)
(***************************************************************************)
EXTENDS Naturals, FiniteSets

CONSTANTS
  Senders,    \* concurrent calls of send()
  Conns,      \* identities of connections; each carries at most one channel
  Messages,   \* numbered in the order they are sent
  MaxFaults,  \* bounds, with and without a subscription: faults (refused and dropped
              \* connections, crashes) ...
  MaxSends,   \* ... and messages sent
  None

ASSUME BoundsAssumption ==
  /\ Messages \subseteq Nat
  /\ MaxFaults \in [BOOLEAN -> Nat] /\ MaxSends \in [BOOLEAN -> Nat]
ASSUME NoneAssumption == None \notin Senders \cup Conns \cup Messages
ASSUME SendersAssumption == "module" \notin Senders

VARIABLES
  subscribed,           \* some controller has a @Subscribe method and is not deaf
  connection, channel,  \* the client's fields; a channel is named by its connection
  live,                 \* connections that are open
  chans,                \* connections whose channel is open
  consumer,             \* the channel consume() was called on
  pc, mine, msg, warm,  \* per process: next step, connection it waits on, its
                        \* message, and whether it found a channel when it began
  at, via,              \* where each message is, and on which connection
  handlers,             \* running handlers: message, delivering connection
  handled,              \* messages whose handler has settled
  faults

clientVars == <<connection, channel, live, chans, consumer, subscribed>>
procVars == <<pc, mine, msg, warm>>
msgVars == <<at, via, handlers, handled>>
vars == <<clientVars, procVars, msgVars, faults>>

Module == "module"
Procs == Senders \cup {Module}

Init ==
  /\ subscribed \in BOOLEAN
  /\ connection = None /\ channel = None /\ consumer = None
  /\ live = {} /\ chans = {}
  /\ pc = [p \in Procs |-> IF p = Module THEN "boot" ELSE "idle"]
  /\ mine = [p \in Procs |-> None] /\ msg = [p \in Procs |-> None]
  /\ warm = [p \in Procs |-> FALSE]
  /\ at = [m \in Messages |-> "new"] /\ via = [m \in Messages |-> None]
  /\ handlers = {} /\ handled = {}
  /\ faults = 0

Fresh == {c \in Conns : /\ c \notin live \cup {connection, channel, consumer}
                        /\ \A p \in Procs : mine[p] # c
                        /\ \A m \in Messages : via[m] # c
                        /\ \A h \in handlers : h[2] # c}

\* Mutant: a connection that is being closed still gives channels.
Closing_Ignored(c) == FALSE
\* What amqplib refuses new channels on.
Closing(c) == pc[Module] = "closing" /\ c = mine[Module]

\* Mutant: the module does not wait for its subscriptions.
Listening_AtOnce == TRUE
\* onModuleInit awaits every subscription before the server listens.
Listening == pc[Module] \in {"running", "closing", "stopped"}

On(where, c) == {m \in Messages : at[m] = where /\ via[m] = c}

\* Connections cs end: what they had delivered and was not acknowledged is queued
\* again, what they still had to send arrives or is lost, and the sends in failing
\* are refused.
Settle(cs, failing) ==
  LET sent == UNION {On("wire", c) : c \in cs}
      delivered == UNION {On("unacked", c) : c \in cs}
  IN \E arrived \in SUBSET sent :
       /\ at' = [m \in Messages |->
                   CASE m \in delivered \cup arrived -> "queue"
                     [] m \in sent \ arrived -> "lost"
                     [] m \in failing -> "refused"
                     [] OTHER -> at[m]]
       /\ via' = [m \in Messages |-> IF m \in sent \cup delivered THEN None ELSE via[m]]

\* The process ends, with everything it has in memory, and is started again.
Reborn ==
  /\ connection' = None /\ channel' = None /\ consumer' = None
  /\ live' = {} /\ chans' = {}
  /\ pc' = [p \in Procs |-> IF p = Module THEN "boot" ELSE "idle"]
  /\ mine' = [p \in Procs |-> None] /\ msg' = [p \in Procs |-> None]
  /\ warm' = [p \in Procs |-> FALSE]
  /\ handlers' = {}
  /\ Settle(live, {m \in Messages : at[m] = "sending"})
  /\ UNCHANGED <<subscribed, handled>>

Fault == faults < MaxFaults[subscribed] /\ faults' = faults + 1

\* The promise of p rejects: the send is refused, a failing boot ends the process.
Refuse(p) ==
  \/ /\ p = Module
     /\ Reborn
  \/ /\ p # Module
     /\ pc' = [pc EXCEPT ![p] = "idle"]
     /\ at' = [at EXCEPT ![msg[p]] = "refused"]
     /\ mine' = [mine EXCEPT ![p] = None]
     /\ msg' = [msg EXCEPT ![p] = None]
     /\ warm' = [warm EXCEPT ![p] = FALSE]
     /\ UNCHANGED <<clientVars, via, handlers, handled>>

-----------------------------------------------------------------------------
(* _init, send, subscribe *)

Goto(p, to) == pc' = [pc EXCEPT ![p] = to]

\* _init returns at once when there is a connection.
InitFrom(p) == Goto(p, IF connection = None THEN "connecting" ELSE "asserting")

Send(p) ==
  /\ pc[p] = "idle"
  /\ Listening
  /\ \E m \in Messages :
       /\ at[m] = "new" /\ m <= MaxSends[subscribed]
       /\ \A n \in Messages : n < m => at[n] # "new"
       /\ at' = [at EXCEPT ![m] = "sending"]
       /\ msg' = [msg EXCEPT ![p] = m]
  /\ warm' = [warm EXCEPT ![p] = channel # None]
  /\ InitFrom(p)
  /\ UNCHANGED <<clientVars, mine, via, handlers, handled, faults>>

Boot ==
  /\ pc[Module] = "boot"
  /\ IF subscribed THEN InitFrom(Module) ELSE Goto(Module, "running")
  /\ UNCHANGED <<clientVars, mine, msg, warm, msgVars, faults>>

\* Mutant: a new connection forgets the channel of the one before it.
Connected_ForgetsChannel(p) ==
  /\ pc[p] = "connecting"
  /\ \E c \in Fresh :
       /\ connection' = c
       /\ live' = live \cup {c}
       /\ mine' = [mine EXCEPT ![p] = c]
  /\ channel' = None
  /\ Goto(p, "creating")
  /\ UNCHANGED <<chans, consumer, subscribed, msg, warm, msgVars, faults>>
\* await amqp.connect: whoever comes last overwrites the field.
Connected(p) ==
  /\ pc[p] = "connecting"
  /\ \E c \in Fresh :
       /\ connection' = c
       /\ live' = live \cup {c}
       /\ mine' = [mine EXCEPT ![p] = c]
  /\ Goto(p, "creating")
  /\ UNCHANGED <<channel, chans, consumer, subscribed, msg, warm, msgVars, faults>>

ConnectFails(p) == pc[p] = "connecting" /\ Fault /\ Refuse(p)

\* await createChannel, on the connection just assigned.
ChannelMade(p) ==
  /\ pc[p] = "creating"
  /\ mine[p] \in live /\ ~Closing(mine[p])
  /\ channel' = mine[p]
  /\ chans' = chans \cup {mine[p]}
  /\ Goto(p, "asserting")
  /\ UNCHANGED <<connection, live, consumer, subscribed, mine, msg, warm, msgVars, faults>>

\* The connection ended meanwhile, or the server refused: the field stays set.
ChannelFails(p) ==
  /\ pc[p] = "creating"
  /\ \/ (mine[p] \notin live \/ Closing(mine[p])) /\ UNCHANGED faults
     \/ Fault
  /\ Refuse(p)

\* Mutant: send publishes before it awaits the queue, so it can refuse what is on its way.
AssertQueue_PublishesFirst(p) ==
  /\ pc[p] = "asserting"
  /\ \/ /\ channel \in chans
        /\ mine' = [mine EXCEPT ![p] = channel]
        /\ Goto(p, "waiting")
        /\ at' = [m \in Messages |-> IF m = msg[p] THEN "wire" ELSE at[m]]
        /\ via' = [m \in Messages |-> IF m = msg[p] THEN channel ELSE via[m]]
        /\ UNCHANGED <<clientVars, msg, warm, handlers, handled, faults>>
     \/ channel \notin chans /\ Refuse(p) /\ UNCHANGED faults
\* Mutant: a send without a channel waits for one.
AssertQueue_Waits(p) ==
  /\ pc[p] = "asserting" /\ channel \in chans
  /\ mine' = [mine EXCEPT ![p] = channel]
  /\ Goto(p, "waiting")
  /\ UNCHANGED <<clientVars, msg, warm, msgVars, faults>>
\* assertQueue on whatever _channel is now; undefined or closed, it throws.
AssertQueue(p) ==
  /\ pc[p] = "asserting"
  /\ \/ /\ channel \in chans
        /\ mine' = [mine EXCEPT ![p] = channel]
        /\ Goto(p, "waiting")
        /\ UNCHANGED <<clientVars, msg, warm, msgVars, faults>>
     \/ channel \notin chans /\ Refuse(p) /\ UNCHANGED faults

\* The queue is there: _channel is read again, to publish or to consume.
Resume(p) ==
  /\ pc[p] = "waiting"
  /\ UNCHANGED faults
  /\ \/ /\ mine[p] \in chans /\ channel \in chans
        /\ mine' = [mine EXCEPT ![p] = None]
        /\ \/ /\ p = Module
              /\ consumer' = channel
              /\ Goto(p, "running")
              /\ UNCHANGED <<connection, channel, live, chans, subscribed, msg, warm,
                             msgVars>>
           \/ /\ p # Module
              /\ at' = [at EXCEPT ![msg[p]] = "wire"]
              /\ via' = [via EXCEPT ![msg[p]] = channel]
              /\ msg' = [msg EXCEPT ![p] = None]
              /\ warm' = [warm EXCEPT ![p] = FALSE]
              /\ Goto(p, "idle")
              /\ UNCHANGED <<clientVars, handlers, handled>>
     \/ ~(mine[p] \in chans /\ channel \in chans) /\ Refuse(p)

-----------------------------------------------------------------------------
(* The server, and the consume callback *)

Arrive(m) ==
  /\ at[m] = "wire"
  /\ at' = [at EXCEPT ![m] = "queue"]
  /\ via' = [via EXCEPT ![m] = None]
  /\ UNCHANGED <<clientVars, procVars, handlers, handled, faults>>

\* Mutant: the consumer is registered with noAck.
Deliver_NoAck(m) ==
  /\ at[m] = "queue" /\ consumer \in chans
  /\ at' = [at EXCEPT ![m] = "done"]
  /\ handlers' = handlers \cup {<<m, consumer>>}
  /\ UNCHANGED <<clientVars, procVars, via, handled, faults>>
Deliver(m) ==
  /\ at[m] = "queue" /\ consumer \in chans
  /\ at' = [at EXCEPT ![m] = "unacked"]
  /\ via' = [via EXCEPT ![m] = consumer]
  /\ handlers' = handlers \cup {<<m, consumer>>}
  /\ UNCHANGED <<clientVars, procVars, handled, faults>>

\* Mutant: a message is acknowledged twice; the server closes the channel for it.
HandlerEnds_AcksTwice(h) ==
  /\ h \in handlers
  /\ handlers' = handlers \ {h}
  /\ handled' = handled \cup {h[1]}
  /\ IF channel \in chans /\ channel = h[2]
     THEN /\ at' = [at EXCEPT ![h[1]] = "done"]
          /\ via' = [via EXCEPT ![h[1]] = None]
     ELSE UNCHANGED <<at, via>>
  /\ chans' = chans \ {channel}
  /\ UNCHANGED <<connection, channel, live, consumer, subscribed, procVars, faults>>
\* The handler returned or threw, either way the message is acknowledged: on
\* _channel, which need not be the channel that delivered it.  An unknown tag makes
\* the server close that channel; a closed channel throws into the void.
HandlerEnds(h) ==
  /\ h \in handlers
  /\ handlers' = handlers \ {h}
  /\ handled' = handled \cup {h[1]}
  /\ \/ /\ channel \in chans /\ channel = h[2]
        /\ at' = [at EXCEPT ![h[1]] = "done"]
        /\ via' = [via EXCEPT ![h[1]] = None]
        /\ UNCHANGED chans
     \/ /\ channel \in chans /\ channel # h[2]
        /\ chans' = chans \ {channel}
        /\ UNCHANGED <<at, via>>
     \/ channel \notin chans /\ UNCHANGED <<chans, at, via>>
  /\ UNCHANGED <<connection, channel, live, consumer, subscribed, procVars, faults>>

\* The server closes a connection; nothing in the client listens for it.
Drop(c) ==
  /\ c \in live
  /\ Fault
  /\ live' = live \ {c} /\ chans' = chans \ {c}
  /\ Settle({c}, {})
  /\ UNCHANGED <<connection, channel, consumer, subscribed, procVars, handlers, handled>>

Crash == Fault /\ Reborn

-----------------------------------------------------------------------------
(* onModuleDestroy *)

\* close(): nothing to do, or the connection starts to close, which its channel
\* notices at once; on a connection already dropped it throws.
Close ==
  /\ pc[Module] = "running"
  /\ IF connection \in live
     THEN /\ Goto(Module, "closing")
          /\ mine' = [mine EXCEPT ![Module] = connection]
          /\ chans' = chans \ {connection}
     ELSE Goto(Module, "stopped") /\ UNCHANGED <<mine, chans>>
  /\ UNCHANGED <<connection, channel, live, consumer, subscribed, msg, warm, msgVars, faults>>

\* await connection.close() on the connection there was when it was called: what was
\* written before it arrives before it.  The field is cleared, whatever it holds by now.
Closed ==
  /\ pc[Module] = "closing"
  /\ On("wire", mine[Module]) = {}
  /\ connection' = None
  /\ live' = live \ {mine[Module]}
  /\ Settle({mine[Module]}, {})
  /\ mine' = [mine EXCEPT ![Module] = None]
  /\ Goto(Module, "stopped")
  /\ UNCHANGED <<channel, chans, consumer, subscribed, msg, warm, handlers, handled, faults>>

\* The shutdown hooks are done and the process ends.
Exit == pc[Module] = "stopped" /\ Reborn /\ UNCHANGED faults

\* What the health indicator asks: isConnection, the field and no more.
Healthy == connection # None

Step(p) ==
  Connected(p) \/ ChannelMade(p) \/ ChannelFails(p) \/ AssertQueue(p) \/ Resume(p)

Next ==
  \/ \E p \in Senders : Send(p)
  \/ \E p \in Procs : Step(p) \/ ConnectFails(p)
  \/ \E m \in Messages : Arrive(m) \/ Deliver(m)
  \/ \E h \in handlers : HandlerEnds(h)
  \/ \E c \in Conns : Drop(c)
  \/ Boot \/ Crash \/ Close \/ Closed \/ Exit

Spec == Init /\ [][Next]_vars

\* The event loop runs every continuation, the server answers every call.
FairSpec == Spec /\ \A p \in Procs : WF_vars(Step(p))

-----------------------------------------------------------------------------
(* Properties *)

TypeOK ==
  /\ subscribed \in BOOLEAN
  /\ connection \in Conns \cup {None} /\ channel \in Conns \cup {None}
  /\ consumer \in Conns \cup {None}
  /\ chans \subseteq live /\ live \subseteq Conns
  /\ pc \in [Procs -> {"idle", "connecting", "creating", "asserting", "waiting",
                       "boot", "running", "closing", "stopped"}]
  /\ mine \in [Procs -> Conns \cup {None}]
  /\ msg \in [Procs -> Messages \cup {None}]
  /\ warm \in [Procs -> BOOLEAN]
  /\ at \in [Messages -> {"new", "sending", "wire", "queue", "unacked", "done",
                          "refused", "lost"}]
  /\ via \in [Messages -> Conns \cup {None}]
  /\ handlers \subseteq Messages \X Conns /\ handled \subseteq Messages
  /\ faults \in 0..MaxFaults[subscribed]

\* A send that begins once a channel exists is not refused, however many connections
\* the racing first sends opened, unless something failed or the module closes.
WarmSendsSucceed ==
  [][\A p \in Senders :
       warm[p] /\ faults' = 0 /\ pc[Module] = "running" /\ pc'[Module] = "running"
         => at'[msg[p]] # "refused"]_vars

\* With a subscription the client keeps to one connection, because the module awaits
\* it before the first send; what the lazy start of a client without any does not give.
SingleConnection ==
  subscribed /\ faults = 0 /\ pc[Module] # "stopped" => Cardinality(live) <= 1

\* What the health indicator reports (isConnection) is true of the channel, when
\* nothing failed and no first call is still setting it up.
HealthyMeansUsable ==
  /\ Healthy /\ faults = 0 /\ pc[Module] = "running"
  /\ \A p \in Procs : pc[p] # "creating"
  => channel \in chans

\* A message in the durable queue leaves it only once its handler has settled,
\* whatever drops, crashes, or is acknowledged on the wrong channel.
QueuedUntilHandled ==
  [][\A m \in Messages :
       at[m] \in {"queue", "unacked"} /\ at'[m] \notin {"queue", "unacked"}
         => m \in handled']_vars

\* Every send settles: the message is published, or the caller is told.
EverySendSettles == \A m \in Messages : at[m] = "sending" ~> at[m] # "sending"

-----------------------------------------------------------------------------
(* What is invariant beside the types *)

\* A send at work has a message of its own that nothing else has touched.
SendersWork ==
  \A p \in Senders :
    /\ pc[p] \in {"idle", "connecting", "creating", "asserting", "waiting"}
    /\ pc[p] = "idle" => msg[p] = None
    /\ pc[p] # "idle" => msg[p] \in Messages /\ at[msg[p]] = "sending"
OwnMessages ==
  \A p, q \in Senders : p # q /\ msg[p] # None => msg[p] # msg[q]

\* The connection that is being closed has no channel any more.
ClosingGone == pc[Module] = "closing" => mine[Module] \notin chans

\* What a handler works on is queued or done with; what has left the queue has been
\* handled, and nothing else that is not queued.
HandlersApart ==
  /\ \A h \in handlers : at[h[1]] \in {"queue", "unacked", "done"}
  /\ \A m \in Messages : at[m] = "done" => m \in handled
  /\ \A m \in handled : at[m] \in {"queue", "unacked", "done"}

BrokerInv == TypeOK /\ SendersWork /\ OwnMessages /\ ClosingGone /\ HandlersApart

\* Before the server listens no send is at work and nothing is consumed; without a
\* subscription nothing ever is, and the module opens no connection.
QuietStart ==
  /\ ~Listening => \A p \in Senders : pc[p] = "idle"
  /\ ~Listening \/ ~subscribed => handlers = {} /\ consumer = None
  /\ pc[Module] # "idle"
  /\ ~subscribed => pc[Module] \in {"boot", "running", "closing", "stopped"}
  /\ \A p \in Senders : pc[p] = "idle" => ~warm[p]

\* While nothing has failed and the module does not close, what exists stays: there is
\* a usable channel, or somebody is making one; the channel consumed from is the
\* channel; a send that found it goes on with it.
Calm == faults = 0 /\ pc[Module] \notin {"closing", "stopped"}
CalmFacts ==
  /\ \A p \in Procs : pc[p] = "creating" => connection # None /\ mine[p] \in live
  /\ channel # None => connection # None /\ channel \in chans
  /\ connection # None => channel \in chans \/ \E p \in Procs : pc[p] = "creating"
  /\ \A p \in Senders : warm[p] => /\ channel # None /\ pc[p] \in {"asserting", "waiting"}
                                   /\ pc[p] = "waiting" => mine[p] \in chans
  /\ \A h \in handlers : h[2] = channel
  /\ subscribed /\ pc[Module] = "running" => channel = consumer
CalmInv == Calm => CalmFacts

\* With a subscription the module opens the one connection before any send.
SingleInv ==
  subscribed /\ faults = 0 =>
    /\ pc[Module] \in {"boot", "connecting"} => live = {} /\ connection = None
    /\ pc[Module] \in {"creating", "asserting", "waiting", "running", "closing"}
         => connection # None /\ live = {connection}
    /\ pc[Module] \in {"running", "closing"}
         => \A p \in Senders : pc[p] \in {"idle", "asserting", "waiting"}

FaultlessInv == BrokerInv /\ QuietStart /\ CalmInv /\ SingleInv

-----------------------------------------------------------------------------
(* Refinement *)

\* A delivered message that is not acknowledged is still the queue's.
Stage == [m \in Messages |-> IF at[m] = "unacked" THEN "queue" ELSE at[m]]

Promise == INSTANCE Delivery WITH stage <- Stage

\* Whatever sends race, connections drop and processes die: a message is refused for
\* good or sent once, leaves the queue when it was handled, and is handled only if it
\* arrived there (send, subscribe and its callback, close).
ImplementsDelivery == Promise!Spec
=============================================================================
