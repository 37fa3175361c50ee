--------------------------- MODULE FaultlessProofs ---------------------------
(* What the broker client gives as long as nothing fails: a send that found a   *)
(* channel is not refused, health tells the truth, and with a subscription      *)
(* there is one connection; for any number of senders and connections.          *)
EXTENDS BrokerProofs, FiniteSetTheorems

Faultless == QuietStart /\ CalmInv /\ SingleInv

\* Init and a new process are quiet.
LEMMA StartFaultless == Init => Faultless
BY ModuleApart DEF Init, Faultless, QuietStart, CalmInv, Calm, CalmFacts, SingleInv, Listening

\* A process that starts again is as it was at first.
LEMMA RebornFaultless == Reborn => Faultless'
<1> SUFFICES ASSUME Reborn PROVE Faultless'
  OBVIOUS
<1>1. /\ connection' = None /\ channel' = None /\ consumer' = None /\ live' = {}
      /\ pc'[Module] = "boot" /\ \A p \in Senders : pc'[p] = "idle" /\ ~warm'[p]
      /\ \A p \in Procs : pc'[p] \in {"boot", "idle"}
      /\ handlers' = {}
  BY ModuleApart DEF Reborn
<1> QED
  BY <1>1 DEF Faultless, QuietStart, CalmInv, Calm, CalmFacts, SingleInv, Listening

\* After a fault there is nothing left to claim but the quiet start.
LEMMA FaultFaultless ==
  ASSUME BrokerInv, Fault, QuietStart' PROVE Faultless'
<1>1. faults' # 0
  BY DEF Fault, BrokerInv, TypeOK
<1> QED
  BY <1>1 DEF Faultless, CalmInv, Calm, CalmFacts, SingleInv

\* A rejected promise, unless it leaves a connection without a channel.
LEMMA RefuseFaultless ==
  ASSUME BrokerInv, Faultless, NEW p \in Procs, Refuse(p),
         pc[p] \in {"connecting", "creating", "asserting", "waiting"},
         \/ Fault
         \/ UNCHANGED faults /\ (Calm => pc[p] \in {"asserting", "waiting"})
  PROVE  Faultless'
<1>1. CASE p = Module
  BY <1>1, RebornFaultless DEF Refuse
<1>2. CASE p # Module
  <2>1. /\ p \in Senders
        /\ pc' = [pc EXCEPT ![p] = "idle"] /\ mine' = [mine EXCEPT ![p] = None]
        /\ warm' = [warm EXCEPT ![p] = FALSE]
        /\ UNCHANGED <<connection, channel, live, chans, consumer, subscribed, handlers>>
    BY <1>2, ModuleApart DEF Refuse, clientVars
  <2>2. /\ pc'[Module] = pc[Module] /\ pc'[p] = "idle" /\ ~warm'[p]
        /\ \A q \in Procs : q # p => pc'[q] = pc[q] /\ mine'[q] = mine[q] /\ warm'[q] = warm[q]
    BY <1>2, <2>1, ModuleApart DEF BrokerInv, TypeOK
  <2>3. QuietStart'
    BY <2>1, <2>2, ModuleApart DEF Faultless, QuietStart, Listening
  <2>4. CASE Fault
    BY <2>3, <2>4, FaultFaultless
  <2>5. CASE UNCHANGED faults /\ (Calm => pc[p] \in {"asserting", "waiting"})
    <3>1. ASSUME Calm' PROVE CalmFacts'
      <4>1. CalmFacts /\ pc[p] # "creating"
        BY <2>2, <2>5, <3>1 DEF CalmInv, Calm, Faultless
      <4> QED
        BY <2>1, <2>2, <4>1, ModuleApart DEF CalmFacts
    <3>2. CalmInv'
      BY <3>1 DEF CalmInv
    <3>3. SingleInv'
      BY <2>1, <2>2, <2>5, ModuleApart DEF Faultless, SingleInv
    <3> QED
      BY <2>3, <3>2, <3>3 DEF Faultless
  <2> QED
    BY <2>4, <2>5
<1> QED
  BY <1>1, <1>2

\* A send that begins goes on with the connection there is.
LEMMA SendFaultless ==
  ASSUME BrokerInv, Faultless, NEW p \in Senders, Send(p) PROVE Faultless'
<1>1. /\ pc[p] = "idle" /\ Listening
      /\ pc' = [pc EXCEPT ![p] = IF connection = None THEN "connecting" ELSE "asserting"]
      /\ warm' = [warm EXCEPT ![p] = channel # None]
      /\ UNCHANGED <<connection, channel, live, chans, consumer, subscribed, mine, handlers, faults>>
  BY DEF Send, InitFrom, Goto, clientVars
<1>2. /\ pc'[Module] = pc[Module] /\ warm'[p] = (channel # None)
      /\ pc'[p] = IF connection = None THEN "connecting" ELSE "asserting"
      /\ \A q \in Procs : q # p => pc'[q] = pc[q] /\ warm'[q] = warm[q]
  BY <1>1, ModuleApart DEF BrokerInv, TypeOK
<1>3. QuietStart'
  BY <1>1, <1>2, ModuleApart DEF Faultless, QuietStart, Listening
<1>4. CalmInv'
  <2>1. ASSUME Calm' PROVE CalmFacts'
    <3>1. CalmFacts
      BY <1>1, <1>2, <2>1 DEF CalmInv, Calm, Faultless
    <3>2. \A q \in Procs : pc[q] = "creating" => pc'[q] = "creating" /\ q # p
      BY <1>1, <1>2
    <3>3. ASSUME NEW q \in Senders, warm'[q]
          PROVE  /\ channel' # None /\ pc'[q] \in {"asserting", "waiting"}
                 /\ pc'[q] = "waiting" => mine'[q] \in chans'
      <4>1. CASE q = p
        <5>1. channel # None
          BY <1>2, <3>3, <4>1
        <5>2. connection # None
          BY <3>1, <5>1 DEF CalmFacts
        <5> QED
          BY <1>1, <1>2, <4>1, <5>1, <5>2
      <4>2. CASE q # p
        <5>1. warm[q]
          BY <1>2, <3>3, <4>2, ModuleApart
        <5> QED
          BY <1>1, <1>2, <3>1, <4>2, <5>1, ModuleApart DEF CalmFacts
      <4> QED
        BY <4>1, <4>2
    <3>4. /\ \A q \in Procs : pc'[q] = "creating" => pc[q] = "creating"
          /\ \A q \in Procs : pc[q] = "creating" => pc'[q] = "creating"
      BY <1>2, <3>2
    <3> QED
      BY <1>1, <1>2, <3>1, <3>3, <3>4 DEF CalmFacts
  <2> QED
    BY <2>1 DEF CalmInv
<1>5. SingleInv'
  BY <1>1, <1>2, ModuleApart DEF Faultless, SingleInv, Listening
<1> QED
  BY <1>3, <1>4, <1>5 DEF Faultless

\* Whoever has connected is making a channel; with a subscription that is the module.
LEMMA ConnectedFaultless ==
  ASSUME BrokerInv, Faultless, NEW p \in Procs, Connected(p) PROVE Faultless'
<1>1. PICK c \in Fresh : /\ connection' = c /\ live' = live \cup {c}
                        /\ mine' = [mine EXCEPT ![p] = c]
  BY DEF Connected
<1>2. /\ pc[p] = "connecting" /\ pc' = [pc EXCEPT ![p] = "creating"]
      /\ UNCHANGED <<channel, chans, consumer, subscribed, warm, handlers, faults>>
  BY DEF Connected, Goto, msgVars
<1>3. c \in Conns /\ c # None
  BY NoneAssumption DEF Fresh
<1>4. /\ pc'[p] = "creating" /\ mine'[p] = c
      /\ \A q \in Procs : q # p => pc'[q] = pc[q] /\ mine'[q] = mine[q]
  BY <1>1, <1>2 DEF BrokerInv, TypeOK
<1>5. QuietStart'
  BY <1>2, <1>4, ModuleApart DEF Faultless, QuietStart, Listening
<1>6. CalmInv'
  <2>1. ASSUME Calm' PROVE CalmFacts'
    <3>1. CalmFacts
      BY <1>2, <1>4, <2>1, ModuleApart DEF CalmInv, Calm, Faultless
    <3>2. /\ \A q \in Procs : pc'[q] = "creating" => connection' # None /\ mine'[q] \in live'
          /\ channel' # None => connection' # None /\ channel' \in chans'
          /\ \E q \in Procs : pc'[q] = "creating"
      BY <1>1, <1>2, <1>3, <1>4, <3>1 DEF CalmFacts
    <3>3. \A q \in Senders : warm'[q] => /\ channel' # None /\ pc'[q] \in {"asserting", "waiting"}
                                         /\ pc'[q] = "waiting" => mine'[q] \in chans'
      BY <1>2, <1>4, <3>1, ModuleApart DEF CalmFacts
    <3>4. /\ \A h \in handlers' : h[2] = channel'
          /\ subscribed' /\ pc'[Module] = "running" => channel' = consumer'
      BY <1>2, <1>4, <3>1, ModuleApart DEF CalmFacts
    <3> QED
      BY <3>2, <3>3, <3>4 DEF CalmFacts
  <2> QED
    BY <2>1 DEF CalmInv
<1>7. SingleInv'
  <2> SUFFICES ASSUME subscribed, faults = 0, pc[Module] # "stopped" PROVE SingleInv'
    BY <1>2, <1>4, ModuleApart DEF SingleInv
  <2>1. p = Module
    BY <1>2, ModuleApart DEF Faultless, SingleInv, QuietStart, Listening, BrokerInv, TypeOK
  <2>2. live = {} /\ pc'[Module] = "creating" /\ live' = {c}
    BY <1>1, <1>2, <1>4, <2>1 DEF Faultless, SingleInv
  <2> QED
    BY <1>1, <1>3, <2>2 DEF SingleInv
<1> QED
  BY <1>5, <1>6, <1>7 DEF Faultless

\* The channel just made is the one in the field, and usable.
LEMMA ChannelMadeFaultless ==
  ASSUME BrokerInv, Faultless, NEW p \in Procs, ChannelMade(p) PROVE Faultless'
<1>1. /\ pc[p] = "creating" /\ mine[p] \in live /\ channel' = mine[p]
      /\ chans' = chans \cup {mine[p]} /\ pc' = [pc EXCEPT ![p] = "asserting"]
      /\ UNCHANGED <<connection, live, consumer, subscribed, mine, warm, handlers, faults>>
  BY DEF ChannelMade, Goto, msgVars
<1>2. /\ pc'[p] = "asserting" /\ mine[p] # None
      /\ \A q \in Procs : q # p => pc'[q] = pc[q]
  BY <1>1, NoneAssumption DEF BrokerInv, TypeOK
<1>3. QuietStart'
  BY <1>1, <1>2, ModuleApart DEF Faultless, QuietStart, Listening
<1>4. subscribed /\ faults = 0 /\ pc[Module] # "stopped" => p = Module
  BY <1>1, ModuleApart DEF Faultless, SingleInv, QuietStart, Listening, BrokerInv, TypeOK
<1>5. SingleInv'
  BY <1>1, <1>2, <1>4, ModuleApart DEF Faultless, SingleInv
<1>6. CalmInv'
  <2>1. ASSUME Calm' PROVE CalmFacts'
    <3>1. CalmFacts
      BY <1>1, <1>2, <2>1, ModuleApart DEF CalmInv, Calm, Faultless
    <3>2. \A q \in Procs : pc'[q] = "creating" => q # p /\ pc[q] = "creating"
      BY <1>2
    <3>3. \A q \in Senders : warm[q] => q # p
      BY <1>1, <3>1 DEF CalmFacts
    <3>4. /\ \A q \in Procs : pc'[q] = "creating" => connection' # None /\ mine'[q] \in live'
          /\ channel' # None => connection' # None /\ channel' \in chans'
          /\ connection' # None => channel' \in chans' \/ \E q \in Procs : pc'[q] = "creating"
      BY <1>1, <3>1, <3>2 DEF CalmFacts
    <3>5. ASSUME NEW q \in Senders, warm'[q]
          PROVE  /\ channel' # None /\ pc'[q] \in {"asserting", "waiting"}
                 /\ pc'[q] = "waiting" => mine'[q] \in chans'
      <4>1. warm[q] /\ q # p
        BY <1>1, <3>3, <3>5
      <4> QED
        BY <1>1, <1>2, <3>1, <4>1, ModuleApart DEF CalmFacts
    <3>6. \A h \in handlers' : h[2] = channel'
      <4>1. CASE handlers = {}
        BY <1>1, <4>1
      <4>2. CASE handlers # {}
        <5>1. Listening /\ subscribed
          BY <4>2 DEF Faultless, QuietStart
        <5>2. pc[Module] = "running" /\ faults = 0
          BY <1>1, <1>2, <2>1, <5>1, ModuleApart DEF Calm, Listening
        <5>3. p = Module
          BY <1>4, <5>1, <5>2
        <5> QED
          BY <1>1, <5>2, <5>3
      <4> QED
        BY <4>1, <4>2
    <3>7. subscribed' /\ pc'[Module] = "running" => channel' = consumer'
      <4> SUFFICES ASSUME subscribed, pc'[Module] = "running" PROVE FALSE
        BY <1>1
      <4>1. p # Module /\ pc[Module] = "running"
        BY <1>2, ModuleApart
      <4> QED
        BY <1>1, <1>4, <2>1, <4>1 DEF Calm
    <3> QED
      BY <3>4, <3>5, <3>6, <3>7 DEF CalmFacts
  <2> QED
    BY <2>1 DEF CalmInv
<1> QED
  BY <1>3, <1>5, <1>6 DEF Faultless

\* A send with a channel waits on it; one without is refused.
LEMMA AssertQueueFaultless ==
  ASSUME BrokerInv, Faultless, NEW p \in Procs, AssertQueue(p) PROVE Faultless'
<1>1. CASE channel \notin chans
  BY <1>1, RefuseFaultless DEF AssertQueue
<1>2. CASE channel \in chans
  <2>1. /\ pc[p] = "asserting" /\ pc' = [pc EXCEPT ![p] = "waiting"]
        /\ mine' = [mine EXCEPT ![p] = channel]
        /\ UNCHANGED <<connection, channel, live, chans, consumer, subscribed, warm, handlers, faults>>
    BY <1>2 DEF AssertQueue, Goto, clientVars, msgVars
  <2>2. /\ pc'[p] = "waiting" /\ mine'[p] = channel
        /\ \A q \in Procs : q # p => pc'[q] = pc[q] /\ mine'[q] = mine[q]
    BY <2>1 DEF BrokerInv, TypeOK
  <2>3. QuietStart'
    BY <2>1, <2>2, ModuleApart DEF Faultless, QuietStart, Listening
  <2>4. SingleInv'
    BY <2>1, <2>2, ModuleApart DEF Faultless, SingleInv
  <2>5. ASSUME Calm' PROVE CalmFacts'
    <3>1. CalmFacts
      BY <2>1, <2>2, <2>5, ModuleApart DEF CalmInv, Calm, Faultless
    <3>2. ASSUME NEW q \in Senders, warm'[q]
          PROVE  /\ channel' # None /\ pc'[q] \in {"asserting", "waiting"}
                 /\ pc'[q] = "waiting" => mine'[q] \in chans'
      <4>1. warm[q]
        BY <2>1, <3>2
      <4>2. CASE q = p
        BY <1>2, <2>1, <2>2, <3>1, <4>1, <4>2 DEF CalmFacts
      <4>3. CASE q # p
        BY <2>1, <2>2, <3>1, <4>1, <4>3, ModuleApart DEF CalmFacts
      <4> QED
        BY <4>2, <4>3
    <3> QED
      BY <1>2, <2>1, <2>2, <3>1, <3>2, ModuleApart DEF CalmFacts
  <2> QED
    BY <2>3, <2>4, <2>5 DEF CalmInv, Faultless
<1> QED
  BY <1>1, <1>2

\* Connections and channels fail by a fault, or while the module closes.
LEMMA FailureFaultless ==
  ASSUME BrokerInv, Faultless, NEW p \in Procs, ConnectFails(p) \/ ChannelFails(p) PROVE Faultless'
<1>1. CASE Fault
  BY <1>1, RefuseFaultless DEF ConnectFails, ChannelFails
<1>2. CASE ~Fault
  <2>1. /\ pc[p] = "creating" /\ Refuse(p) /\ UNCHANGED faults
        /\ mine[p] \notin live \/ Closing(mine[p])
    BY <1>2 DEF ConnectFails, ChannelFails
  <2>2. ~Calm
    BY <2>1 DEF CalmInv, Faultless, CalmFacts, Calm, Closing
  <2> QED
    BY <2>1, <2>2, RefuseFaultless
<1> QED
  BY <1>1, <1>2

\* The queue is there: the module begins to consume, or a send is done.
LEMMA ResumeFaultless ==
  ASSUME BrokerInv, Faultless, NEW p \in Procs, Resume(p) PROVE Faultless'
<1>0. pc[p] = "waiting" /\ UNCHANGED faults
  BY DEF Resume
<1>1. CASE Refuse(p)
  BY <1>0, <1>1, RefuseFaultless
<1>2. CASE /\ p = Module /\ channel \in chans /\ consumer' = channel
           /\ mine' = [mine EXCEPT ![p] = None] /\ pc' = [pc EXCEPT ![p] = "running"]
           /\ UNCHANGED <<connection, channel, live, chans, subscribed, msg, warm, msgVars>>
  <2>1. /\ pc'[Module] = "running" /\ ~Listening
        /\ \A q \in Senders : pc'[q] = pc[q] /\ mine'[q] = mine[q]
        /\ UNCHANGED <<connection, channel, live, chans, subscribed, warm, handlers>>
    BY <1>0, <1>2, ModuleApart DEF BrokerInv, TypeOK, Listening, msgVars
  <2>2. handlers = {} /\ \A q \in Senders : pc[q] = "idle" /\ ~warm[q]
    BY <2>1 DEF Faultless, QuietStart
  <2>3. subscribed
    BY <1>0, <1>2 DEF Faultless, QuietStart
  <2>4. QuietStart'
    BY <2>1, <2>2, <2>3 DEF QuietStart, Listening
  <2>5. SingleInv'
    BY <1>0, <1>2, <2>1, <2>2 DEF Faultless, SingleInv
  <2>6. ASSUME Calm' PROVE CalmFacts'
    <3>1. CalmFacts
      BY <1>0, <1>2, <2>6 DEF CalmInv, Calm, Faultless
    <3> QED
      BY <1>2, <2>1, <2>2, <3>1, ModuleApart DEF CalmFacts
  <2> QED
    BY <2>4, <2>5, <2>6 DEF CalmInv, Faultless
<1>3. CASE /\ p # Module /\ channel \in chans
           /\ mine' = [mine EXCEPT ![p] = None] /\ pc' = [pc EXCEPT ![p] = "idle"]
           /\ warm' = [warm EXCEPT ![p] = FALSE]
           /\ UNCHANGED <<clientVars, handlers, handled>>
  <2>1. /\ p \in Senders /\ pc'[p] = "idle" /\ ~warm'[p] /\ pc'[Module] = pc[Module]
        /\ \A q \in Procs : q # p => pc'[q] = pc[q] /\ mine'[q] = mine[q] /\ warm'[q] = warm[q]
        /\ UNCHANGED <<connection, channel, live, chans, consumer, subscribed, handlers>>
    BY <1>3, ModuleApart DEF BrokerInv, TypeOK, clientVars
  <2>2. QuietStart'
    BY <2>1, ModuleApart DEF Faultless, QuietStart, Listening
  <2>3. SingleInv'
    BY <1>0, <2>1, ModuleApart DEF Faultless, SingleInv
  <2>4. ASSUME Calm' PROVE CalmFacts'
    <3>1. CalmFacts
      BY <1>0, <2>1, <2>4 DEF CalmInv, Calm, Faultless
    <3> QED
      BY <1>0, <2>1, <3>1, ModuleApart DEF CalmFacts
  <2> QED
    BY <2>2, <2>3, <2>4 DEF CalmInv, Faultless
<1> QED
  BY <1>1, <1>2, <1>3 DEF Resume, Goto

\* The server's steps leave the client's fields and the processes as they are, but for
\* the handlers it starts and, after a fault, the connections.
LEMMA ServerFaultless ==
  ASSUME BrokerInv, Faultless, NEW m \in Messages, Arrive(m) \/ Deliver(m) PROVE Faultless'
<1>1. UNCHANGED <<connection, channel, live, chans, consumer, subscribed, pc, mine, msg, warm, faults>>
  BY DEF Arrive, Deliver, clientVars, procVars
<1>2. SingleInv'
  BY <1>1 DEF Faultless, SingleInv
<1>3. CASE handlers' = handlers
  BY <1>1, <1>2, <1>3 DEF Faultless, QuietStart, CalmInv, Calm, CalmFacts, Listening
<1>4. CASE consumer \in chans /\ handlers' = handlers \cup {<<m, consumer>>}
  <2>1. consumer # None
    BY <1>4, NoneAssumption DEF BrokerInv, TypeOK
  <2>2. Listening /\ subscribed
    BY <2>1 DEF Faultless, QuietStart
  <2>3. QuietStart'
    BY <1>1, <2>2 DEF Faultless, QuietStart, Listening
  <2>4. ASSUME Calm' PROVE CalmFacts'
    <3>1. CalmFacts /\ pc[Module] = "running"
      BY <1>1, <2>2, <2>4 DEF CalmInv, Calm, Faultless, Listening
    <3>2. \A h \in handlers' : h[2] = channel
      BY <1>4, <2>2, <3>1 DEF CalmFacts
    <3> QED
      BY <1>1, <3>1, <3>2 DEF CalmFacts
  <2> QED
    BY <1>2, <2>3, <2>4 DEF CalmInv, Faultless
<1> QED
  BY <1>3, <1>4 DEF Arrive, Deliver

\* The handler's acknowledgement meets the channel that delivered.
LEMMA HandlerFaultless ==
  ASSUME BrokerInv, Faultless, NEW h \in handlers, HandlerEnds(h) PROVE Faultless'
<1>1. /\ UNCHANGED <<connection, channel, live, consumer, subscribed, pc, mine, msg, warm, faults>>
      /\ handlers' = handlers \ {h}
      /\ channel = h[2] => chans' = chans
  BY DEF HandlerEnds, procVars
<1>2. QuietStart' /\ SingleInv'
  BY <1>1 DEF Faultless, QuietStart, SingleInv, Listening
<1>3. ASSUME Calm' PROVE CalmFacts'
  <2>1. CalmFacts
    BY <1>1, <1>3 DEF CalmInv, Calm, Faultless
  <2>2. chans' = chans
    BY <1>1, <2>1 DEF CalmFacts
  <2> QED
    BY <1>1, <2>1, <2>2 DEF CalmFacts
<1> QED
  BY <1>2, <1>3 DEF CalmInv, Faultless

\* A dropped connection is a fault.
LEMMA DropFaultless ==
  ASSUME BrokerInv, Faultless, NEW c \in Conns, Drop(c) PROVE Faultless'
<1>1. Fault /\ UNCHANGED <<consumer, subscribed, pc, warm, handlers>>
  BY DEF Drop, procVars
<1>2. QuietStart'
  BY <1>1 DEF Faultless, QuietStart, Listening
<1> QED
  BY <1>1, <1>2, FaultFaultless

\* The module starts without a subscription, or begins to connect; it closes; it is closed.
LEMMA BootFaultless == ASSUME BrokerInv, Faultless, Boot PROVE Faultless'
<1>1. /\ pc[Module] = "boot"
      /\ UNCHANGED <<connection, channel, live, chans, consumer, subscribed, mine, msg, warm,
                     handlers, faults>>
      /\ pc' = [pc EXCEPT ![Module] = IF ~subscribed THEN "running"
                  ELSE IF connection = None THEN "connecting" ELSE "asserting"]
  BY DEF Boot, InitFrom, Goto, clientVars, msgVars
<1>2. /\ pc'[Module] = IF ~subscribed THEN "running"
                       ELSE IF connection = None THEN "connecting" ELSE "asserting"
      /\ \A q \in Senders : pc'[q] = pc[q]
      /\ \A q \in Procs : q # Module => pc'[q] = pc[q]
  BY <1>1, ModuleApart DEF BrokerInv, TypeOK
<1>3. ~Listening /\ handlers = {} /\ consumer = None /\ \A q \in Senders : pc[q] = "idle" /\ ~warm[q]
  BY <1>1 DEF Faultless, QuietStart, Listening
<1>4. QuietStart'
  BY <1>1, <1>2, <1>3 DEF QuietStart
<1>5. SingleInv'
  BY <1>1, <1>2, <1>3 DEF Faultless, SingleInv
<1>6. ASSUME Calm' PROVE CalmFacts'
  <2>1. CalmFacts
    BY <1>1, <1>6 DEF CalmInv, Calm, Faultless
  <2>2. \A q \in Procs : pc'[q] # "creating" /\ pc[q] # "creating"
    BY <1>1, <1>2, <1>3, ModuleApart
  <2> QED
    BY <1>1, <1>2, <1>3, <2>1, <2>2 DEF CalmFacts
<1> QED
  BY <1>4, <1>5, <1>6 DEF CalmInv, Faultless

\* A module that closes promises no more.
LEMMA CloseFaultless == ASSUME BrokerInv, Faultless, Close PROVE Faultless'
<1>1. /\ pc[Module] = "running"
      /\ UNCHANGED <<connection, channel, live, consumer, subscribed, warm, handlers, faults>>
      /\ pc' = [pc EXCEPT ![Module] = IF connection \in live THEN "closing" ELSE "stopped"]
  BY DEF Close, Goto, msgVars
<1>2. /\ pc'[Module] = IF connection \in live THEN "closing" ELSE "stopped"
      /\ \A q \in Senders : pc'[q] = pc[q]
  BY <1>1, ModuleApart DEF BrokerInv, TypeOK
<1>3. QuietStart' /\ CalmInv'
  BY <1>1, <1>2 DEF Faultless, QuietStart, CalmInv, Calm, CalmFacts, Listening
<1>4. SingleInv'
  BY <1>1, <1>2 DEF Faultless, SingleInv
<1> QED
  BY <1>3, <1>4 DEF Faultless

\* The module has closed.
LEMMA ClosedFaultless == ASSUME BrokerInv, Faultless, Closed PROVE Faultless'
<1>1. /\ pc[Module] = "closing" /\ pc' = [pc EXCEPT ![Module] = "stopped"]
      /\ UNCHANGED <<channel, chans, consumer, subscribed, warm, handlers, faults>>
  BY DEF Closed, Goto
<1>2. pc'[Module] = "stopped" /\ \A q \in Senders : pc'[q] = pc[q]
  BY <1>1, ModuleApart DEF BrokerInv, TypeOK
<1> QED
  BY <1>1, <1>2 DEF Faultless, QuietStart, CalmInv, Calm, CalmFacts, SingleInv, Listening

\* Every step.
LEMMA NextFaultless == BrokerInv /\ Faultless /\ [Next]_vars => Faultless'
<1> SUFFICES ASSUME BrokerInv, Faultless, [Next]_vars PROVE Faultless'
  OBVIOUS
<1>1. ASSUME NEW p \in Senders, Send(p) PROVE Faultless'
  BY <1>1, SendFaultless
<1>2. ASSUME NEW p \in Procs, Step(p) \/ ConnectFails(p) PROVE Faultless'
  BY <1>2, ConnectedFaultless, ChannelMadeFaultless, AssertQueueFaultless, ResumeFaultless,
     FailureFaultless DEF Step
<1>3. ASSUME NEW m \in Messages, Arrive(m) \/ Deliver(m) PROVE Faultless'
  BY <1>3, ServerFaultless
<1>4. ASSUME NEW h \in handlers, HandlerEnds(h) PROVE Faultless'
  BY <1>4, HandlerFaultless
<1>5. ASSUME NEW c \in Conns, Drop(c) PROVE Faultless'
  BY <1>5, DropFaultless
<1>6. ASSUME Boot \/ Crash \/ Close \/ Closed \/ Exit PROVE Faultless'
  BY <1>6, BootFaultless, CloseFaultless, ClosedFaultless, RebornFaultless DEF Crash, Exit
<1>7. CASE UNCHANGED vars
  <2>1. UNCHANGED <<subscribed, connection, channel, live, chans, consumer, pc, mine, warm, handlers, faults>>
    BY <1>7 DEF vars, clientVars, procVars, msgVars
  <2> QED
    BY <2>1 DEF Faultless, QuietStart, CalmInv, Calm, CalmFacts, SingleInv, Listening
<1> QED
  BY <1>1, <1>2, <1>3, <1>4, <1>5, <1>6, <1>7 DEF Next

----------------------------------------------------------------------------
(* The theorems *)

\* The faultless part of the invariant holds in every state.
THEOREM FaultlessInvariant == Spec => []FaultlessInv
<1>1. FaultlessInv <=> BrokerInv /\ Faultless
  BY DEF FaultlessInv, Faultless
<1>2. FaultlessInv /\ [Next]_vars => FaultlessInv'
  <2> SUFFICES ASSUME FaultlessInv, [Next]_vars PROVE FaultlessInv'
    OBVIOUS
  <2>1. BrokerInv' /\ Faultless'
    BY <1>1, NextFits, NextFaultless
  <2> QED
    BY <2>1 DEF FaultlessInv, Faultless
<1>3. Init => FaultlessInv
  BY <1>1, InitInv, StartFaultless
<1> QED
  BY <1>2, <1>3, PTL DEF Spec

\* With a subscription there is one connection until something fails or the module
\* closes, however many senders there are (BrokerFactoryModule.onModuleInit awaits it).
THEOREM OneConnection == Spec => []SingleConnection
<1>1. ASSUME FaultlessInv, subscribed, faults = 0, pc[Module] # "stopped"
      PROVE  Cardinality(live) <= 1
  <2>1. pc[Module] \in Steps \ {"idle", "stopped"}
    BY <1>1, ModuleApart DEF FaultlessInv, BrokerInv, TypeOK, Steps, QuietStart
  <2>2. live = {} \/ live = {connection}
    BY <1>1, <2>1 DEF FaultlessInv, SingleInv, Steps
  <2> QED
    BY <2>2, FS_EmptySet, FS_Singleton
<1>2. FaultlessInv => SingleConnection
  BY <1>1 DEF SingleConnection
<1> QED
  BY <1>2, FaultlessInvariant, PTL

\* What isConnection reports is true of the channel, until something fails.
THEOREM HealthIsTrue == Spec => []HealthyMeansUsable
<1>1. FaultlessInv => HealthyMeansUsable
  BY DEF FaultlessInv, CalmInv, Calm, CalmFacts, HealthyMeansUsable, Healthy
<1> QED
  BY <1>1, FaultlessInvariant, PTL

\* A step without a fault, seen from a send that found a channel.
LEMMA WarmStep ==
  ASSUME FaultlessInv, [Next]_vars, NEW p \in Senders,
         warm[p], faults' = 0, pc[Module] = "running", pc'[Module] = "running"
  PROVE  at'[msg[p]] # "refused"
<1>1. ~Fault
  BY DEF Fault, FaultlessInv, BrokerInv, TypeOK
<1>2. ~Reborn
  BY ModuleApart DEF Reborn
<1>3. faults = 0
  <2>1. CASE UNCHANGED faults
    BY <2>1
  <2>2. CASE ~UNCHANGED faults
    BY <1>1, <1>2, <2>2 DEF Next, Send, Step, Connected, ChannelMade, ChannelFails, AssertQueue,
       Resume, ConnectFails, Arrive, Deliver, HandlerEnds, Drop, Boot, Crash, Close, Closed, Exit, vars
  <2> QED
    BY <2>1, <2>2
<1>4. CalmFacts
  BY <1>3 DEF CalmInv, FaultlessInv, Calm
<1>5. /\ pc[p] \in {"asserting", "waiting"} /\ channel \in chans
      /\ pc[p] = "waiting" => mine[p] \in chans
  BY <1>4 DEF CalmFacts
<1>6. /\ msg[p] \in Messages /\ at[msg[p]] = "sending" /\ p \in Procs /\ p # Module
      /\ \A q \in Senders : q # p => msg[q] # msg[p]
  BY <1>5, ModuleApart, NoneAssumption DEF FaultlessInv, BrokerInv, SendersWork, OwnMessages
<1>7. at \in [Messages -> Places]
  BY DEF FaultlessInv, BrokerInv, TypeOK, Places
<1>8. ASSUME NEW q \in Procs, q # p, Refuse(q) PROVE at'[msg[p]] # "refused"
  <2>1. q \in Senders /\ at' = [at EXCEPT ![msg[q]] = "refused"]
    BY <1>2, <1>8, ModuleApart DEF Refuse
  <2> QED
    BY <2>1, <1>6, <1>7, <1>8
<1>9. CASE UNCHANGED at
  BY <1>6, <1>9
<1>10. ASSUME NEW q \in Senders, Send(q) PROVE at'[msg[p]] # "refused"
  <2>1. PICK m \in Messages : at[m] = "new" /\ at' = [at EXCEPT ![m] = "sending"]
    BY <1>10 DEF Send
  <2> QED
    BY <2>1, <1>6, <1>7
<1>11. ASSUME NEW q \in Procs, Step(q) \/ ConnectFails(q) PROVE at'[msg[p]] # "refused"
  <2>1. CASE Connected(q) \/ ChannelMade(q)
    BY <1>9, <2>1 DEF Connected, ChannelMade, msgVars
  <2>2. CASE ConnectFails(q)
    BY <1>1, <2>2 DEF ConnectFails
  <2>3. CASE ChannelFails(q)
    BY <1>1, <1>4, <2>3 DEF ChannelFails, CalmFacts, Closing
  <2>4. CASE AssertQueue(q)
    <3>1. UNCHANGED at \/ (channel \notin chans /\ Refuse(q))
      BY <2>4 DEF AssertQueue, msgVars
    <3> QED
      BY <1>5, <1>9, <3>1
  <2>5. CASE Resume(q)
    <3>1. \/ q = Module /\ UNCHANGED at
          \/ q # Module /\ at' = [at EXCEPT ![msg[q]] = "wire"]
          \/ Refuse(q) /\ ~(mine[q] \in chans /\ channel \in chans)
      BY <2>5 DEF Resume, msgVars
    <3>2. CASE q # Module /\ at' = [at EXCEPT ![msg[q]] = "wire"]
      BY <1>6, <1>7, <3>2
    <3>3. CASE Refuse(q) /\ ~(mine[q] \in chans /\ channel \in chans)
      <4>1. q # p
        BY <1>5, <2>5, <3>3 DEF Resume
      <4> QED
        BY <1>8, <3>3, <4>1
    <3> QED
      BY <1>9, <3>1, <3>2, <3>3
  <2> QED
    BY <1>11, <2>1, <2>2, <2>3, <2>4, <2>5 DEF Step
<1>12. ASSUME NEW m \in Messages, Arrive(m) \/ Deliver(m) PROVE at'[msg[p]] # "refused"
  <2>1. at' \in {[at EXCEPT ![m] = s] : s \in InQueue}
    BY <1>12 DEF Arrive, Deliver, InQueue
  <2> QED
    BY <2>1, <1>6, <1>7 DEF InQueue
<1>13. ASSUME NEW h \in handlers, HandlerEnds(h) PROVE at'[msg[p]] # "refused"
  <2>1. UNCHANGED at \/ at' = [at EXCEPT ![h[1]] = "done"]
    BY <1>13 DEF HandlerEnds
  <2> QED
    BY <2>1, <1>6, <1>7
<1>14. ASSUME NEW c \in Conns, Drop(c) PROVE FALSE
  BY <1>1, <1>14 DEF Drop
<1>15. CASE Boot \/ Crash \/ Close \/ Closed \/ Exit
  BY <1>2, <1>9, <1>15 DEF Boot, Crash, Close, Closed, Exit, msgVars
<1>16. CASE UNCHANGED vars
  BY <1>9, <1>16 DEF vars, msgVars
<1> QED
  BY <1>10, <1>11, <1>12, <1>13, <1>14, <1>15, <1>16 DEF Next

\* A send that begins once a channel exists is not refused, however the first sends
\* raced and however many connections they left open.
THEOREM WarmSendsAreSent == Spec => WarmSendsSucceed
<1>1. FaultlessInv /\ [Next]_vars
      => [\A p \in Senders :
            warm[p] /\ faults' = 0 /\ pc[Module] = "running" /\ pc'[Module] = "running"
              => at'[msg[p]] # "refused"]_vars
  BY WarmStep
<1> QED
  BY <1>1, FaultlessInvariant, PTL DEF Spec, WarmSendsSucceed
==============================================================================
