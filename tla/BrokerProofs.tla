---------------------------- MODULE BrokerProofs ----------------------------
(* The inductive invariant of BrokerClient, that a message stays queued until   *)
(* it is handled, and that BrokerClient implements Delivery, proved for any     *)
(* number of senders, connections, messages and faults.                         *)
EXTENDS BrokerClient, TLAPS

Places == {"new", "sending", "wire", "queue", "unacked", "done", "refused", "lost"}
Steps == {"idle", "connecting", "creating", "asserting", "waiting",
          "boot", "running", "closing", "stopped"}
InQueue == {"queue", "unacked"}

\* The module is a process beside the senders.
LEMMA ModuleApart == Module \in Procs /\ Module \notin Senders /\ Senders \subseteq Procs
                     /\ \A p \in Procs : p # Module => p \in Senders
BY SendersAssumption DEF Module, Procs

\* When connections end, queued messages stay queued and sends at work stay at work.
LEMMA SettleFits ==
  ASSUME at \in [Messages -> Places], via \in [Messages -> Conns \cup {None}],
         NEW cs, NEW failing, Settle(cs, failing), \A m \in failing : at[m] = "sending"
  PROVE  /\ at' \in [Messages -> Places] /\ via' \in [Messages -> Conns \cup {None}]
         /\ \A m \in Messages : at[m] \in InQueue => at'[m] \in InQueue
         /\ \A m \in Messages \ failing : at[m] = "sending" => at'[m] = "sending"
         /\ \A m \in Messages : at'[m] = "done" <=> at[m] = "done"
<1> DEFINE sent == UNION {On("wire", c) : c \in cs}
           delivered == UNION {On("unacked", c) : c \in cs}
           Next1(arrived, m) == CASE m \in delivered \cup arrived -> "queue"
                                  [] m \in sent \ arrived -> "lost"
                                  [] m \in failing -> "refused"
                                  [] OTHER -> at[m]
<1>1. PICK arrived \in SUBSET sent : at' = [m \in Messages |-> Next1(arrived, m)]
  BY DEF Settle
<1>2. via' = [m \in Messages |-> IF m \in sent \cup delivered THEN None ELSE via[m]]
  BY DEF Settle
<1>3. \A m \in sent : at[m] = "wire"
  BY DEF On
<1>4. \A m \in delivered : at[m] = "unacked"
  BY DEF On
<1>5. ASSUME NEW m \in Messages
      PROVE  /\ Next1(arrived, m) \in Places
             /\ at[m] \in InQueue => Next1(arrived, m) \in InQueue
             /\ at[m] = "sending" /\ m \notin failing => Next1(arrived, m) = "sending"
             /\ Next1(arrived, m) = "done" <=> at[m] = "done"
  <2>1. at[m] \in Places
    OBVIOUS
  <2>2. CASE m \in delivered \cup arrived
    <3>1. Next1(arrived, m) = "queue"
      BY <2>2, <1>3, <1>4
    <3>2. at[m] \in {"wire", "unacked"}
      BY <2>2, <1>3, <1>4
    <3> QED
      BY <3>1, <3>2 DEF Places, InQueue
  <2>3. CASE m \in sent \ arrived /\ m \notin delivered
    <3>1. Next1(arrived, m) = "lost" /\ at[m] = "wire"
      BY <2>3, <1>3
    <3> QED
      BY <3>1 DEF Places, InQueue
  <2>4. CASE m \notin delivered \cup sent /\ m \in failing
    <3>1. Next1(arrived, m) = "refused" /\ at[m] = "sending"
      BY <2>4
    <3> QED
      BY <2>4, <3>1 DEF Places, InQueue
  <2>5. CASE m \notin delivered \cup sent /\ m \notin failing
    <3>1. Next1(arrived, m) = at[m]
      BY <2>5
    <3> QED
      BY <2>1, <3>1
  <2> QED
    BY <2>2, <2>3, <2>4, <2>5
<1>6. \A m \in Messages : at'[m] = Next1(arrived, m)
  BY <1>1
<1>7. at' \in [Messages -> Places]
  <2> HIDE DEF Next1
  <2> QED
    BY <1>1, <1>5
<1>8. via' \in [Messages -> Conns \cup {None}]
  BY <1>2
<1>9. /\ \A m \in Messages : at[m] \in InQueue => at'[m] \in InQueue
      /\ \A m \in Messages \ failing : at[m] = "sending" => at'[m] = "sending"
      /\ \A m \in Messages : at'[m] = "done" <=> at[m] = "done"
  <2> HIDE DEF Next1
  <2> QED
    BY <1>5, <1>6
<1> QED
  BY <1>7, <1>8, <1>9

----------------------------------------------------------------------------
(* The invariant *)

\* Nothing is there at first.
LEMMA InitInv == Init => BrokerInv
<1> SUFFICES ASSUME Init PROVE BrokerInv
  OBVIOUS
<1>1. TypeOK
  BY BoundsAssumption DEF Init, TypeOK
<1>2. SendersWork /\ OwnMessages /\ ClosingGone /\ HandlersApart
  BY ModuleApart DEF Init, SendersWork, OwnMessages, ClosingGone, HandlersApart
<1> QED
  BY <1>1, <1>2 DEF BrokerInv

\* What a step has to do with the sends at work: a process p apart, they wait where
\* they were, and their messages are still theirs to send.
LEMMA WorkKept ==
  ASSUME BrokerInv, NEW P \in SUBSET Procs,
         \A q \in Senders \ P : pc'[q] = pc[q],
         \A q \in Senders : msg'[q] = msg[q],
         \A q \in Senders \cap P : /\ pc[q] # "idle"
                                   /\ pc'[q] \in {"connecting", "creating", "asserting", "waiting"},
         \A m \in Messages : at[m] = "sending" => at'[m] = "sending"
  PROVE  SendersWork' /\ OwnMessages'
<1>1. SendersWork'
  BY DEF BrokerInv, SendersWork
<1>2. OwnMessages'
  BY DEF BrokerInv, OwnMessages
<1> QED
  BY <1>1, <1>2

\* The special case of a step that moves no send.
LEMMA WorkUntouched ==
  ASSUME BrokerInv, \A q \in Senders : pc'[q] = pc[q] /\ msg'[q] = msg[q],
         \A m \in Messages : at[m] = "sending" => at'[m] = "sending"
  PROVE  SendersWork' /\ OwnMessages'
<1>1. {} \in SUBSET Procs /\ Senders \ {} = Senders /\ Senders \cap {} = {}
  OBVIOUS
<1> QED
  BY <1>1, WorkKept

\* Whatever ends the process, the sends in it are gone and the queue is not.
LEMMA RebornFits ==
  ASSUME BrokerInv, Reborn, faults' \in 0..MaxFaults[subscribed]
  PROVE  BrokerInv' /\ \A m \in Messages : at[m] \in InQueue => at'[m] \in InQueue
<1>1. /\ at' \in [Messages -> Places] /\ via' \in [Messages -> Conns \cup {None}]
      /\ \A m \in Messages : at[m] \in InQueue => at'[m] \in InQueue
      /\ \A m \in Messages : at'[m] = "done" <=> at[m] = "done"
  <2>1. Settle(live, {m \in Messages : at[m] = "sending"})
    BY DEF Reborn
  <2>2. at \in [Messages -> Places] /\ via \in [Messages -> Conns \cup {None}]
    BY DEF BrokerInv, TypeOK, Places
  <2> QED
    BY <2>1, <2>2, SettleFits
<1>2. TypeOK'
  <2>1. pc' \in [Procs -> Steps]
    BY DEF Reborn, Steps
  <2> QED
    BY <1>1, <2>1 DEF Reborn, BrokerInv, TypeOK, Places, Steps
<1>3. SendersWork' /\ OwnMessages' /\ ClosingGone'
  BY ModuleApart DEF Reborn, SendersWork, OwnMessages, ClosingGone
<1>4. HandlersApart'
  BY <1>1 DEF Reborn, BrokerInv, TypeOK, HandlersApart, InQueue
<1> QED
  BY <1>1, <1>2, <1>3, <1>4 DEF BrokerInv

\* A rejected promise keeps the invariant, and touches no queued message.
LEMMA RefuseFits ==
  ASSUME BrokerInv, NEW p \in Procs, Refuse(p), pc[p] # "idle",
         faults' \in 0..MaxFaults[subscribed]
  PROVE  BrokerInv' /\ \A m \in Messages : at[m] \in InQueue => at'[m] \in InQueue
<1>1. CASE p = Module
  BY <1>1, RebornFits DEF Refuse
<1>2. CASE p # Module
  <2>1. p \in Senders /\ msg[p] \in Messages /\ at[msg[p]] = "sending"
    BY <1>2, ModuleApart DEF BrokerInv, SendersWork
  <2>2. /\ pc' = [pc EXCEPT ![p] = "idle"] /\ at' = [at EXCEPT ![msg[p]] = "refused"]
        /\ mine' = [mine EXCEPT ![p] = None] /\ msg' = [msg EXCEPT ![p] = None]
        /\ warm' = [warm EXCEPT ![p] = FALSE]
        /\ UNCHANGED <<clientVars, via, handlers, handled>>
    BY <1>2 DEF Refuse
  <2>3. TypeOK'
    BY <2>1, <2>2 DEF BrokerInv, TypeOK, clientVars
  <2>4. SendersWork'
    <3>1. \A q \in Senders : q # p => msg[q] # msg[p]
      BY <2>1, NoneAssumption DEF BrokerInv, OwnMessages
    <3>2. ASSUME NEW q \in Senders
          PROVE  /\ pc'[q] \in {"idle", "connecting", "creating", "asserting", "waiting"}
                 /\ pc'[q] = "idle" => msg'[q] = None
                 /\ pc'[q] # "idle" => msg'[q] \in Messages /\ at'[msg'[q]] = "sending"
      BY <2>1, <2>2, <3>1, ModuleApart DEF BrokerInv, SendersWork, TypeOK
    <3> QED
      BY <3>2 DEF SendersWork
  <2>5. OwnMessages'
    BY <2>1, <2>2, ModuleApart DEF BrokerInv, OwnMessages, TypeOK
  <2>6. ClosingGone'
    BY <1>2, <2>2, ModuleApart DEF BrokerInv, ClosingGone, TypeOK, clientVars
  <2>7. \A m \in Messages : at[m] \in InQueue => at'[m] \in InQueue
    BY <2>1, <2>2 DEF BrokerInv, TypeOK, InQueue
  <2>8. HandlersApart'
    BY <2>1, <2>2 DEF BrokerInv, TypeOK, HandlersApart
  <2> QED
    BY <2>3, <2>4, <2>5, <2>6, <2>7, <2>8 DEF BrokerInv
<1> QED
  BY <1>1, <1>2

\* The bound on faults is kept, by a fault and by a step that is none.
LEMMA FaultsFit ==
  ASSUME BrokerInv, UNCHANGED faults \/ Fault
  PROVE  faults' \in 0..MaxFaults[subscribed]
BY BoundsAssumption DEF BrokerInv, TypeOK, Fault

----------------------------------------------------------------------------
(* One step *)

\* A queued message stays queued, unless its handler has settled.
Kept == \A m \in Messages : at[m] \in InQueue => at'[m] \in InQueue \/ m \in handled'

\* A send begins with a message nobody has sent.
LEMMA SendFits ==
  ASSUME BrokerInv, NEW p \in Senders, Send(p)
  PROVE  BrokerInv' /\ Kept
<1>1. PICK m \in Messages : /\ at[m] = "new" /\ at' = [at EXCEPT ![m] = "sending"]
                            /\ msg' = [msg EXCEPT ![p] = m]
  BY DEF Send
<1>2. /\ pc[p] = "idle" /\ pc' = [pc EXCEPT ![p] = IF connection = None THEN "connecting" ELSE "asserting"]
      /\ warm' = [warm EXCEPT ![p] = channel # None]
      /\ UNCHANGED <<clientVars, mine, via, handlers, handled, faults>>
  BY DEF Send, InitFrom, Goto
<1>3. p \in Procs /\ p # Module
  BY ModuleApart
<1>4. TypeOK'
  BY <1>1, <1>2, <1>3 DEF BrokerInv, TypeOK, clientVars
<1>5. \A q \in Senders : msg[q] # m
  BY <1>1, NoneAssumption DEF BrokerInv, SendersWork
<1>6. SendersWork'
  <2>1. ASSUME NEW q \in Senders
        PROVE  /\ pc'[q] \in {"idle", "connecting", "creating", "asserting", "waiting"}
               /\ pc'[q] = "idle" => msg'[q] = None
               /\ pc'[q] # "idle" => msg'[q] \in Messages /\ at'[msg'[q]] = "sending"
    <3>1. CASE q = p
      BY <3>1, <1>1, <1>2, <1>3 DEF BrokerInv, TypeOK
    <3>2. CASE q # p
      <4>1. pc'[q] = pc[q] /\ msg'[q] = msg[q]
        BY <3>2, <1>1, <1>2, ModuleApart DEF BrokerInv, TypeOK
      <4> QED
        BY <4>1, <1>1, <1>5 DEF BrokerInv, SendersWork, TypeOK
    <3> QED
      BY <3>1, <3>2
  <2> QED
    BY <2>1 DEF SendersWork
<1>7. OwnMessages'
  <2>1. \A q \in Senders : msg'[q] = IF q = p THEN m ELSE msg[q]
    BY <1>1, ModuleApart DEF BrokerInv, TypeOK
  <2> QED
    BY <2>1, <1>5 DEF BrokerInv, OwnMessages
<1>8. ClosingGone'
  BY <1>2, <1>3, ModuleApart DEF BrokerInv, ClosingGone, TypeOK, clientVars
<1>9. HandlersApart'
  BY <1>1, <1>2 DEF BrokerInv, HandlersApart, TypeOK
<1>10. Kept
  BY <1>1 DEF BrokerInv, TypeOK, Kept, InQueue
<1> QED
  BY <1>4, <1>6, <1>7, <1>8, <1>9, <1>10 DEF BrokerInv

\* A connection or a channel is made, or the queue asserted: p waits for the next answer.
LEMMA SettingUpFits ==
  ASSUME BrokerInv, NEW p \in Procs, Connected(p) \/ ChannelMade(p) \/ AssertQueue(p)
  PROVE  BrokerInv' /\ Kept
<1>1. CASE AssertQueue(p) /\ channel \notin chans
  <2>1. Refuse(p) /\ UNCHANGED faults /\ pc[p] # "idle"
    BY <1>1 DEF AssertQueue
  <2> QED
    BY <2>1, FaultsFit, RefuseFits DEF Kept
<1>2. CASE Connected(p) \/ ChannelMade(p) \/ (AssertQueue(p) /\ channel \in chans)
  <2>1. /\ pc[p] \in {"connecting", "creating", "asserting"}
        /\ pc' \in {[pc EXCEPT ![p] = s] : s \in {"creating", "asserting", "waiting"}}
        /\ UNCHANGED <<subscribed, msg, warm, msgVars, faults, consumer>>
    BY <1>2 DEF Connected, ChannelMade, AssertQueue, Goto, clientVars
  <2>2. /\ mine' \in [Procs -> Conns \cup {None}]
        /\ connection' \in Conns \cup {None} /\ channel' \in Conns \cup {None}
        /\ chans' \subseteq live' /\ live' \subseteq Conns
    <3>1. CASE Connected(p)
      BY <3>1 DEF BrokerInv, TypeOK, Connected, Fresh
    <3>2. CASE ChannelMade(p)
      BY <3>2 DEF BrokerInv, TypeOK, ChannelMade
    <3>3. CASE AssertQueue(p) /\ channel \in chans
      BY <3>3 DEF BrokerInv, TypeOK, AssertQueue, clientVars
    <3> QED
      BY <1>2, <3>1, <3>2, <3>3
  <2>3. TypeOK'
    BY <2>1, <2>2 DEF BrokerInv, TypeOK, msgVars
  <2>4. SendersWork' /\ OwnMessages'
    <3>1. \A q \in Senders \ {p} : pc'[q] = pc[q]
      BY <2>1, ModuleApart DEF BrokerInv, TypeOK
    <3>2. \A q \in Senders \cap {p} : /\ pc[q] # "idle"
             /\ pc'[q] \in {"connecting", "creating", "asserting", "waiting"}
      BY <2>1, ModuleApart DEF BrokerInv, TypeOK
    <3> QED
      BY <2>1, <3>1, <3>2, WorkKept DEF msgVars
  <2>5. ClosingGone'
    <3> SUFFICES ASSUME pc'[Module] = "closing" PROVE mine'[Module] \notin chans'
      BY DEF ClosingGone
    <3>1. p # Module /\ pc[Module] = "closing" /\ mine[Module] \notin chans
      BY <2>1, ModuleApart DEF BrokerInv, TypeOK, ClosingGone
    <3>2. mine'[Module] = mine[Module]
      BY <1>2, <3>1, ModuleApart DEF BrokerInv, TypeOK, Connected, ChannelMade, AssertQueue
    <3>3. CASE ChannelMade(p)
      BY <3>1, <3>2, <3>3 DEF ChannelMade, Closing
    <3>4. CASE ~ChannelMade(p)
      BY <1>2, <3>1, <3>2, <3>4 DEF Connected, AssertQueue, clientVars
    <3> QED
      BY <3>3, <3>4
  <2>6. HandlersApart' /\ Kept
    BY <2>1 DEF BrokerInv, HandlersApart, Kept, msgVars
  <2> QED
    BY <2>3, <2>4, <2>5, <2>6 DEF BrokerInv
<1> QED
  BY <1>1, <1>2 DEF AssertQueue

\* A connection or a channel is not made.
LEMMA FailureFits ==
  ASSUME BrokerInv, NEW p \in Procs, ConnectFails(p) \/ ChannelFails(p)
  PROVE  BrokerInv' /\ Kept
<1>1. Refuse(p) /\ pc[p] # "idle" /\ (UNCHANGED faults \/ Fault)
  BY DEF ConnectFails, ChannelFails
<1> QED
  BY <1>1, FaultsFit, RefuseFits DEF Kept

\* The queue is there: the message is written, or the module consumes.
LEMMA ResumeFits ==
  ASSUME BrokerInv, NEW p \in Procs, Resume(p)
  PROVE  BrokerInv' /\ Kept
<1>0. pc[p] = "waiting" /\ UNCHANGED faults
  BY DEF Resume
<1>1. CASE Refuse(p)
  BY <1>0, <1>1, FaultsFit, RefuseFits DEF Kept
<1>2. CASE /\ p = Module /\ channel \in chans /\ consumer' = channel
           /\ mine' = [mine EXCEPT ![p] = None] /\ pc' = [pc EXCEPT ![p] = "running"]
           /\ UNCHANGED <<connection, channel, live, chans, subscribed, msg, warm, msgVars>>
  <2>1. TypeOK'
    BY <1>0, <1>2 DEF BrokerInv, TypeOK, msgVars
  <2>2. \A q \in Senders : pc'[q] = pc[q]
    BY <1>2, ModuleApart DEF BrokerInv, TypeOK
  <2>3. SendersWork' /\ OwnMessages'
    BY <1>2, <2>2, WorkUntouched DEF msgVars
  <2>4. ClosingGone'
    BY <1>2, ModuleApart DEF ClosingGone, BrokerInv, TypeOK
  <2>5. HandlersApart' /\ Kept
    BY <1>2 DEF BrokerInv, HandlersApart, Kept, msgVars
  <2> QED
    BY <2>1, <2>3, <2>4, <2>5 DEF BrokerInv
<1>3. CASE /\ p # Module /\ channel \in chans
           /\ at' = [at EXCEPT ![msg[p]] = "wire"] /\ via' = [via EXCEPT ![msg[p]] = channel]
           /\ mine' = [mine EXCEPT ![p] = None] /\ pc' = [pc EXCEPT ![p] = "idle"]
           /\ msg' = [msg EXCEPT ![p] = None] /\ warm' = [warm EXCEPT ![p] = FALSE]
           /\ UNCHANGED <<clientVars, handlers, handled>>
  <2>1. p \in Senders /\ msg[p] \in Messages /\ at[msg[p]] = "sending"
    BY <1>0, <1>3, ModuleApart DEF BrokerInv, SendersWork
  <2>2. TypeOK'
    BY <1>0, <1>3, <2>1 DEF BrokerInv, TypeOK, clientVars
  <2>3. SendersWork'
    <3>1. \A q \in Senders : q # p => msg[q] # msg[p]
      BY <2>1, NoneAssumption DEF BrokerInv, OwnMessages
    <3>2. ASSUME NEW q \in Senders
          PROVE  /\ pc'[q] \in {"idle", "connecting", "creating", "asserting", "waiting"}
                 /\ pc'[q] = "idle" => msg'[q] = None
                 /\ pc'[q] # "idle" => msg'[q] \in Messages /\ at'[msg'[q]] = "sending"
      BY <2>1, <1>3, <3>1, ModuleApart DEF BrokerInv, SendersWork, TypeOK
    <3> QED
      BY <3>2 DEF SendersWork
  <2>4. OwnMessages'
    BY <2>1, <1>3, ModuleApart DEF BrokerInv, OwnMessages, TypeOK
  <2>5. ClosingGone'
    BY <1>3, ModuleApart DEF BrokerInv, ClosingGone, TypeOK, clientVars
  <2>6. HandlersApart' /\ Kept
    BY <2>1, <1>3 DEF BrokerInv, TypeOK, HandlersApart, Kept, InQueue
  <2> QED
    BY <2>2, <2>3, <2>4, <2>5, <2>6 DEF BrokerInv
<1> QED
  BY <1>1, <1>2, <1>3 DEF Resume, Goto

\* A written message arrives, or the server delivers one that is queued.
LEMMA ServerFits ==
  ASSUME BrokerInv, NEW m \in Messages, Arrive(m) \/ Deliver(m)
  PROVE  BrokerInv' /\ Kept
<1>1. /\ at[m] \in {"wire", "queue"} /\ at' \in {[at EXCEPT ![m] = s] : s \in InQueue}
      /\ UNCHANGED <<clientVars, procVars, handled, faults>>
  BY DEF Arrive, Deliver, InQueue
<1>2. via' \in [Messages -> Conns \cup {None}]
  BY DEF BrokerInv, TypeOK, Arrive, Deliver
<1>3. handlers' \subseteq Messages \X Conns /\ \A h \in handlers' : h \in handlers \/ h[1] = m
  <2>1. CASE Arrive(m)
    BY <2>1 DEF BrokerInv, TypeOK, Arrive
  <2>2. CASE Deliver(m)
    <3>1. handlers' = handlers \cup {<<m, consumer>>} /\ consumer \in Conns
      BY <2>2 DEF BrokerInv, TypeOK, Deliver
    <3> QED
      BY <3>1 DEF BrokerInv, TypeOK
  <2> QED
    BY <2>1, <2>2
<1>4. at'[m] \in InQueue /\ \A n \in Messages : n # m => at'[n] = at[n]
  BY <1>1 DEF BrokerInv, TypeOK
<1>5. TypeOK'
  BY <1>1, <1>2, <1>3 DEF BrokerInv, TypeOK, InQueue, clientVars, procVars
<1>6. SendersWork' /\ OwnMessages'
  BY <1>1, <1>4, WorkUntouched DEF procVars
<1>7. ClosingGone' /\ HandlersApart' /\ Kept
  BY <1>1, <1>3, <1>4 DEF BrokerInv, TypeOK, ClosingGone, HandlersApart, Kept, InQueue,
                          clientVars, procVars
<1> QED
  BY <1>5, <1>6, <1>7 DEF BrokerInv

\* A handler settles: its message, and no other, may leave the queue.
LEMMA HandlerFits ==
  ASSUME BrokerInv, NEW h \in handlers, HandlerEnds(h)
  PROVE  BrokerInv' /\ Kept
<1>1. h[1] \in Messages /\ at[h[1]] \in {"queue", "unacked", "done"}
  BY DEF BrokerInv, TypeOK, HandlersApart
<1>2. /\ handlers' = handlers \ {h} /\ handled' = handled \cup {h[1]} /\ chans' \subseteq chans
      /\ UNCHANGED <<connection, channel, live, consumer, subscribed, procVars, faults>>
      /\ \/ at' = [at EXCEPT ![h[1]] = "done"] /\ via' = [via EXCEPT ![h[1]] = None]
         \/ UNCHANGED <<at, via>>
  BY DEF HandlerEnds
<1>3. \A m \in Messages : at'[m] = at[m] \/ (m = h[1] /\ at'[m] = "done")
  BY <1>1, <1>2 DEF BrokerInv, TypeOK
<1>4. TypeOK'
  BY <1>1, <1>2 DEF BrokerInv, TypeOK, procVars
<1>5. SendersWork' /\ OwnMessages'
  BY <1>1, <1>2, <1>3, WorkUntouched DEF procVars
<1>6. ClosingGone'
  BY <1>2 DEF BrokerInv, ClosingGone, procVars
<1>7. HandlersApart' /\ Kept
  BY <1>2, <1>3 DEF BrokerInv, TypeOK, HandlersApart, Kept
<1> QED
  BY <1>4, <1>5, <1>6, <1>7 DEF BrokerInv

\* The server drops a connection.
LEMMA DropFits ==
  ASSUME BrokerInv, NEW c \in Conns, Drop(c)
  PROVE  BrokerInv' /\ Kept
<1>1. /\ live' = live \ {c} /\ chans' = chans \ {c} /\ Settle({c}, {}) /\ Fault
      /\ UNCHANGED <<connection, channel, consumer, subscribed, procVars, handlers, handled>>
  BY DEF Drop
<1>2. /\ at' \in [Messages -> Places] /\ via' \in [Messages -> Conns \cup {None}]
      /\ \A m \in Messages : at[m] \in InQueue => at'[m] \in InQueue
      /\ \A m \in Messages : at[m] = "sending" => at'[m] = "sending"
      /\ \A m \in Messages : at'[m] = "done" <=> at[m] = "done"
  <2>1. at \in [Messages -> Places] /\ via \in [Messages -> Conns \cup {None}]
    BY DEF BrokerInv, TypeOK, Places
  <2> QED
    BY <1>1, <2>1, SettleFits
<1>3. TypeOK'
  BY <1>1, <1>2, FaultsFit DEF BrokerInv, TypeOK, Places, procVars
<1>4. SendersWork' /\ OwnMessages'
  BY <1>1, <1>2, WorkUntouched DEF procVars
<1>5. ClosingGone' /\ HandlersApart' /\ Kept
  BY <1>1, <1>2 DEF BrokerInv, TypeOK, ClosingGone, HandlersApart, Kept, InQueue, procVars
<1> QED
  BY <1>3, <1>4, <1>5 DEF BrokerInv

\* The module starts, and begins to close.
LEMMA ModuleFits ==
  ASSUME BrokerInv, Boot \/ Close
  PROVE  BrokerInv' /\ Kept
<1>1. /\ UNCHANGED <<connection, channel, live, consumer, subscribed, msg, warm, msgVars, faults>>
      /\ pc' \in {[pc EXCEPT ![Module] = s] :
                   s \in {"connecting", "asserting", "running", "closing", "stopped"}}
  BY DEF Boot, Close, InitFrom, Goto, clientVars
<1>2. /\ mine' \in [Procs -> Conns \cup {None}] /\ chans' \subseteq chans
      /\ pc'[Module] = "closing" => mine'[Module] \notin chans'
  <2>1. CASE Boot
    BY <2>1, ModuleApart DEF BrokerInv, TypeOK, Boot, InitFrom, Goto, clientVars
  <2>2. CASE Close
    <3>1. CASE connection \in live
      BY <2>2, <3>1, ModuleApart DEF BrokerInv, TypeOK, Close, Goto
    <3>2. CASE connection \notin live
      BY <2>2, <3>2, ModuleApart DEF BrokerInv, TypeOK, Close, Goto
    <3> QED
      BY <3>1, <3>2
  <2> QED
    BY <2>1, <2>2
<1>3. TypeOK'
  BY <1>1, <1>2 DEF BrokerInv, TypeOK, msgVars
<1>4. SendersWork' /\ OwnMessages'
  <2>1. \A q \in Senders : pc'[q] = pc[q]
    BY <1>1, ModuleApart DEF BrokerInv, TypeOK
  <2> QED
    BY <1>1, <2>1, WorkUntouched DEF msgVars
<1>5. ClosingGone' /\ HandlersApart' /\ Kept
  BY <1>1, <1>2 DEF BrokerInv, ClosingGone, HandlersApart, Kept, msgVars
<1> QED
  BY <1>3, <1>4, <1>5 DEF BrokerInv

\* The connection that was closing is closed.
LEMMA ClosedFits ==
  ASSUME BrokerInv, Closed
  PROVE  BrokerInv' /\ Kept
<1> DEFINE c == mine[Module]
<1>1. /\ connection' = None /\ live' = live \ {c} /\ Settle({c}, {})
      /\ mine' = [mine EXCEPT ![Module] = None] /\ pc' = [pc EXCEPT ![Module] = "stopped"]
      /\ UNCHANGED <<channel, chans, consumer, subscribed, msg, warm, handlers, handled, faults>>
  BY DEF Closed, Goto
<1>2. chans \subseteq live' 
  BY <1>1 DEF Closed, BrokerInv, TypeOK, ClosingGone
<1>3. /\ at' \in [Messages -> Places] /\ via' \in [Messages -> Conns \cup {None}]
      /\ \A m \in Messages : at[m] \in InQueue => at'[m] \in InQueue
      /\ \A m \in Messages : at[m] = "sending" => at'[m] = "sending"
      /\ \A m \in Messages : at'[m] = "done" <=> at[m] = "done"
  <2>1. at \in [Messages -> Places] /\ via \in [Messages -> Conns \cup {None}]
    BY DEF BrokerInv, TypeOK, Places
  <2> QED
    BY <1>1, <2>1, SettleFits
<1>4. TypeOK'
  BY <1>1, <1>2, <1>3 DEF BrokerInv, TypeOK, Places
<1>5. SendersWork' /\ OwnMessages'
  <2>1. \A q \in Senders : pc'[q] = pc[q]
    BY <1>1, ModuleApart DEF BrokerInv, TypeOK
  <2> QED
    BY <1>1, <1>3, <2>1, WorkUntouched
<1>6. ClosingGone'
  BY <1>1, ModuleApart DEF BrokerInv, TypeOK, ClosingGone
<1>7. HandlersApart' /\ Kept
  BY <1>1, <1>3 DEF BrokerInv, TypeOK, HandlersApart, Kept, InQueue
<1> QED
  BY <1>4, <1>5, <1>6, <1>7 DEF BrokerInv

\* The process dies, or ends in order.
LEMMA EndFits ==
  ASSUME BrokerInv, Crash \/ Exit
  PROVE  BrokerInv' /\ Kept
BY FaultsFit, RebornFits DEF Crash, Exit, Kept

\* Every step keeps the invariant, and queued messages queued.
LEMMA NextFits == BrokerInv /\ [Next]_vars => BrokerInv' /\ Kept
<1> SUFFICES ASSUME BrokerInv, [Next]_vars PROVE BrokerInv' /\ Kept
  OBVIOUS
<1>1. ASSUME NEW p \in Senders, Send(p) PROVE BrokerInv' /\ Kept
  BY <1>1, SendFits
<1>2. ASSUME NEW p \in Procs, Step(p) \/ ConnectFails(p) PROVE BrokerInv' /\ Kept
  BY <1>2, SettingUpFits, FailureFits, ResumeFits DEF Step
<1>3. ASSUME NEW m \in Messages, Arrive(m) \/ Deliver(m) PROVE BrokerInv' /\ Kept
  BY <1>3, ServerFits
<1>4. ASSUME NEW h \in handlers, HandlerEnds(h) PROVE BrokerInv' /\ Kept
  BY <1>4, HandlerFits
<1>5. ASSUME NEW c \in Conns, Drop(c) PROVE BrokerInv' /\ Kept
  BY <1>5, DropFits
<1>6. ASSUME Boot \/ Crash \/ Close \/ Closed \/ Exit PROVE BrokerInv' /\ Kept
  BY <1>6, ModuleFits, ClosedFits, EndFits
<1>7. CASE UNCHANGED vars
  <2>1. /\ UNCHANGED <<subscribed, connection, channel, live, chans, consumer>>
        /\ UNCHANGED <<pc, mine, msg, warm, at, via, handlers, handled, faults>>
    BY <1>7 DEF vars, clientVars, procVars, msgVars
  <2> QED
    BY <2>1 DEF BrokerInv, TypeOK, SendersWork, OwnMessages, ClosingGone, HandlersApart, Kept
<1> QED
  BY <1>1, <1>2, <1>3, <1>4, <1>5, <1>6, <1>7 DEF Next

----------------------------------------------------------------------------
(* Every step is one of Delivery's, or none *)

Unmoved == Stage' = Stage /\ handled' = handled

\* What becomes of one message is seen from outside.
LEMMA OneMoves ==
  ASSUME BrokerInv, NEW m \in Messages, NEW s \in Places, at' = [at EXCEPT ![m] = s]
  PROVE  /\ Stage[m] = IF at[m] = "unacked" THEN "queue" ELSE at[m]
         /\ Stage' = [Stage EXCEPT ![m] = IF s = "unacked" THEN "queue" ELSE s]
BY DEF Stage, BrokerInv, TypeOK

\* When connections end, sends are refused, written messages arrive or are lost, and
\* what was delivered is where it was.
LEMMA SettleMaps ==
  ASSUME NEW cs, NEW failing \in SUBSET Messages, Settle(cs, failing), handled' = handled,
         \A m \in failing : at[m] = "sending"
  PROVE  Promise!Next
<1> DEFINE sent == UNION {On("wire", c) : c \in cs}
           delivered == UNION {On("unacked", c) : c \in cs}
<1>1. PICK arrived \in SUBSET sent :
        at' = [m \in Messages |-> CASE m \in delivered \cup arrived -> "queue"
                                   [] m \in sent \ arrived -> "lost"
                                   [] m \in failing -> "refused"
                                   [] OTHER -> at[m]]
  BY DEF Settle
<1>2. /\ \A m \in sent : m \in Messages /\ at[m] = "wire"
      /\ \A m \in delivered : m \in Messages /\ at[m] = "unacked"
  BY DEF On
<1> HIDE DEF sent, delivered
<1> DEFINE lost == sent \ arrived
           Seen(m) == CASE m \in failing -> "refused"
                        [] m \in lost -> "lost"
                        [] m \in arrived -> "queue"
                        [] OTHER -> Stage[m]
<1>3. ASSUME NEW m \in Messages PROVE Stage'[m] = Seen(m)
  <2>1. Stage'[m] = (IF at'[m] = "unacked" THEN "queue" ELSE at'[m])
        /\ Stage[m] = (IF at[m] = "unacked" THEN "queue" ELSE at[m])
    BY DEF Stage
  <2>2. CASE m \in delivered
    <3>1. at'[m] = "queue" /\ m \notin failing /\ m \notin sent
      BY <1>1, <1>2, <2>2
    <3> QED BY <1>2, <2>1, <2>2, <3>1
  <2>3. CASE m \in arrived
    <3>1. at'[m] = "queue" /\ m \notin failing /\ m \notin lost
      BY <1>1, <1>2, <2>3
    <3> QED BY <2>1, <2>3, <3>1
  <2>4. CASE m \in lost
    <3>1. at'[m] = "lost" /\ m \notin failing
      BY <1>1, <1>2, <2>4
    <3> QED BY <2>1, <2>4, <3>1
  <2>5. CASE m \in failing
    <3>1. at'[m] = "refused" /\ m \notin lost /\ m \notin arrived
      BY <1>1, <1>2, <2>5
    <3> QED BY <2>1, <2>5, <3>1
  <2>6. CASE m \notin delivered \cup sent \cup failing
    <3>1. at'[m] = at[m]
      BY <1>1, <2>6
    <3> QED BY <2>1, <2>6, <3>1
  <2> QED BY <2>2, <2>3, <2>4, <2>5, <2>6
<1>4. Stage' = [m \in Messages |-> Seen(m)]
  <2> HIDE DEF Seen
  <2> QED BY <1>3 DEF Stage
<1>5. Promise!Settle(failing, lost, arrived)
  BY <1>4 DEF Promise!Settle
<1>6. /\ failing \in SUBSET Promise!In("sending")
      /\ lost \in SUBSET Promise!In("wire") /\ arrived \in SUBSET Promise!In("wire")
  BY <1>2 DEF Promise!In, Stage
<1> QED BY <1>5, <1>6 DEF Promise!Next

LEMMA RebornMaps == ASSUME Reborn PROVE Promise!Next
<1>1. /\ Settle(live, {m \in Messages : at[m] = "sending"}) /\ handled' = handled
  BY DEF Reborn
<1> QED BY <1>1, SettleMaps

LEMMA RefuseMaps ==
  ASSUME BrokerInv, NEW p \in Procs, Refuse(p), pc[p] # "idle"
  PROVE  Promise!Next
<1>1. CASE p = Module
  BY <1>1, RebornMaps DEF Refuse
<1>2. CASE p # Module
  <2>1. /\ msg[p] \in Messages /\ at[msg[p]] = "sending"
        /\ at' = [at EXCEPT ![msg[p]] = "refused"] /\ handled' = handled
    BY <1>2, ModuleApart DEF Refuse, BrokerInv, SendersWork
  <2>2. Stage[msg[p]] = "sending" /\ Stage' = [Stage EXCEPT ![msg[p]] = "refused"]
    BY <2>1, OneMoves DEF Places
  <2>3. Stage' = [m \in Messages |-> CASE m \in {msg[p]} -> "refused" [] m \in {} -> "lost"
                                       [] m \in {} -> "queue" [] OTHER -> Stage[m]]
    BY <2>1, <2>2 DEF Stage
  <2>4. Promise!Settle({msg[p]}, {}, {})
    BY <2>1, <2>3 DEF Promise!Settle
  <2>5. {msg[p]} \in SUBSET Promise!In("sending") /\ {} \in SUBSET Promise!In("wire")
    BY <2>1, <2>2 DEF Promise!In
  <2> QED BY <2>4, <2>5 DEF Promise!Next
<1> QED BY <1>1, <1>2

LEMMA SendMaps == ASSUME BrokerInv, NEW p \in Senders, Send(p) PROVE Promise!Next
<1>1. PICK m \in Messages : at[m] = "new" /\ at' = [at EXCEPT ![m] = "sending"]
  BY DEF Send
<1>2. Promise!Send(m)
  BY <1>1, OneMoves DEF Places, Send, Promise!Send
<1> QED BY <1>2 DEF Promise!Next

LEMMA StepMaps ==
  ASSUME BrokerInv, NEW p \in Procs, Step(p) \/ ConnectFails(p)
  PROVE  Promise!Next \/ Unmoved
<1>1. CASE Refuse(p)
  <2>1. pc[p] # "idle"
    BY DEF Step, Connected, ChannelMade, ChannelFails, AssertQueue, Resume, ConnectFails
  <2> QED BY <1>1, <2>1, RefuseMaps
<1>2. CASE UNCHANGED msgVars
  BY <1>2 DEF Unmoved, Stage, msgVars
<1>3. CASE /\ pc[p] = "waiting" /\ p # Module
           /\ at' = [at EXCEPT ![msg[p]] = "wire"] /\ handled' = handled
  <2>1. msg[p] \in Messages /\ at[msg[p]] = "sending"
    BY <1>3, ModuleApart DEF BrokerInv, SendersWork
  <2>2. Promise!Publish(msg[p])
    BY <1>3, <2>1, OneMoves DEF Places, Promise!Publish
  <2> QED BY <2>1, <2>2 DEF Promise!Next
<1> QED BY <1>1, <1>2, <1>3
        DEF Step, Connected, ChannelMade, ChannelFails, AssertQueue, Resume, ConnectFails

LEMMA ServerMaps ==
  ASSUME BrokerInv, NEW m \in Messages, Arrive(m) \/ Deliver(m)
  PROVE  Promise!Next \/ Unmoved
<1>1. CASE Arrive(m)
  <2>1. /\ at[m] = "wire" /\ at' = [at EXCEPT ![m] = "queue"] /\ handled' = handled
    BY <1>1 DEF Arrive
  <2>2. Stage[m] = "wire" /\ Stage' = [Stage EXCEPT ![m] = "queue"]
    BY <2>1, OneMoves DEF Places
  <2>3. Stage' = [n \in Messages |-> CASE n \in {} -> "refused" [] n \in {} -> "lost"
                                       [] n \in {m} -> "queue" [] OTHER -> Stage[n]]
    BY <2>2 DEF Stage
  <2>4. Promise!Settle({}, {}, {m})
    BY <2>1, <2>3 DEF Promise!Settle
  <2>5. {m} \in SUBSET Promise!In("wire") /\ \A s : {} \in SUBSET Promise!In(s)
    BY <2>2 DEF Promise!In
  <2> QED BY <2>4, <2>5 DEF Promise!Next
<1>2. CASE Deliver(m)
  <2>1. /\ at[m] = "queue" /\ at' = [at EXCEPT ![m] = "unacked"] /\ handled' = handled
    BY <1>2 DEF Deliver
  <2>2. Stage[m] = "queue" /\ Stage' = [Stage EXCEPT ![m] = "queue"]
    BY <2>1, OneMoves DEF Places
  <2>3. Stage' = Stage
    BY <2>2 DEF Stage
  <2> QED BY <2>1, <2>3 DEF Unmoved
<1> QED BY <1>1, <1>2

\* A handler that settles: the message was queued, or another delivery of it has been
\* acknowledged.
LEMMA HandlerMaps ==
  ASSUME BrokerInv, NEW h \in handlers, HandlerEnds(h)
  PROVE  Promise!Next \/ Unmoved
<1> DEFINE m == h[1]
<1>1. /\ m \in Messages /\ at[m] \in {"queue", "unacked", "done"}
      /\ at[m] = "done" => m \in handled
      /\ handled' = handled \cup {m}
      /\ at' = [at EXCEPT ![m] = "done"] \/ at' = at
  BY DEF BrokerInv, TypeOK, HandlersApart, HandlerEnds
<1> HIDE DEF m
<1>2. Stage' = Stage \/ Stage' = [Stage EXCEPT ![m] = "done"]
  BY <1>1, OneMoves DEF Places, Stage
<1>3. CASE at[m] = "done"
  <2>1. Stage[m] = "done" /\ [Stage EXCEPT ![m] = "done"] = Stage
    BY <1>1, <1>3 DEF Stage
  <2> QED BY <1>1, <1>2, <1>3, <2>1 DEF Unmoved
<1>4. CASE at[m] # "done"
  <2>1. Stage[m] = "queue"
    BY <1>1, <1>4 DEF Stage
  <2>2. Promise!Handle(m)
    BY <1>1, <1>2, <2>1 DEF Promise!Handle
  <2> QED BY <1>1, <2>2 DEF Promise!Next
<1> QED BY <1>3, <1>4

LEMMA NextMaps ==
  ASSUME BrokerInv, [Next]_vars PROVE Promise!Next \/ Unmoved
<1>1. ASSUME NEW c \in Conns, Drop(c) PROVE Promise!Next
  BY <1>1, SettleMaps DEF Drop
<1>2. CASE Closed
  BY <1>2, SettleMaps DEF Closed
<1>3. CASE Boot \/ Close \/ UNCHANGED vars
  BY <1>3 DEF Boot, Close, vars, msgVars, Unmoved, Stage
<1>4. CASE Crash \/ Exit
  BY <1>4, RebornMaps DEF Crash, Exit
<1> QED BY <1>1, <1>2, <1>3, <1>4, SendMaps, StepMaps, ServerMaps, HandlerMaps DEF Next

----------------------------------------------------------------------------
(* The theorems *)

\* The invariant holds in every state.
THEOREM BrokerInvariant == Spec => []BrokerInv
<1>1. BrokerInv /\ [Next]_vars => BrokerInv'
  BY NextFits
<1> QED
  BY <1>1, InitInv, PTL DEF Spec

\* Every variable has its type: no channel is open on a connection that is not.
THEOREM BrokerTypes == Spec => []TypeOK
<1>1. BrokerInv => TypeOK
  BY DEF BrokerInv
<1> QED
  BY <1>1, BrokerInvariant, PTL

\* A message leaves the durable queue only once its handler has settled, whatever
\* drops or crashes, and whatever is acknowledged on the wrong channel.
THEOREM QueueIsKept == Spec => QueuedUntilHandled
<1>1. BrokerInv /\ [Next]_vars
      => [\A m \in Messages :
            at[m] \in {"queue", "unacked"} /\ at'[m] \notin {"queue", "unacked"}
              => m \in handled']_vars
  <2> SUFFICES ASSUME BrokerInv, [Next]_vars, NEW m \in Messages,
                      at[m] \in {"queue", "unacked"}, at'[m] \notin {"queue", "unacked"}
               PROVE  m \in handled'
    OBVIOUS
  <2> QED
    BY NextFits DEF Kept, InQueue
<1> QED
  BY <1>1, BrokerInvariant, PTL DEF Spec, QueuedUntilHandled

\* Whatever sends race, connections drop and processes die: what was accepted is
\* delivered at least once or lost on its way to the queue, what was refused is never
\* handled, what left the queue was handled.
THEOREM BrokerImplementsDelivery == Spec => ImplementsDelivery
<1>1. Init => Promise!Init
  BY DEF Init, Promise!Init, Stage
<1>2. BrokerInv /\ [Next]_vars => [Promise!Next]_(Promise!deliveryVars)
  BY NextMaps DEF Unmoved, Promise!deliveryVars
<1> QED
  BY <1>1, <1>2, BrokerInvariant, PTL DEF Spec, ImplementsDelivery, Promise!Spec
=============================================================================
