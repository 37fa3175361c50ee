--------------------------- MODULE AccountsProofs ---------------------------
(***************************************************************************)
(* TLAPS proofs about Accounts, for every set of clients, users, tokens,   *)
(* addresses and for every pool size and request bound.                    *)
(***************************************************************************)
EXTENDS AccountsInvariant, TLAPS

\* What a request carries, by its flow.
LEMMA RequestFacts ==
  ASSUME NEW r \in Requests
  PROVE  /\ r.flow \in {"signUp", "signIn", "create", "apply"}
         /\ r.type \in Types
         /\ r.flow \in {"signUp", "signIn"} =>
              r.email \in Emails /\ r.password \in Passwords /\ r.data = None
         /\ r.flow = "signUp" => r.type = "su"
         /\ r.flow = "create" => r.email \in Emails /\ r.data \in DataOf(r.type)
         /\ r.flow = "apply" =>
              r.token \in Uuids /\ (r.type = "pr" => r.password \in Passwords)
<1>1. CASE r \in SignUps \cup SignIns
  BY <1>1, TypesAssumption
     DEF SignUps, SignIns, Request, RoutedTypes
<1>2. CASE r \in Creates
  <2>1. PICK type \in Types : \E e \in Emails, d \in DataOf(type) :
          r = Request("create", type, e, None, None, d)
    BY <1>2 DEF Creates
  <2> QED BY <2>1 DEF Request
<1>3. CASE r \in Applies
  <2>1. PICK type \in Types : \E p \in NewPassword(type), t \in Uuids :
          r = Request("apply", type, None, p, t, None)
    BY <1>3 DEF Applies
  <2> QED BY <2>1 DEF Request, NewPassword
<1> QED BY <1>1, <1>2, <1>3 DEF Requests

\* Rows and requests are not null.
LEMMA NotNone == \A v \in UserRow \cup OpRow \cup Requests : v # None
  BY NoneIsNoRow

\* Facts about the tables that only become true.
Persist ==
  /\ \A u \in Users : users[u] # None => users'[u] # None
  /\ \A t \in Uuids : meta[t] # None => meta'[t] = meta[t]

SameClient(d) == /\ pc'[d] = pc[d] /\ req'[d] = req[d]
                 /\ loc'[d] = loc[d] /\ tx'[d] = tx[d]

\* A client that does not move keeps what it relies on.
LEMMA StableClient ==
  ASSUME NEW d \in Clients, ClientInv(d), Persist, SameClient(d)
  PROVE  ClientInv(d)'
<1> USE DEF Persist, SameClient
<1>1. Known(d) => Known(d)'
  BY DEF Known
<1>2. \A t : Own(d, t) => Own(d, t)'
  BY DEF Own
<1>3. Applying(d) => Applying(d)'
  BY <1>1, <1>2 DEF Applying
<1>4. Inserted(d) => Inserted(d)'
  BY DEF Inserted
<1> QED BY <1>1, <1>2, <1>3, <1>4
   DEF ClientInv, IdleInv, FlowInv, CleanInv, SignInInv, SignUpInv, CreateInv,
       ApplyInv, WritesInv, FlowPCs

-----------------------------------------------------------------------------
\* The part of ShapeInv a step of client c must re-establish.
Moved(c) == TypeOK' /\ OpsInv' /\ ClientInv(c)' /\ Persist
            /\ \A d \in Clients \ {c} : SameClient(d)

LEMMA MovedShape ==
  ASSUME NEW c \in Clients, ShapeInv, Moved(c)
  PROVE  ShapeInv'
<1>1. ASSUME NEW d \in Clients PROVE ClientInv(d)'
  <2>1. CASE d = c BY <2>1 DEF Moved
  <2>2. CASE d # c BY <2>2, StableClient DEF Moved, ShapeInv
  <2> QED BY <2>1, <2>2
<1> QED BY <1>1 DEF Moved, ShapeInv

LEMMA EndOK ==
  ASSUME NEW c \in Clients, ShapeInv, End(c)
  PROVE  /\ pc' \in [Clients -> PCs] /\ req' \in [Clients -> Requests \cup {None}]
         /\ loc' \in [Clients -> Locals] /\ conn' \subseteq Clients
         /\ tx' \in [Clients -> Writes]
         /\ ClientInv(c)'
         /\ \A d \in Clients \ {c} : SameClient(d)
<1> USE DEF ShapeInv, TypeOK, End
<1>1. NoLocals \in Locals /\ NoWrites \in Writes
  BY DEF NoLocals, NoWrites, Locals, Writes, Columns
<1>2. pc' \in [Clients -> PCs] BY DEF PCs
<1>3. loc' \in [Clients -> Locals] /\ tx' \in [Clients -> Writes] BY <1>1
<1>4. pc'[c] = "idle" /\ req'[c] = None /\ loc'[c] = NoLocals /\ tx'[c] = NoWrites
  OBVIOUS
<1>5. ClientInv(c)'
  BY <1>4 DEF ClientInv, IdleInv, FlowInv, CleanInv, SignInInv, SignUpInv,
              CreateInv, ApplyInv, WritesInv, NoWrites
<1>6. \A d \in Clients \ {c} : SameClient(d)
  BY DEF SameClient
<1> QED BY <1>2, <1>3, <1>5, <1>6

LEMMA SameTables ==
  ASSUME OpsInv, UNCHANGED <<tables, mails>>
  PROVE  OpsInv' /\ Persist
BY DEF OpsInv, Persist, tables

-----------------------------------------------------------------------------
(* One lemma per action: the moving client, the tables, the others. *)

LEMMA ArriveMoves == ASSUME NEW c \in Clients, ShapeInv, Arrive(c) PROVE Moved(c)
<1> USE DEF ShapeInv, Arrive, Goto, outside
<1>1. PICK r \in Requests :
        /\ r.flow = "apply" => r.token \in mails
        /\ req' = [req EXCEPT ![c] = r]
        /\ Goto(c, IF r.flow = "apply" THEN "begin" ELSE "lookup")
  OBVIOUS
<1>2. TypeOK'
  BY <1>1, BoundsAssumption DEF TypeOK, PCs, tables
<1>3. OpsInv' /\ Persist
  BY SameTables
<1>4. \A d \in Clients \ {c} : SameClient(d)
  BY <1>1 DEF SameClient, TypeOK
<1>5. loc[c] = NoLocals /\ tx[c] = NoWrites
  BY DEF ClientInv, IdleInv
<1>6. ClientInv(c)'
  BY <1>1, <1>5, RequestFacts
     DEF TypeOK, ClientInv, IdleInv, FlowInv, CleanInv, SignInInv, SignUpInv,
         CreateInv, ApplyInv, WritesInv, FlowPCs, NoWrites, Registering, Reading, Saving
<1> QED BY <1>2, <1>3, <1>4, <1>6 DEF Moved

LEMMA LookupUserMoves ==
  ASSUME NEW c \in Clients, ShapeInv, LookupUser(c) PROVE Moved(c)
<1> USE DEF ShapeInv, outside, env
<1>0. OpsInv' /\ Persist
  BY SameTables DEF LookupUser
<1>1. CASE End(c)
  BY <1>0, <1>1, EndOK DEF LookupUser, Moved, TypeOK, tables
<1>2. CASE req[c].flow = "signUp" /\ Goto(c, "begin") /\ UNCHANGED <<req, loc, conn, tx>>
  <2>1. TypeOK'
    BY <1>2 DEF LookupUser, TypeOK, Goto, PCs, tables
  <2>2. ClientInv(c)'
    BY <1>2 DEF LookupUser, Goto, TypeOK, ClientInv, IdleInv, FlowInv, CleanInv,
         SignInInv, SignUpInv, CreateInv, ApplyInv, WritesInv, FlowPCs,
         Registering, NoWrites
  <2> QED BY <1>0, <1>2, <2>1, <2>2 DEF Moved, SameClient, Goto, TypeOK
<1>3. ASSUME NEW u \in Found(Lookup(req[c])),
             \/ /\ req[c].flow = "create"
                /\ Goto(c, IF req[c].type = "ec" THEN "checkEmail" ELSE "begin")
             \/ req[c].flow = "signIn" /\ Goto(c, "openSession"),
             loc' = [loc EXCEPT ![c].user = u], UNCHANGED <<req, conn, tx>>
      PROVE  Moved(c)
  <2>0. u \in Users /\ users[u] # None
    BY DEF Found
  <2>1. pc' \in [Clients -> PCs]
    BY <1>3 DEF TypeOK, Goto, PCs
  <2>3. loc' \in [Clients -> Locals]
    <3>1. loc \in [Clients -> Locals] /\ \A l \in Locals : [l EXCEPT !.user = u] \in Locals
      BY <2>0 DEF TypeOK, Locals
    <3> QED BY ONLY <1>3, <3>1
  <2>4. TypeOK'
    BY <1>3, <2>1, <2>3 DEF LookupUser, TypeOK, tables
  <2>2. ClientInv(c)'
    BY <1>3, <2>0 DEF LookupUser, Goto, TypeOK, Locals, ClientInv, IdleInv, FlowInv,
         CleanInv, SignInInv, SignUpInv, CreateInv, ApplyInv, WritesInv, FlowPCs,
         Known, NoWrites, tables
  <2> QED BY <1>0, <1>3, <2>4, <2>2 DEF Moved, SameClient, Goto, TypeOK
<1> QED BY <1>1, <1>2, <1>3 DEF LookupUser

LEMMA BeginMoves == ASSUME NEW c \in Clients, ShapeInv, Begin(c) PROVE Moved(c)
<1> USE DEF ShapeInv, outside, env, Begin, Goto
<1>0. OpsInv' /\ Persist
  BY SameTables
<1>1. TypeOK'
  BY DEF TypeOK, PCs, tables
<1>2. ClientInv(c)'
  BY RequestFacts DEF TypeOK, ClientInv, IdleInv, FlowInv, CleanInv,
       SignInInv, SignUpInv, CreateInv, ApplyInv, WritesInv, FlowPCs,
       Known, NoWrites, tables, Registering, Reading, Saving
<1> QED BY <1>0, <1>1, <1>2 DEF Moved, SameClient, TypeOK

LEMMA InsertUserMoves ==
  ASSUME NEW c \in Clients, ShapeInv, InsertUser(c) PROVE Moved(c)
<1> USE DEF ShapeInv, outside, env
<1> DEFINE e == StoredEmail(req[c])
<1>0. OpsInv' /\ Persist
  BY SameTables DEF InsertUser
<1>1. CASE End(c)
  BY <1>0, <1>1, EndOK DEF InsertUser, Moved, TypeOK, tables
<1> DEFINE row == [email |-> e, password |-> req[c].password, verified |-> FALSE]
<1>2. ASSUME NEW u \in FreshUsers,
             loc' = [loc EXCEPT ![c] = [@ EXCEPT !.user = u, !.entity = row]],
             tx' = [tx EXCEPT ![c].upd = Columns],
             Goto(c, "closeFind"), UNCHANGED <<req, conn>>
      PROVE  Moved(c)
  <2>1. /\ pc[c] = "insertUser" /\ req[c] \in Requests /\ req[c].flow = "signUp"
        /\ tx[c] = NoWrites /\ u \in Users
    BY <1>2 DEF InsertUser, ClientInv, FlowInv, CleanInv, FlowPCs, FreshUsers
  <2>2. row \in UserRow
    BY <2>1, RequestFacts, LowerAssumption DEF UserRow, StoredEmail
  <2>3. row \in Entity
    BY <2>2 DEF UserRow, Entity
  <2> HIDE DEF row
  <2>4. loc' \in [Clients -> Locals]
    <3>1. \A l \in Locals : [l EXCEPT !.user = u, !.entity = row] \in Locals
      BY <2>1, <2>3 DEF Locals
    <3>2. loc \in [Clients -> Locals]
      BY DEF TypeOK
    <3> QED BY ONLY <1>2, <3>1, <3>2
  <2>5. tx' \in [Clients -> Writes]
    BY <1>2, SMTT(30) DEF TypeOK, Writes
  <2>6. pc' \in [Clients -> PCs]
    BY <1>2 DEF TypeOK, Goto, PCs
  <2>7. TypeOK'
    BY <1>2, <2>4, <2>5, <2>6 DEF InsertUser, TypeOK, tables
  <2>8. Inserted(c)'
    BY <1>2, <2>1, <2>2 DEF Inserted, TypeOK, Locals, Writes
  <2>9. ClientInv(c)'
    BY <1>2, <2>1, <2>8 DEF Goto, TypeOK, Locals, Writes, NoWrites, ClientInv, IdleInv,
         FlowInv, CleanInv, SignInInv, SignUpInv, CreateInv, ApplyInv, WritesInv,
         FlowPCs, Registering, Reading, Saving
  <2> QED BY <1>0, <1>2, <2>7, <2>9 DEF Moved, SameClient, Goto, TypeOK
<1> QED BY <1>1, <1>2 DEF InsertUser

LEMMA FindOpMoves == ASSUME NEW c \in Clients, ShapeInv, FindOp(c) PROVE Moved(c)
<1> USE DEF ShapeInv, outside, env, Goto
<1> DEFINE t == req[c].token
<1>0. OpsInv' /\ Persist
  BY SameTables DEF FindOp
<1>1. /\ pc[c] = "findOp" /\ req[c] \in Requests /\ req[c].flow = "apply"
      /\ tx[c] = NoWrites
  BY RequestFacts DEF FindOp, ClientInv, FlowInv, CleanInv, FlowPCs
<1>2. t \in Uuids
  BY <1>1, RequestFacts
<1>3. CASE /\ Usable(t, req[c].type)
           /\ loc' = [loc EXCEPT ![c] = [@ EXCEPT !.op = t, !.user = meta[t].user]]
           /\ Goto(c, "closeFind")
  <2>1. /\ meta[t] \in OpRow /\ meta[t].type = req[c].type
        /\ meta[t] # None /\ users[meta[t].user] # None
    BY <1>2, <1>3 DEF Usable, OpsInv, TypeOK
  <2>2. meta[t].user \in Users
    BY <2>1 DEF OpRow
  <2>3. loc' \in [Clients -> Locals]
    BY <1>2, <1>3, <2>2, ZenonT(60) DEF TypeOK, Locals
  <2>6. pc' \in [Clients -> PCs]
    BY <1>3 DEF TypeOK, PCs
  <2>4. TypeOK'
    BY <2>3, <2>6 DEF FindOp, TypeOK, tables
  <2>5. ClientInv(c)'
    BY <1>1, <1>2, <1>3, <2>1, <2>2, SMTT(30)
       DEF FindOp, tables, TypeOK, Locals, NoWrites, Known, Own, Applying, ClientInv, IdleInv, FlowInv, CleanInv, SignInInv, SignUpInv,
         CreateInv, ApplyInv, WritesInv, FlowPCs, Registering, Reading, Saving
  <2> QED BY <1>0, <1>3, <2>4, <2>5 DEF FindOp, Moved, SameClient, TypeOK
<1>4. CASE Goto(c, "commit") /\ UNCHANGED loc
  <2>1. TypeOK'
    BY <1>4 DEF FindOp, TypeOK, tables, PCs
  <2>2. ClientInv(c)'
    BY <1>1, <1>4 DEF FindOp, TypeOK, NoWrites, ClientInv, IdleInv, FlowInv, CleanInv, SignInInv, SignUpInv,
         CreateInv, ApplyInv, WritesInv, FlowPCs, Registering, Reading, Saving
  <2> QED BY <1>0, <1>4, <2>1, <2>2 DEF FindOp, Moved, SameClient, TypeOK
<1> QED BY <1>3, <1>4 DEF FindOp

\* Where a request goes when _close is done.
LEMMA AfterCloseFacts ==
  ASSUME NEW c \in Clients
  PROVE  /\ AfterClose(c) \in {"insertOp", "checkEmail", "updateRead"}
         /\ req[c].flow = "apply" <=> AfterClose(c) \in {"checkEmail", "updateRead"}
BY DEF AfterClose

LEMMA CloseFindMoves ==
  ASSUME NEW c \in Clients, ShapeInv, CloseFind(c) PROVE Moved(c)
<1> USE DEF ShapeInv, outside, env, Goto
<1>0. OpsInv' /\ Persist
  BY SameTables DEF CloseFind
<1>1. /\ pc[c] = "closeFind" /\ req[c] \in Requests
      /\ req[c].flow \in {"signUp", "create", "apply"}
  BY RequestFacts DEF CloseFind, ClientInv, FlowInv, FlowPCs
<1>2. CASE Goto(c, AfterClose(c)) /\ UNCHANGED loc
  <2>1. TypeOK'
    BY <1>2, AfterCloseFacts DEF CloseFind, TypeOK, tables, PCs
  <2>2. ClientInv(c)'
    BY <1>1, <1>2, AfterCloseFacts, SMTT(30)
       DEF CloseFind, tables, TypeOK, Known, Inserted, Own, Applying, ClientInv, IdleInv, FlowInv, CleanInv, SignInInv, SignUpInv,
         CreateInv, ApplyInv, WritesInv, FlowPCs, Registering, Reading, Saving
  <2> QED BY <1>0, <1>2, <2>1, <2>2 DEF CloseFind, Moved, SameClient, TypeOK
<1>3. ASSUME NEW t \in OpenOps(loc[c].user, req[c].type),
             loc' = [loc EXCEPT ![c].victim = t], Goto(c, "closeRemove")
      PROVE  Moved(c)
  <2>1. t \in Uuids /\ Own(c, t)
    BY DEF OpenOps, Own, OpsInv, TypeOK
  <2>2. loc' \in [Clients -> Locals]
    BY <1>3, <2>1, ZenonT(60) DEF TypeOK, Locals
  <2>3. pc' \in [Clients -> PCs]
    BY <1>3 DEF TypeOK, PCs
  <2>4. TypeOK'
    BY <2>2, <2>3 DEF CloseFind, TypeOK, tables
  <2>5. ClientInv(c)'
    BY <1>1, <1>3, <2>1, SMTT(30)
       DEF CloseFind, tables, TypeOK, Locals, Known, Inserted, Own, Applying, ClientInv, IdleInv, FlowInv, CleanInv, SignInInv, SignUpInv,
         CreateInv, ApplyInv, WritesInv, FlowPCs, Registering, Reading, Saving
  <2> QED BY <1>0, <1>3, <2>4, <2>5 DEF CloseFind, Moved, SameClient, TypeOK
<1> QED BY <1>2, <1>3 DEF CloseFind

LEMMA CloseRemoveMoves ==
  ASSUME NEW c \in Clients, ShapeInv, CloseRemove(c) PROVE Moved(c)
<1> USE DEF ShapeInv, outside, env, Goto, CloseRemove
<1>0. OpsInv' /\ Persist
  BY SameTables
<1>1. /\ pc[c] = "closeRemove" /\ req[c] \in Requests
      /\ req[c].flow \in {"signUp", "create", "apply"}
  BY RequestFacts DEF ClientInv, FlowInv, FlowPCs
<1>2. tx' \in [Clients -> Writes]
  BY DEF TypeOK, Writes
<1>3. pc' \in [Clients -> PCs]
  BY AfterCloseFacts DEF TypeOK, PCs
<1>4. TypeOK'
  BY <1>2, <1>3 DEF TypeOK, tables
<1>5. ClientInv(c)'
  BY <1>1, AfterCloseFacts
     DEF tables, TypeOK, Writes, Known, Inserted, Own, Applying, ClientInv, IdleInv, FlowInv, CleanInv, SignInInv, SignUpInv,
         CreateInv, ApplyInv, WritesInv, FlowPCs, Registering, Reading, Saving
<1> QED BY <1>0, <1>4, <1>5 DEF Moved, SameClient, TypeOK

LEMMA CheckEmailMoves ==
  ASSUME NEW c \in Clients, ShapeInv, CheckEmail(c) PROVE Moved(c)
<1> USE DEF ShapeInv, outside, env, Goto
<1>0. OpsInv' /\ Persist
  BY SameTables DEF CheckEmail
<1>1. /\ pc[c] = "checkEmail" /\ req[c] \in Requests
      /\ req[c].flow \in {"create", "apply"}
  BY RequestFacts DEF CheckEmail, ClientInv, FlowInv, FlowPCs
<1>2. CASE End(c)
  BY <1>0, <1>2, EndOK DEF CheckEmail, Moved, TypeOK, tables
<1>3. CASE /\ Goto(c, IF req[c].flow = "create" THEN "begin" ELSE "updateRead")
           /\ UNCHANGED <<req, loc, conn, tx>>
  <2>1. TypeOK'
    BY <1>3 DEF CheckEmail, TypeOK, tables, PCs
  <2>2. ClientInv(c)'
    BY <1>1, <1>3 DEF CheckEmail, tables, TypeOK, NoWrites, Known, Own, Applying, ClientInv, IdleInv, FlowInv, CleanInv, SignInInv, SignUpInv,
         CreateInv, ApplyInv, WritesInv, FlowPCs, Registering, Reading, Saving
  <2> QED BY <1>0, <1>3, <2>1, <2>2 DEF CheckEmail, Moved, SameClient, TypeOK
<1> QED BY <1>2, <1>3 DEF CheckEmail

LEMMA InsertOpMoves ==
  ASSUME NEW c \in Clients, ShapeInv, InsertOp(c) PROVE Moved(c)
<1> USE DEF ShapeInv, outside, env, Goto
<1>1. PICK t \in FreshUuids :
        /\ meta' = [meta EXCEPT ![t] = [user |-> loc[c].user, type |-> req[c].type,
                                        data |-> req[c].data]]
        /\ tx' = [tx EXCEPT ![c].ins = {t}]
        /\ loc' = [loc EXCEPT ![c].op = t]
  BY DEF InsertOp
<1> DEFINE row == [user |-> loc[c].user, type |-> req[c].type, data |-> req[c].data]
<1>2. t \in Uuids /\ meta[t] = None
  BY DEF FreshUuids
<1>3. /\ pc[c] = "insertOp" /\ req[c] \in Requests
      /\ req[c].flow \in {"signUp", "create"}
  BY RequestFacts DEF InsertOp, ClientInv, FlowInv, FlowPCs
<1>4. loc[c].user \in Users
  BY <1>3 DEF ClientInv, SignUpInv, CreateInv, Registering, Inserted, Known
<1>5. req[c].type \in AllTypes /\ req[c].data \in DataOf(req[c].type)
  BY <1>3, RequestFacts, TypesAssumption DEF DataOf
<1>6. row \in OpRow
  BY <1>4, <1>5 DEF OpRow, Datum, DataOf, AllTypes
<1>7. row # None
  BY <1>6, NotNone
<1>8. meta' \in [Uuids -> OpRow \cup {None}]
  BY <1>1, <1>6 DEF TypeOK
<1>9. loc' \in [Clients -> Locals]
  <2>1. loc \in [Clients -> Locals] /\ \A l \in Locals : [l EXCEPT !.op = t] \in Locals
    BY <1>2 DEF TypeOK, Locals
  <2> QED BY ONLY <1>1, <2>1
<1>10. tx' \in [Clients -> Writes]
  BY <1>1, <1>2 DEF TypeOK, Writes
<1>11. pc' \in [Clients -> PCs]
  BY DEF InsertOp, TypeOK, PCs
<1>12. TypeOK'
  BY <1>8, <1>9, <1>10, <1>11 DEF InsertOp, TypeOK
<1>13. Persist
  BY <1>1, <1>2 DEF InsertOp, Persist, TypeOK
<1>14. OpsInv'
  <2>1. \A s \in ops \cup mails : s \in Uuids /\ s # t
    BY <1>2 DEF OpsInv, TypeOK
  <2>2. \A s \in ops \cup mails : meta'[s] = meta[s]
    BY <1>1, <2>1 DEF TypeOK
  <2>3. \A s \in Uuids : meta'[s] # None => meta'[s].data \in DataOf(meta'[s].type)
    BY <1>1, <1>5 DEF TypeOK, OpsInv
  <2> QED BY <2>2, <2>3 DEF InsertOp, OpsInv
<1>15. Own(c, t)'
  BY <1>1, <1>2, <1>7 DEF InsertOp, Own, TypeOK, Locals
<1>16. ClientInv(c)'
  <2>1. \A s : Own(c, s) => Own(c, s)'
    BY <1>1, <1>13 DEF InsertOp, Own, TypeOK, Locals, Persist
  <2>2. Known(c) => Known(c)'
    BY <1>1 DEF InsertOp, Known, TypeOK, Locals
  <2>3. Inserted(c) => Inserted(c)'
    BY <1>1 DEF InsertOp, Inserted, TypeOK, Locals, Writes
  <2>4. loc'[c].op = t /\ tx'[c].ins = {t} /\ tx'[c].del = tx[c].del
        /\ tx'[c].upd = tx[c].upd
    BY <1>1 DEF TypeOK, Locals, Writes
  <2> QED BY <1>3, <1>15, <2>1, <2>2, <2>3, <2>4
       DEF InsertOp, TypeOK, ClientInv, IdleInv, FlowInv, CleanInv, SignInInv, SignUpInv,
         CreateInv, ApplyInv, WritesInv, FlowPCs, Registering, Reading, Saving
<1>17. \A d \in Clients \ {c} : SameClient(d)
  BY <1>1 DEF InsertOp, SameClient, TypeOK
<1> QED BY <1>12, <1>13, <1>14, <1>16, <1>17 DEF Moved

\* What the steps of an apply start from.
LEMMA ApplyingFacts ==
  ASSUME NEW c \in Clients, ShapeInv, pc[c] \in {"updateRead", "saveLoad", "saveWrite"}
  PROVE  /\ req[c] \in Requests /\ req[c].flow = "apply"
         /\ Applying(c) /\ tx[c].upd = {}
         /\ users[loc[c].user] \in UserRow
         /\ meta[loc[c].op] \in OpRow
         /\ meta[loc[c].op].type = req[c].type
         /\ meta[loc[c].op].data \in DataOf(req[c].type)
<1>1. req[c] \in Requests /\ req[c].flow = "apply"
  BY RequestFacts DEF ShapeInv, ClientInv, FlowInv, FlowPCs
<1>2. Applying(c) /\ tx[c].upd = {}
  BY <1>1 DEF ShapeInv, ClientInv, ApplyInv, Reading, Saving
<1> QED BY <1>1, <1>2 DEF ShapeInv, TypeOK, OpsInv, Applying, Known, Own

LEMMA UpdateReadMoves ==
  ASSUME NEW c \in Clients, ShapeInv, UpdateRead(c) PROVE Moved(c)
<1> USE DEF ShapeInv, outside, env, Goto
<1> DEFINE entity == Assigned(users[loc[c].user], req[c], meta[loc[c].op])
<1>0. OpsInv' /\ Persist
  BY SameTables DEF UpdateRead
<1>1. pc[c] = "updateRead"
  BY DEF UpdateRead
<1>2. entity \in Entity
  BY <1>1, ApplyingFacts, RequestFacts, TypesAssumption
     DEF Assigned, Entity, UserRow, DataOf, AllTypes
<1> HIDE DEF entity
<1>3. loc' = [loc EXCEPT ![c].entity = entity]
  BY DEF UpdateRead, entity
<1>4. loc' \in [Clients -> Locals]
  BY <1>2, <1>3, SMTT(30) DEF TypeOK, Locals
<1>5. pc' \in [Clients -> PCs]
  BY DEF UpdateRead, TypeOK, PCs
<1>6. TypeOK'
  BY <1>4, <1>5 DEF UpdateRead, TypeOK, tables
<1>7. ClientInv(c)'
  BY <1>1, <1>2, <1>3, ApplyingFacts, SMTT(30)
     DEF UpdateRead, tables, TypeOK, Locals, Known, Own, Applying, ClientInv, IdleInv, FlowInv, CleanInv, SignInInv, SignUpInv,
         CreateInv, ApplyInv, WritesInv, FlowPCs, Registering, Reading, Saving
<1> QED BY <1>0, <1>6, <1>7 DEF UpdateRead, Moved, SameClient, TypeOK

LEMMA SaveLoadMoves ==
  ASSUME NEW c \in Clients, ShapeInv, SaveLoad(c) PROVE Moved(c)
<1> USE DEF ShapeInv, outside, env, Goto
<1> DEFINE dirty == Dirty(loc[c].entity, users[loc[c].user])
<1>0. OpsInv' /\ Persist
  BY SameTables DEF SaveLoad
<1>1. pc[c] = "saveLoad"
  BY DEF SaveLoad
<1>2. loc[c].entity \in Entity
  BY <1>1, ApplyingFacts DEF ClientInv, ApplyInv, Saving
<1>3. /\ dirty \subseteq Columns
      /\ "password" \in dirty => loc[c].entity.password \in Passwords
  BY <1>2 DEF Dirty, Columns, Entity
<1> HIDE DEF dirty
<1>4. loc' = [loc EXCEPT ![c].dirty = dirty]
  BY DEF SaveLoad, dirty
<1>5. loc' \in [Clients -> Locals]
  BY <1>3, <1>4, ZenonT(60) DEF TypeOK, Locals
<1>6. pc'[c] \in {"saveWrite", "commit", "dropSessions"}
      /\ pc' = [pc EXCEPT ![c] = pc'[c]]
  BY DEF SaveLoad, TypeOK, AfterSave
<1>7. TypeOK'
  BY <1>5, <1>6 DEF SaveLoad, TypeOK, tables, PCs
<1>8. ClientInv(c)'
  <2>1. /\ loc'[c].user = loc[c].user /\ loc'[c].op = loc[c].op
        /\ loc'[c].entity = loc[c].entity /\ loc'[c].dirty = dirty
    BY <1>4 DEF TypeOK, Locals
  <2>2. Applying(c)' /\ \A t : Own(c, t) => Own(c, t)'
    BY <1>1, <2>1, ApplyingFacts DEF SaveLoad, tables, Known, Own, Applying
  <2>3. UNCHANGED <<req, tx>>
    BY DEF SaveLoad
  <2> QED BY <1>1, <1>2, <1>3, <1>6, <2>1, <2>2, <2>3, ApplyingFacts
     DEF ClientInv, IdleInv, FlowInv, CleanInv, SignInInv, SignUpInv,
         CreateInv, ApplyInv, WritesInv, FlowPCs, Registering, Reading, Saving
<1> QED BY <1>0, <1>6, <1>7, <1>8 DEF SaveLoad, Moved, SameClient, TypeOK

LEMMA SaveWriteMoves ==
  ASSUME NEW c \in Clients, ShapeInv, SaveWrite(c) PROVE Moved(c)
<1> USE DEF ShapeInv, outside, env, Goto
<1>0. OpsInv' /\ Persist
  BY SameTables DEF SaveWrite
<1>1. pc[c] = "saveWrite"
  BY DEF SaveWrite
<1>2. CASE End(c)
  BY <1>0, <1>2, EndOK DEF SaveWrite, Moved, TypeOK, tables
<1>3. CASE /\ tx' = [tx EXCEPT ![c].upd = loc[c].dirty]
           /\ Goto(c, AfterSave(c)) /\ UNCHANGED <<req, loc, conn>>
  <2>1. /\ loc[c].entity \in Entity /\ loc[c].dirty \subseteq Columns
        /\ "password" \in loc[c].dirty => loc[c].entity.password \in Passwords
    BY <1>1, ApplyingFacts DEF ClientInv, ApplyInv, Saving, TypeOK, Locals
  <2>2. tx' \in [Clients -> Writes]
    BY <1>3, <2>1, SMTT(30) DEF TypeOK, Writes
  <2>3. pc'[c] \in {"commit", "dropSessions"} /\ pc' = [pc EXCEPT ![c] = pc'[c]]
    BY <1>3 DEF TypeOK, AfterSave
  <2>4. TypeOK'
    BY <1>3, <2>2, <2>3 DEF SaveWrite, TypeOK, tables, PCs
  <2>5. /\ tx'[c].upd = loc[c].dirty /\ tx'[c].del = tx[c].del
        /\ tx'[c].ins = tx[c].ins
    BY <1>3 DEF TypeOK, Writes
  <2>6. Applying(c)' /\ \A t : Own(c, t) => Own(c, t)'
    BY <1>1, <1>3, ApplyingFacts DEF SaveWrite, tables, Known, Own, Applying
  <2>7. ClientInv(c)'
    BY <1>1, <1>3, <2>1, <2>3, <2>5, <2>6, ApplyingFacts
       DEF ClientInv, IdleInv, FlowInv, CleanInv, SignInInv, SignUpInv,
         CreateInv, ApplyInv, WritesInv, FlowPCs, Registering, Reading, Saving
  <2> QED BY <1>0, <1>3, <2>3, <2>4, <2>7 DEF SaveWrite, Moved, SameClient, TypeOK
<1> QED BY <1>2, <1>3 DEF SaveWrite

LEMMA DropSessionsMoves ==
  ASSUME NEW c \in Clients, ShapeInv, DropSessions(c) PROVE Moved(c)
<1> USE DEF ShapeInv, outside, env, Goto, DropSessions
<1>0. OpsInv' /\ Persist
  BY SameTables
<1>1. TypeOK'
  BY DEF TypeOK, PCs, tables
<1>2. req[c] \in Requests /\ req[c].flow = "apply"
  BY RequestFacts DEF ClientInv, FlowInv, FlowPCs
<1>3. ClientInv(c)'
  BY <1>2 DEF tables, TypeOK, Known, Own, Applying, ClientInv, IdleInv, FlowInv, CleanInv, SignInInv, SignUpInv,
         CreateInv, ApplyInv, WritesInv, FlowPCs, Registering, Reading, Saving
<1> QED BY <1>0, <1>1, <1>3 DEF Moved, SameClient, TypeOK

LEMMA NotifyMoves == ASSUME NEW c \in Clients, ShapeInv, Notify(c) PROVE Moved(c)
<1> USE DEF ShapeInv, env, Notify, Mailed
<1>1. Own(c, loc[c].op)
  BY DEF ClientInv, WritesInv
<1>2. Known(c)
  BY RequestFacts DEF ClientInv, FlowInv, FlowPCs, SignUpInv, CreateInv
<1>3. mails' \subseteq mails \cup {loc[c].op}
  OBVIOUS
<1>4. OpsInv' /\ Persist
  BY <1>1, <1>2, <1>3 DEF OpsInv, Persist, tables, Own, Known
<1>5. TypeOK'
  BY <1>1, <1>3, EndOK DEF TypeOK, tables, Own
<1> QED BY <1>4, <1>5, EndOK DEF Moved

LEMMA OpenSessionMoves ==
  ASSUME NEW c \in Clients, ShapeInv, OpenSession(c) PROVE Moved(c)
<1> USE DEF ShapeInv, env, OpenSession
<1>1. loc[c].user \in Users
  BY DEF ClientInv, SignInInv, Known
<1>2. cache' \subseteq Users \X Uuids
  BY <1>1 DEF TypeOK, FreshUuids
<1>3. TypeOK'
  BY <1>2, EndOK DEF TypeOK, tables
<1>4. OpsInv' /\ Persist
  BY SameTables
<1> QED BY <1>3, <1>4, EndOK DEF Moved

LEMMA FailMoves == ASSUME NEW c \in Clients, ShapeInv, Fail(c) PROVE Moved(c)
<1> USE DEF ShapeInv, env, outside, Fail
<1>1. TypeOK'
  BY EndOK DEF TypeOK, tables
<1>2. OpsInv' /\ Persist
  BY SameTables
<1> QED BY <1>1, <1>2, EndOK DEF Moved

\* Commit: the one step that changes the tables.
LEMMA CommitTables ==
  ASSUME NEW c \in Clients, ShapeInv, Commit(c)
  PROVE  /\ users' \in [Users -> UserRow \cup {None}]
         /\ ops' \subseteq Uuids
         /\ OpsInv' /\ Persist
         /\ req[c].flow # "apply" => loc[c].user \in Users /\ users'[loc[c].user] # None
<1> USE DEF ShapeInv, Commit, outside, env
<1>1. /\ pc[c] = "commit" /\ req[c] \in Requests
      /\ req[c].flow \in {"signUp", "create", "apply"}
  BY RequestFacts DEF ClientInv, FlowInv, FlowPCs
<1>2. ASSUME tx[c].upd # {}
      PROVE  /\ loc[c].user \in Users
             /\ users' = [users EXCEPT ![loc[c].user] =
                            Patch(@, loc[c].entity, tx[c].upd)]
             /\ Patch(users[loc[c].user], loc[c].entity, tx[c].upd) \in UserRow
  <2>1. CASE req[c].flow = "signUp"
    BY <1>1, <1>2, <2>1
       DEF ClientInv, SignUpInv, Registering, Inserted, Patch, Columns, UserRow
  <2>2. CASE req[c].flow = "apply"
    <3>1. Applying(c) /\ loc[c].entity \in Entity
          /\ ("password" \in tx[c].upd => loc[c].entity.password \in Passwords)
      BY <1>1, <1>2, <2>2 DEF ClientInv, ApplyInv, NoWrites
    <3>2. users[loc[c].user] \in UserRow /\ loc[c].user \in Users
      BY <3>1 DEF Applying, Known, TypeOK
    <3> QED BY <1>2, <3>1, <3>2 DEF Patch, UserRow, Entity
  <2>3. CASE req[c].flow = "create"
    BY <1>1, <1>2, <2>3 DEF ClientInv, CreateInv
  <2> QED BY <1>1, <2>1, <2>2, <2>3
<1>3. users' \in [Users -> UserRow \cup {None}]
  BY <1>2 DEF TypeOK
<1>4. Persist
  BY <1>2, NotNone DEF Persist, TypeOK
<1>5. req[c].flow # "apply" => loc[c].user \in Users /\ users'[loc[c].user] # None
  <2>1. CASE req[c].flow = "signUp"
    <3>1. tx[c].upd # {}
      BY <1>1, <2>1 DEF ClientInv, SignUpInv, Registering, Inserted, Columns
    <3> QED BY <1>2, <3>1, NotNone DEF TypeOK
  <2>2. CASE req[c].flow = "create"
    BY <1>1, <1>4, <2>2 DEF ClientInv, CreateInv, Known, Persist
  <2> QED BY <1>1, <2>1, <2>2
<1>6. \A t \in tx[c].ins : Own(c, t) /\ users'[meta[t].user] # None
  <2>1. \A t \in tx[c].ins : Own(c, t)
    BY DEF ClientInv, WritesInv
  <2>2. CASE req[c].flow = "apply"
    BY <1>1, <1>4, <2>1, <2>2 DEF ClientInv, ApplyInv, Applying, Known, Own, Persist, NoWrites
  <2> QED BY <1>5, <2>1, <2>2 DEF Own
<1>7. ops' \subseteq Uuids
  BY <1>6 DEF TypeOK, Own
<1>8. OpsInv'
  <2>1. \A t \in ops \cup mails : meta[t] # None /\ meta[t].user \in Users
          /\ users[meta[t].user] # None
    BY DEF OpsInv, TypeOK, OpRow
  <2> QED BY <1>4, <1>6, <2>1 DEF OpsInv, Own, Persist
<1> QED BY <1>3, <1>4, <1>5, <1>7, <1>8

LEMMA CommitMoves == ASSUME NEW c \in Clients, ShapeInv, Commit(c) PROVE Moved(c)
<1> USE DEF ShapeInv, outside, env, Goto
<1>0. OpsInv' /\ Persist
  BY CommitTables
<1>1. CASE End(c)
  BY <1>0, <1>1, CommitTables, EndOK DEF Commit, Moved, TypeOK
<1>2. CASE /\ req[c].flow # "apply"
           /\ Goto(c, "notify") /\ tx' = [tx EXCEPT ![c] = NoWrites]
           /\ conn' = Released(c) /\ UNCHANGED <<req, loc>>
  <2>1. /\ pc[c] = "commit" /\ req[c] \in Requests
        /\ req[c].flow \in {"signUp", "create"}
    BY <1>2, RequestFacts DEF Commit, ClientInv, FlowInv, FlowPCs
  <2>2. conn' \subseteq Clients /\ pc' \in [Clients -> PCs]
        /\ tx' \in [Clients -> Writes]
    BY <1>2 DEF Released, TypeOK, PCs, Writes, NoWrites
  <2>3. TypeOK'
    BY <1>2, <2>2, CommitTables DEF Commit, TypeOK
  <2>4. Known(c)'
    BY <1>2, <2>1, CommitTables DEF Known
  <2>5. Own(c, loc[c].op)'
    BY <1>2, <2>1 DEF Commit, ClientInv, WritesInv, Own
  <2>6. tx'[c] = NoWrites /\ pc'[c] = "notify"
    BY <1>2 DEF TypeOK
  <2>7. ClientInv(c)'
    BY <1>2, <2>1, <2>4, <2>5, <2>6 DEF NoWrites, ClientInv, IdleInv, FlowInv, CleanInv, SignInInv, SignUpInv,
         CreateInv, ApplyInv, WritesInv, FlowPCs, Registering, Reading, Saving
  <2> QED BY <1>0, <1>2, <2>3, <2>7 DEF Moved, SameClient, TypeOK
<1> QED BY <1>1, <1>2 DEF Commit

LEMMA StepMoves ==
  ASSUME NEW c \in Clients, ShapeInv, Arrive(c) \/ Step(c) \/ Fail(c)
  PROVE  Moved(c)
BY ArriveMoves, LookupUserMoves, BeginMoves, InsertUserMoves, FindOpMoves,
   CloseFindMoves, CloseRemoveMoves, InsertOpMoves, CheckEmailMoves, UpdateReadMoves,
   SaveLoadMoves, SaveWriteMoves, DropSessionsMoves, CommitMoves, NotifyMoves,
   OpenSessionMoves, FailMoves DEF Step

\* The tables and the clients are untouched when a ttl passes or nothing happens.
LEMMA ExpireShape ==
  ASSUME ShapeInv, (\E t \in Uuids : Expire(t)) \/ UNCHANGED vars
  PROVE  ShapeInv' /\ Persist /\ UNCHANGED <<users, ops, meta, mails, cache, pc, req, loc, tx>>
<1>1. UNCHANGED <<users, ops, meta, mails, cache, left, pc, req, loc, conn, tx>>
      /\ expired' \subseteq Uuids
  BY DEF ShapeInv, TypeOK, Expire, vars, tables, outside
<1>2. TypeOK'
  BY <1>1 DEF ShapeInv, TypeOK
<1>3. OpsInv' /\ Persist
  BY <1>1, SameTables DEF ShapeInv, tables
<1>4. \A d \in Clients : ClientInv(d)'
  BY <1>1, <1>3, StableClient DEF ShapeInv, SameClient
<1> QED BY <1>1, <1>2, <1>3, <1>4 DEF ShapeInv

LEMMA InitShape == ASSUME Init PROVE ShapeInv
<1> USE DEF Init
<1>1. NoLocals \in Locals /\ NoWrites \in Writes
  BY DEF NoLocals, NoWrites, Locals, Writes, Columns
<1>2. TypeOK
  BY <1>1, BoundsAssumption DEF TypeOK, PCs
<1>3. OpsInv
  BY DEF OpsInv
<1>4. ASSUME NEW c \in Clients PROVE ClientInv(c)
  BY DEF NoWrites, ClientInv, IdleInv, FlowInv, CleanInv, SignInInv, SignUpInv,
         CreateInv, ApplyInv, WritesInv, FlowPCs, Registering, Reading, Saving
<1> QED BY <1>2, <1>3, <1>4 DEF ShapeInv

LEMMA NextShape == ASSUME ShapeInv, [Next]_vars PROVE ShapeInv'
<1>1. ASSUME NEW c \in Clients, Arrive(c) \/ Step(c) \/ Fail(c) PROVE ShapeInv'
  BY <1>1, StepMoves, MovedShape
<1> QED BY <1>1, ExpireShape DEF Next

\* Every reachable state has its tables and every client's variables in shape, for
\* any set of operation types: transactions write rows of their own user and type
\* only, stored operations belong to committed users (processors, auth service).
THEOREM ShapeCorrect == Spec => []ShapeInv
<1>1. Init => ShapeInv
  BY InitShape
<1>2. ShapeInv /\ [Next]_vars => ShapeInv'
  BY NextShape
<1> QED BY <1>1, <1>2, PTL DEF Spec

\* Every variable stays in its type, for every value of the constants.
THEOREM TypeCorrect == Spec => []TypeOK
<1>1. ShapeInv => TypeOK
  BY DEF ShapeInv
<1> QED BY <1>1, ShapeCorrect, PTL

-----------------------------------------------------------------------------
(* A registration in progress has its user to itself. *)

\* No step but an InsertUser makes a client one that has just registered a user.
StaysFresh(c) ==
  pc'[c] \in Registering /\ req'[c].flow = "signUp" =>
    /\ pc[c] \in Registering /\ req[c].flow = "signUp"
    /\ loc'[c].user = loc[c].user

LEMMA SameFresh ==
  ASSUME NEW c \in Clients, FreshInv, users' = users, StaysFresh(c),
         \A d \in Clients \ {c} : SameClient(d)
  PROVE  FreshInv'
<1> SUFFICES ASSUME NEW a \in Clients, (pc[a] \in Registering /\ req[a].flow = "signUp")'
             PROVE  /\ users'[loc'[a].user] = None
                    /\ \A d \in Clients \ {a} : (pc[d] \in Registering /\ req[d].flow = "signUp")'
                         => loc'[d].user # loc'[a].user
  BY DEF FreshInv
<1>1. \A d \in Clients : (pc[d] \in Registering /\ req[d].flow = "signUp")' =>
        /\ pc[d] \in Registering /\ req[d].flow = "signUp"
        /\ loc'[d].user = loc[d].user
  BY DEF SameClient, StaysFresh
<1> QED BY <1>1 DEF FreshInv

LEMMA StepStaysFresh ==
  ASSUME NEW c \in Clients, ShapeInv, Arrive(c) \/ Step(c) \/ Fail(c), ~InsertUser(c)
  PROVE  StaysFresh(c)
<1> USE DEF ShapeInv, TypeOK, StaysFresh, Registering, Goto
<1>1. CASE End(c)
  BY <1>1 DEF End
<1>2. CASE Arrive(c)
  BY <1>2 DEF Arrive
<1>3. CASE Begin(c)
  BY <1>3, RequestFacts DEF Begin, ClientInv, FlowInv
<1>4. CASE LookupUser(c)
  BY <1>1, <1>4 DEF LookupUser
<1>5. CASE FindOp(c)
  BY <1>5, RequestFacts DEF FindOp, ClientInv, FlowInv, FlowPCs
<1>6. CASE CloseFind(c) \/ CloseRemove(c) \/ InsertOp(c)
  BY <1>6 DEF CloseFind, CloseRemove, InsertOp, Locals
<1>7. CASE CheckEmail(c)
  BY <1>1, <1>7, RequestFacts DEF CheckEmail, ClientInv, FlowInv, FlowPCs
<1>8. CASE UpdateRead(c) \/ SaveLoad(c) \/ SaveWrite(c) \/ DropSessions(c)
  BY <1>1, <1>8, RequestFacts DEF UpdateRead, SaveLoad, SaveWrite, DropSessions,
       AfterSave, ClientInv, FlowInv, FlowPCs
<1>9. CASE Commit(c)
  BY <1>1, <1>9 DEF Commit
<1> QED BY <1>1, <1>2, <1>3, <1>4, <1>5, <1>6, <1>7, <1>8, <1>9
     DEF Step, Notify, OpenSession, Fail

LEMMA InsertUserFresh ==
  ASSUME NEW c \in Clients, ShapeInv, FreshInv, InsertUser(c)
  PROVE  FreshInv'
<1>1. CASE End(c)
  <2>1. StaysFresh(c)
    BY <1>1 DEF End, StaysFresh, Registering, ShapeInv, TypeOK
  <2> QED BY <2>1, InsertUserMoves, SameFresh DEF InsertUser, Moved, tables
<1>2. ASSUME NEW u \in FreshUsers, NEW row,
             loc' = [loc EXCEPT ![c] = [@ EXCEPT !.user = u, !.entity = row]],
             Goto(c, "closeFind"), UNCHANGED <<req, conn>>
      PROVE  FreshInv'
  <2>1. pc'[c] = "closeFind" /\ loc'[c].user = u
    BY <1>2 DEF Goto, ShapeInv, TypeOK, Locals
  <2>2. users[u] = None /\ users' = users
    BY DEF InsertUser, FreshUsers, tables
  <2>3. \A d \in Clients \ {c} : SameClient(d)
    BY InsertUserMoves DEF Moved
  <2>4. ASSUME NEW d \in Clients \ {c}, pc[d] \in Registering, req[d].flow = "signUp"
        PROVE  loc[d].user # u
    <3>1. pc[d] # "idle" /\ tx[d].upd # {}
      BY <2>4 DEF ShapeInv, ClientInv, SignUpInv, Inserted, Columns, Registering
    <3> QED BY <3>1, <2>4 DEF FreshUsers
  <2> QED BY <2>1, <2>2, <2>3, <2>4 DEF FreshInv, SameClient
<1> QED BY <1>1, <1>2 DEF InsertUser

\* The row a commit writes: a user of its own that no one knew, or a known one.
LEMMA CommitRow ==
  ASSUME NEW c \in Clients, ShapeInv, FreshInv, Commit(c)
  PROVE  /\ pc[c] = "commit" /\ req[c] \in Requests
         /\ req[c].flow \in {"signUp", "create", "apply"}
         /\ users' = IF tx[c].upd = {} THEN users
                     ELSE [users EXCEPT ![loc[c].user] = Patch(@, loc[c].entity, tx[c].upd)]
         /\ \A u \in Users \ {loc[c].user} : users'[u] = users[u]
         /\ req[c].flow = "signUp" => /\ loc[c].user \in Users
                                      /\ users[loc[c].user] = None
                                      /\ tx[c].upd = Columns
         /\ req[c].flow = "create" => users' = users /\ tx[c].upd = {}
         /\ req[c].flow = "apply" => Applying(c) \/ tx[c] = NoWrites
<1> USE DEF ShapeInv
<1>1. /\ pc[c] = "commit" /\ req[c] \in Requests
      /\ req[c].flow \in {"signUp", "create", "apply"}
  BY RequestFacts DEF Commit, ClientInv, FlowInv, FlowPCs
<1>2. users' = IF tx[c].upd = {} THEN users
               ELSE [users EXCEPT ![loc[c].user] = Patch(@, loc[c].entity, tx[c].upd)]
  BY DEF Commit
<1>3. \A u \in Users \ {loc[c].user} : users'[u] = users[u]
  BY <1>2 DEF TypeOK
<1>4. CASE req[c].flow = "signUp"
  BY <1>1, <1>2, <1>3, <1>4 DEF FreshInv, ClientInv, SignUpInv, Inserted, Registering
<1>5. CASE req[c].flow = "create"
  BY <1>1, <1>2, <1>3, <1>5 DEF ClientInv, CreateInv
<1>6. CASE req[c].flow = "apply"
  BY <1>1, <1>2, <1>3, <1>6 DEF ClientInv, ApplyInv
<1> QED BY <1>1, <1>4, <1>5, <1>6

LEMMA CommitFresh ==
  ASSUME NEW c \in Clients, ShapeInv, FreshInv, Commit(c)
  PROVE  FreshInv'
<1>1. ASSUME NEW d \in Clients \ {c}, pc[d] \in Registering, req[d].flow = "signUp"
      PROVE  users'[loc[d].user] = None
  <2>1. users[loc[d].user] = None /\ loc[d].user \in Users
    BY <1>1 DEF FreshInv, ShapeInv, ClientInv, SignUpInv, Inserted, Registering
  <2>2. CASE req[c].flow = "signUp"
    BY <1>1, <2>1, <2>2, CommitRow DEF FreshInv, Registering
  <2>3. CASE req[c].flow # "signUp"
    BY <2>1, <2>3, CommitRow DEF Applying, Known, NoWrites
  <2> QED BY <2>2, <2>3
<1>2. pc'[c] \notin Registering
  BY DEF Commit, End, Goto, ShapeInv, TypeOK, Registering
<1> QED BY <1>1, <1>2, CommitMoves DEF FreshInv, Moved, SameClient

LEMMA StepFresh ==
  ASSUME NEW c \in Clients, ShapeInv, FreshInv, Arrive(c) \/ Step(c) \/ Fail(c)
  PROVE  FreshInv'
<1>1. CASE InsertUser(c)
  BY <1>1, InsertUserFresh
<1>2. CASE Commit(c)
  BY <1>2, CommitFresh
<1>3. CASE ~InsertUser(c) /\ ~Commit(c)
  <2>1. users' = users
    BY <1>3 DEF Step, Arrive, LookupUser, Begin, FindOp, CloseFind, CloseRemove,
       InsertOp, CheckEmail, UpdateRead, SaveLoad, SaveWrite, DropSessions, Notify,
       OpenSession, Fail, tables
  <2> QED BY <1>3, <2>1, StepStaysFresh, StepMoves, SameFresh DEF Moved
<1> QED BY <1>1, <1>2, <1>3

-----------------------------------------------------------------------------
(* The routed system: sign-up and password recovery only. *)

\* Verified users stay verified; mails are not unsent.
Grows ==
  /\ \A u \in Users : users[u] # None /\ users[u].verified
       => users'[u] # None /\ users'[u].verified
  /\ mails \subseteq mails'

LEMMA StableVerified ==
  ASSUME NEW d \in Clients, VerifiedInv(d), Persist, Grows, SameClient(d)
  PROVE  VerifiedInv(d)'
<1> USE DEF Persist, Grows, SameClient
<1>1. Verified(d) => Verified(d)'
  BY DEF Verified, Known
<1> QED BY <1>1 DEF VerifiedInv

\* The part of RoutedInv about the tables.
TablesInv == RecoveryInv /\ NoStrandedUser /\ SessionsAreVerified

\* Tables that do not change keep it.
LEMMA SameTablesRouted ==
  ASSUME TablesInv, UNCHANGED <<tables, mails>>, cache' \subseteq cache
  PROVE  TablesInv' /\ Grows
BY DEF TablesInv, RecoveryInv, NoStrandedUser, SessionsAreVerified, OpenOps, Grows, tables

\* What a step of client c must re-establish.
RoutedMoved(c) == VerifiedInv(c)' /\ Grows /\ TablesInv'

LEMMA MovedRouted ==
  ASSUME NEW c \in Clients, RoutedInv, Moved(c), FreshInv', RoutedMoved(c)
  PROVE  RoutedInv'
<1>1. ASSUME NEW d \in Clients PROVE VerifiedInv(d)'
  <2>1. CASE d = c BY <2>1 DEF RoutedMoved
  <2>2. CASE d # c
    BY <2>2, StableVerified DEF RoutedMoved, Moved, RoutedInv
  <2> QED BY <2>1, <2>2
<1>2. ShapeInv'
  BY MovedShape DEF RoutedInv
<1> QED BY <1>1, <1>2 DEF RoutedMoved, RoutedInv, TablesInv

\* A step that changes neither the tables nor the sessions.
LEMMA QuietRouted ==
  ASSUME NEW c \in Clients, RoutedInv, Moved(c), UNCHANGED <<tables, mails>>,
         cache' \subseteq cache, VerifiedInv(c)'
  PROVE  RoutedMoved(c)
BY SameTablesRouted DEF RoutedMoved, RoutedInv, TablesInv

LEMMA EndQuiet ==
  ASSUME NEW c \in Clients, ShapeInv, End(c)
  PROVE  VerifiedInv(c)'
BY DEF End, VerifiedInv, ShapeInv, TypeOK

LEMMA QuietMoves ==
  ASSUME NEW c \in Clients, RoutedInv, Arrive(c) \/ Begin(c) \/ Fail(c)
  PROVE  RoutedMoved(c)
<1> USE DEF RoutedInv, outside, env
<1>1. CASE Arrive(c)
  <2>1. PICK r \in Requests :
          /\ r.flow = "apply" => r.token \in mails
          /\ req' = [req EXCEPT ![c] = r]
          /\ Goto(c, IF r.flow = "apply" THEN "begin" ELSE "lookup")
    BY <1>1 DEF Arrive
  <2>2. loc'[c] = NoLocals /\ tx'[c] = NoWrites /\ mails' = mails
    BY <1>1 DEF Arrive, ShapeInv, ClientInv, IdleInv
  <2>3. VerifiedInv(c)'
    BY <2>1, <2>2 DEF VerifiedInv, Goto, ShapeInv, TypeOK, NoLocals, NoWrites,
                      Saving, Registering
  <2> QED BY <1>1, <2>3, ArriveMoves, QuietRouted DEF Arrive
<1>2. CASE Begin(c)
  <2>1. VerifiedInv(c)'
    BY <1>2, RequestFacts DEF Begin, VerifiedInv, Verified, Known, Goto, ShapeInv, TypeOK,
                Saving, tables, ClientInv, FlowInv, CleanInv, NoLocals, NoWrites
  <2> QED BY <1>2, <2>1, BeginMoves, QuietRouted DEF Begin
<1>3. CASE Fail(c)
  BY <1>3, EndQuiet, FailMoves, QuietRouted DEF Fail
<1> QED BY <1>1, <1>2, <1>3

LEMMA LookupUserRouted ==
  ASSUME NEW c \in Clients, RoutedInv, LookupUser(c), Types = RoutedTypes
  PROVE  RoutedMoved(c)
<1> USE DEF RoutedInv, outside, env
<1>0. /\ pc[c] = "lookup" /\ req[c] \in Requests /\ req[c].flow # "apply"
      /\ tx[c] = NoWrites /\ loc[c] = NoLocals /\ UNCHANGED <<tables, mails, cache>>
  BY RequestFacts DEF LookupUser, ShapeInv, ClientInv, FlowInv, FlowPCs, CleanInv
<1>1. VerifiedInv(c)'
  <2>1. CASE End(c)
    BY <2>1, EndQuiet
  <2>2. CASE req[c].flow = "signUp" /\ Goto(c, "begin") /\ UNCHANGED <<req, loc, conn, tx>>
    BY <1>0, <2>2 DEF VerifiedInv, Goto, ShapeInv, TypeOK, Registering, NoLocals
  <2>3. ASSUME NEW u \in Found(Lookup(req[c])),
               \/ /\ req[c].flow = "create" /\ MayCreate(req[c].type, users[u])
                  /\ Goto(c, IF req[c].type = "ec" THEN "checkEmail" ELSE "begin")
               \/ /\ req[c].flow = "signIn" /\ MaySignIn(req[c], users[u])
                  /\ Goto(c, "openSession"),
               loc' = [loc EXCEPT ![c].user = u], UNCHANGED <<req, conn, tx>>
        PROVE  VerifiedInv(c)'
    <3>1. u \in Users /\ users[u] # None
      BY DEF Found
    <3>2. loc'[c].user = u
      BY <2>3 DEF ShapeInv, TypeOK, Locals
    <3>3. pc'[c] # "commit" /\ pc'[c] \notin Registering
      BY <2>3 DEF Goto, ShapeInv, TypeOK, Registering
    <3>4. pc'[c] = "openSession" \/ req[c].type = "pr" => users[u].verified
      BY <2>3, <1>0, RequestFacts DEF MayCreate, MaySignIn, Goto, ShapeInv, TypeOK
    <3> QED BY <1>0, <2>3, <3>1, <3>2, <3>3, <3>4
         DEF VerifiedInv, Verified, Known, tables
  <2> QED BY <2>1, <2>2, <2>3 DEF LookupUser
<1> QED BY <1>0, <1>1, LookupUserMoves, QuietRouted

LEMMA InsertUserRouted ==
  ASSUME NEW c \in Clients, RoutedInv, InsertUser(c)
  PROVE  RoutedMoved(c)
<1> USE DEF RoutedInv, outside, env
<1>0. /\ pc[c] = "insertUser" /\ req[c] \in Requests /\ req[c].flow = "signUp"
      /\ req[c].type = "su" /\ UNCHANGED <<tables, mails, cache>>
  BY RequestFacts DEF InsertUser, ShapeInv, ClientInv, FlowInv, FlowPCs
<1>1. CASE End(c)
  BY <1>0, <1>1, EndQuiet, InsertUserMoves, QuietRouted
<1>2. ASSUME NEW u \in FreshUsers, NEW row,
             loc' = [loc EXCEPT ![c] = [@ EXCEPT !.user = u, !.entity = row]],
             Goto(c, "closeFind"), UNCHANGED <<req, conn>>
      PROVE  RoutedMoved(c)
  <2>1. pc'[c] = "closeFind" /\ loc'[c].user = u
    BY <1>2 DEF Goto, ShapeInv, TypeOK, Locals
  <2>2. VerifiedInv(c)'
    BY <1>0, <1>2, <2>1 DEF VerifiedInv
  <2> QED BY <1>0, <2>2, InsertUserMoves, QuietRouted
<1> QED BY <1>1, <1>2 DEF InsertUser

LEMMA FindOpRouted ==
  ASSUME NEW c \in Clients, RoutedInv, FindOp(c)
  PROVE  RoutedMoved(c)
<1> USE DEF RoutedInv, outside, env, Goto
<1> DEFINE t == req[c].token
<1>0. /\ pc[c] = "findOp" /\ req[c] \in Requests /\ req[c].flow = "apply"
      /\ tx[c] = NoWrites /\ loc[c] = NoLocals
      /\ UNCHANGED <<tables, mails, cache, req, tx>>
  BY RequestFacts DEF FindOp, ShapeInv, ClientInv, FlowInv, FlowPCs, CleanInv
<1>1. t \in mails
  BY <1>0 DEF VerifiedInv
<1>2. VerifiedInv(c)'
  <2>1. CASE /\ Usable(t, req[c].type)
             /\ loc' = [loc EXCEPT ![c] = [@ EXCEPT !.op = t, !.user = meta[t].user]]
             /\ pc' = [pc EXCEPT ![c] = "closeFind"]
    <3>1. /\ pc'[c] = "closeFind" /\ loc'[c].user = meta[t].user
          /\ loc'[c].dirty = {} /\ tx'[c].upd = {}
      BY <1>0, <2>1 DEF ShapeInv, TypeOK, Locals, NoLocals, NoWrites
    <3>2. /\ meta[t].type = req[c].type /\ meta[t].user \in Users
          /\ users[meta[t].user] # None
          /\ meta[t].type = "pr" => users[meta[t].user].verified
      BY <2>1 DEF Usable, ShapeInv, OpsInv, RecoveryInv, TypeOK, OpRow
    <3> QED BY <1>0, <1>1, <3>1, <3>2 DEF VerifiedInv, Verified, Known, tables, Saving
  <2>2. CASE pc' = [pc EXCEPT ![c] = "commit"] /\ UNCHANGED loc
    BY <1>0, <1>1, <2>2
       DEF VerifiedInv, ShapeInv, TypeOK, NoLocals, NoWrites, Saving
  <2> QED BY <2>1, <2>2 DEF FindOp
<1> QED BY <1>0, <1>2, FindOpMoves, QuietRouted

\* Steps of _close and _checkoutEmail: nothing VerifiedInv speaks about changes.
LEMMA ClosingRouted ==
  ASSUME NEW c \in Clients, RoutedInv, CloseFind(c) \/ CloseRemove(c) \/ CheckEmail(c)
  PROVE  RoutedMoved(c)
<1> USE DEF RoutedInv, outside, env, Goto
<1>0. UNCHANGED <<tables, mails, cache>> /\ pc[c] \in {"closeFind", "closeRemove", "checkEmail"}
  BY DEF CloseFind, CloseRemove, CheckEmail
<1>1. CASE End(c)
  BY <1>0, <1>1, EndQuiet, CloseFindMoves, CloseRemoveMoves, CheckEmailMoves, QuietRouted
<1>2. CASE ~End(c)
  <2>1. /\ req' = req /\ loc'[c].user = loc[c].user /\ loc'[c].entity = loc[c].entity
        /\ loc'[c].dirty = loc[c].dirty /\ tx'[c].upd = tx[c].upd
    BY <1>2 DEF CloseFind, CloseRemove, CheckEmail, ShapeInv, TypeOK, Locals, Writes
  <2>2. pc'[c] \in {"closeRemove", "insertOp", "checkEmail", "updateRead", "begin"}
    BY <1>2, AfterCloseFacts DEF CloseFind, CloseRemove, CheckEmail, ShapeInv, TypeOK
  <2>3. VerifiedInv(c)'
    BY <1>0, <2>1, <2>2 DEF VerifiedInv, Verified, Known, Saving, tables
  <2> QED BY <1>0, <2>3, CloseFindMoves, CloseRemoveMoves, CheckEmailMoves, QuietRouted
<1> QED BY <1>1, <1>2

LEMMA InsertOpRouted ==
  ASSUME NEW c \in Clients, RoutedInv, InsertOp(c)
  PROVE  RoutedMoved(c)
<1> USE DEF RoutedInv, outside, env, Goto
<1>1. PICK t \in FreshUuids :
        /\ meta' = [meta EXCEPT ![t] = [user |-> loc[c].user, type |-> req[c].type,
                                        data |-> req[c].data]]
        /\ tx' = [tx EXCEPT ![c].ins = {t}]
        /\ loc' = [loc EXCEPT ![c].op = t]
  BY DEF InsertOp
<1>2. /\ pc[c] = "insertOp" /\ req[c] \in Requests /\ req[c].flow \in {"signUp", "create"}
      /\ UNCHANGED <<users, ops, mails, cache, req>>
  BY RequestFacts DEF InsertOp, ShapeInv, ClientInv, FlowInv, FlowPCs
<1>3. /\ loc'[c].user = loc[c].user /\ tx'[c].upd = tx[c].upd /\ pc'[c] = "commit"
  BY <1>1 DEF InsertOp, ShapeInv, TypeOK, Locals, Writes
<1>4. VerifiedInv(c)'
  BY <1>2, <1>3 DEF VerifiedInv, Verified, Known, Registering
<1>5. \A s \in ops \cup mails : meta'[s] = meta[s]
  BY InsertOpMoves DEF Moved, Persist, ShapeInv, OpsInv, TypeOK
<1>6. TablesInv' /\ Grows
  BY <1>2, <1>5 DEF TablesInv, RecoveryInv, NoStrandedUser, SessionsAreVerified, OpenOps,
                    Grows
<1> QED BY <1>4, <1>6 DEF RoutedMoved

LEMMA SavingRouted ==
  ASSUME NEW c \in Clients, RoutedInv, Types = RoutedTypes,
         UpdateRead(c) \/ SaveLoad(c) \/ SaveWrite(c) \/ DropSessions(c)
  PROVE  RoutedMoved(c)
<1> USE DEF RoutedInv, outside, env, Goto
<1>0. UNCHANGED <<tables, mails>> /\ cache' \subseteq cache
  BY DEF UpdateRead, SaveLoad, SaveWrite, DropSessions
<1>1. /\ req[c] \in Requests /\ req[c].flow = "apply" /\ Applying(c)
      /\ req[c].type \in {"su", "pr"}
  BY RequestFacts DEF UpdateRead, SaveLoad, SaveWrite, DropSessions, ShapeInv, ClientInv,
       FlowInv, FlowPCs, ApplyInv, Reading, Saving, RoutedTypes
<1>2. req[c].type = "pr" => Verified(c)
  BY <1>1, NoneAssumption
     DEF UpdateRead, SaveLoad, SaveWrite, DropSessions, VerifiedInv, Applying, Known
<1>3. VerifiedInv(c)'
  <2>1. CASE UpdateRead(c)
    <3> DEFINE entity == Assigned(users[loc[c].user], req[c], meta[loc[c].op])
    <3>1. entity.verified /\ (entity.password # None => req[c].type = "pr")
      BY <1>1, <1>2 DEF Assigned, Verified
    <3> HIDE DEF entity
    <3>2. loc' = [loc EXCEPT ![c].entity = entity] /\ pc[c] = "updateRead"
      BY <2>1 DEF UpdateRead, entity
    <3>3. /\ loc'[c].entity = entity /\ loc'[c].user = loc[c].user
          /\ loc'[c].dirty = loc[c].dirty /\ pc'[c] = "saveLoad" /\ tx' = tx /\ req' = req
      BY <2>1, <3>2 DEF UpdateRead, ShapeInv, TypeOK, Locals
    <3> QED BY <1>0, <1>1, <1>2, <3>1, <3>2, <3>3
         DEF VerifiedInv, Verified, Known, tables
  <2>2. CASE SaveLoad(c)
    <3> DEFINE dirty == Dirty(loc[c].entity, users[loc[c].user])
    <3>0. pc[c] = "saveLoad"
      BY <2>2 DEF SaveLoad
    <3>1. loc[c].entity.verified /\ (loc[c].entity.password # None => req[c].type = "pr")
      BY <1>1, <3>0 DEF VerifiedInv, Saving
    <3>2. /\ "password" \in dirty => req[c].type = "pr"
          /\ "verified" \in dirty \/ Verified(c)
      BY <1>1, <3>1 DEF Dirty, Verified, Applying
    <3>3. dirty = {} => Verified(c)
      BY <3>2
    <3> HIDE DEF dirty
    <3>4. /\ loc' = [loc EXCEPT ![c].dirty = dirty]
          /\ pc'[c] = IF dirty = {} THEN AfterSave(c) ELSE "saveWrite"
      BY <2>2 DEF SaveLoad, dirty, ShapeInv, TypeOK
    <3>5. /\ loc'[c].entity = loc[c].entity /\ loc'[c].user = loc[c].user
          /\ loc'[c].dirty = dirty /\ tx' = tx /\ req' = req
      BY <2>2, <3>4 DEF SaveLoad, ShapeInv, TypeOK, Locals
    <3> QED BY <1>0, <1>1, <1>2, <3>0, <3>1, <3>2, <3>3, <3>4, <3>5
         DEF VerifiedInv, Verified, Known, tables, AfterSave, Saving
  <2>3. CASE SaveWrite(c)
    <3>1. CASE End(c)
      BY <3>1, EndQuiet
    <3>2. CASE /\ tx' = [tx EXCEPT ![c].upd = loc[c].dirty]
               /\ Goto(c, AfterSave(c)) /\ UNCHANGED <<req, loc, conn>>
      <4>1. /\ tx'[c].upd = loc[c].dirty /\ pc'[c] = AfterSave(c)
            /\ pc[c] = "saveWrite"
        BY <2>3, <3>2 DEF SaveWrite, ShapeInv, TypeOK, Writes
      <4> QED BY <1>0, <1>1, <1>2, <3>2, <4>1
           DEF VerifiedInv, Verified, Known, tables, AfterSave, Saving
    <3> QED BY <2>3, <3>1, <3>2 DEF SaveWrite
  <2>4. CASE DropSessions(c)
    <3>1. pc'[c] = "commit" /\ pc[c] = "dropSessions" /\ UNCHANGED <<req, loc, tx>>
      BY <2>4 DEF DropSessions, ShapeInv, TypeOK
    <3> QED BY <1>0, <1>1, <1>2, <3>1
         DEF VerifiedInv, Verified, Known, tables, Saving
  <2> QED BY <2>1, <2>2, <2>3, <2>4
<1> QED BY <1>0, <1>3, UpdateReadMoves, SaveLoadMoves, SaveWriteMoves, DropSessionsMoves,
           QuietRouted

LEMMA AnswerRouted ==
  ASSUME NEW c \in Clients, RoutedInv, Notify(c) \/ OpenSession(c)
  PROVE  RoutedMoved(c)
<1> USE DEF RoutedInv, env
<1>1. VerifiedInv(c)' /\ UNCHANGED tables
  BY EndQuiet DEF Notify, OpenSession
<1>2. CASE Notify(c)
  <2>1. Own(c, loc[c].op) /\ Known(c)
    BY <1>2, RequestFacts DEF Notify, Mailed, ShapeInv, ClientInv, WritesInv, FlowInv, FlowPCs,
                SignUpInv, CreateInv
  <2>2. req[c].type = "pr" => Verified(c)
    BY <1>2, <2>1, NoneAssumption DEF Notify, VerifiedInv, Known
  <2>3. mails \subseteq mails' /\ mails' \subseteq mails \cup {loc[c].op} /\ cache' = cache
    BY <1>2 DEF Notify, Mailed
  <2>4. TablesInv' /\ Grows
    BY <1>1, <2>1, <2>2, <2>3 DEF TablesInv, RecoveryInv, NoStrandedUser,
         SessionsAreVerified, OpenOps, Grows, tables, Own, Verified
  <2> QED BY <1>1, <2>4 DEF RoutedMoved
<1>3. CASE OpenSession(c)
  <2>1. Verified(c) /\ mails' = mails
    BY <1>3 DEF OpenSession, VerifiedInv
  <2>2. \A k \in cache' : k \in cache \/ k[1] = loc[c].user
    BY <1>3 DEF OpenSession
  <2>3. TablesInv' /\ Grows
    BY <1>1, <2>1, <2>2 DEF TablesInv, RecoveryInv, NoStrandedUser,
         SessionsAreVerified, OpenOps, Grows, tables, Verified, Known
  <2> QED BY <1>1, <2>3 DEF RoutedMoved
<1> QED BY <1>2, <1>3

\* What a commit does to the users table in the routed system.
LEMMA CommitUsers ==
  ASSUME NEW c \in Clients, RoutedInv, Commit(c), Types = RoutedTypes
  PROVE  /\ req[c] \in Requests /\ req[c].flow \in {"signUp", "create", "apply"}
         /\ req[c].type \in {"su", "pr"}
         /\ \A u \in Users \ {loc[c].user} : users'[u] = users[u]
         /\ req[c].flow = "signUp" => /\ loc[c].user \in Users
                                      /\ users[loc[c].user] = None
         /\ req[c].flow = "create" => users' = users
         /\ req[c].flow = "apply" =>
              \/ Applying(c) /\ users'[loc[c].user].verified
              \/ tx[c] = NoWrites /\ users' = users
<1> USE DEF RoutedInv, ShapeInv
<1>1. pc[c] = "commit" /\ req[c].type \in {"su", "pr"}
  BY CommitRow, RequestFacts DEF RoutedTypes
<1>2. CASE req[c].flow = "apply" /\ Applying(c)
  <2>1. loc[c].op # None /\ loc[c].user # None /\ loc[c].user \in Users
    BY <1>2, NoneAssumption DEF Applying, Known, Own
  <2>2. tx[c].upd # {} => loc[c].entity.verified
    BY <1>1, <1>2 DEF VerifiedInv
  <2>3. Verified(c) \/ "verified" \in tx[c].upd
    BY <1>1, <1>2, <2>1 DEF VerifiedInv
  <2>4. users' = IF tx[c].upd = {} THEN users
                 ELSE [users EXCEPT ![loc[c].user] = Patch(@, loc[c].entity, tx[c].upd)]
    BY CommitRow
  <2>5. users'[loc[c].user].verified
    BY <2>1, <2>2, <2>3, <2>4 DEF TypeOK, Patch, Verified
  <2> QED BY <1>1, <1>2, <2>5, CommitRow
<1> QED BY <1>1, <1>2, CommitRow DEF NoWrites

LEMMA CommitRouted ==
  ASSUME NEW c \in Clients, RoutedInv, Commit(c), Types = RoutedTypes
  PROVE  RoutedMoved(c)
<1> USE DEF RoutedInv
<1>0. Moved(c)
  BY CommitMoves
<1>1. /\ pc[c] = "commit" /\ ops' = (ops \ tx[c].del) \cup tx[c].ins
      /\ UNCHANGED <<meta, mails, cache>>
  BY DEF Commit, outside
<1>2. \A u \in Users : users[u] # None /\ users[u].verified
        => users'[u] # None /\ users'[u].verified
  BY <1>0, CommitUsers DEF Moved, Persist, Applying, Known
<1>3. VerifiedInv(c)'
  <2>1. CASE End(c)
    BY <2>1, EndQuiet
  <2>2. CASE req[c].flow # "apply" /\ Goto(c, "notify") /\ UNCHANGED <<req, loc>>
    <3>1. pc'[c] = "notify"
      BY <2>2 DEF Goto, ShapeInv, TypeOK
    <3>2. req[c].type = "pr" /\ loc[c].user # None => Verified(c)'
      BY <1>1, <1>2, <2>2 DEF VerifiedInv, Verified, Known
    <3> QED BY <2>2, <3>1, <3>2 DEF VerifiedInv
  <2> QED BY <2>1, <2>2 DEF Commit
<1>4. RecoveryInv'
  <2>1. ASSUME NEW t \in ops \cup mails, meta[t].type = "pr"
        PROVE  users'[meta[t].user].verified
    BY <1>2, <2>1 DEF RecoveryInv, ShapeInv, OpsInv, TypeOK, OpRow
  <2>2. ASSUME NEW t \in tx[c].ins, meta[t].type = "pr"
        PROVE  users'[meta[t].user].verified
    <3>1. Own(c, t) /\ loc[c].user # None /\ meta[t].user = loc[c].user
      BY <2>2, NoneAssumption DEF ShapeInv, ClientInv, WritesInv, Own, TypeOK, OpRow
    <3>2. Verified(c)
      BY <1>1, <2>2, <3>1 DEF VerifiedInv, Own
    <3> QED BY <1>2, <3>1, <3>2 DEF Verified, Known
  <2> QED BY <1>1, <2>1, <2>2 DEF RecoveryInv
<1>5. NoStrandedUser'
  <2> SUFFICES ASSUME NEW u \in Users, users'[u] # None, ~users'[u].verified
               PROVE  \E t \in ops' : meta[t].user = u /\ meta[t].type = "su"
    BY <1>1 DEF NoStrandedUser, OpenOps
  <2>1. \A t \in tx[c].del \cup tx[c].ins : Own(c, t)
    BY DEF ShapeInv, ClientInv, WritesInv
  <2>2. CASE u # loc[c].user \/ req[c].type # "su"
    <3>1. users[u] # None /\ ~users[u].verified
      <4>1. CASE u # loc[c].user
        BY <4>1, CommitUsers
      <4>2. CASE req[c].type = "pr"
        BY <4>2, CommitUsers, RequestFacts, <1>2 DEF Applying, Known
      <4> QED BY <2>2, <4>1, <4>2, CommitUsers
    <3>2. PICK t \in ops : meta[t].user = u /\ meta[t].type = "su"
      BY <3>1 DEF NoStrandedUser, OpenOps
    <3>3. t \notin tx[c].del
      BY <2>1, <2>2, <3>2 DEF Own
    <3> QED BY <1>1, <3>2, <3>3
  <2>3. CASE u = loc[c].user /\ req[c].type = "su" /\ req[c].flow # "apply"
    <3>1. tx[c].ins = {loc[c].op} /\ Own(c, loc[c].op)
      BY <1>1, <2>1, <2>3 DEF ShapeInv, ClientInv, WritesInv
    <3> QED BY <1>1, <2>3, <3>1 DEF Own
  <2>4. CASE u = loc[c].user /\ req[c].flow = "apply"
    <3>1. tx[c] = NoWrites /\ users' = users
      BY <2>4, CommitUsers
    <3> QED BY <1>1, <3>1 DEF NoStrandedUser, OpenOps, NoWrites
  <2> QED BY <2>2, <2>3, <2>4
<1>6. SessionsAreVerified'
  BY <1>1, <1>2 DEF SessionsAreVerified, ShapeInv, TypeOK
<1> QED BY <1>1, <1>2, <1>3, <1>4, <1>5, <1>6 DEF RoutedMoved, TablesInv, Grows

LEMMA StepRouted ==
  ASSUME NEW c \in Clients, RoutedInv, Types = RoutedTypes,
         Arrive(c) \/ Step(c) \/ Fail(c)
  PROVE  RoutedMoved(c)
BY QuietMoves, LookupUserRouted, InsertUserRouted, FindOpRouted, ClosingRouted,
   InsertOpRouted, SavingRouted, CommitRouted, AnswerRouted DEF Step

LEMMA ExpireRouted ==
  ASSUME RoutedInv, (\E t \in Uuids : Expire(t)) \/ UNCHANGED vars
  PROVE  RoutedInv'
<1>1. ShapeInv' /\ Persist
      /\ UNCHANGED <<users, ops, meta, mails, cache, pc, req, loc, tx>>
  BY ExpireShape DEF RoutedInv
<1>2. TablesInv' /\ Grows
  BY <1>1, SameTablesRouted DEF RoutedInv, TablesInv, tables
<1>3. \A d \in Clients : VerifiedInv(d)'
  BY <1>1, <1>2, StableVerified DEF RoutedInv, SameClient
<1>4. FreshInv'
  BY <1>1 DEF RoutedInv, FreshInv
<1> QED BY <1>1, <1>2, <1>3, <1>4 DEF RoutedInv, TablesInv

LEMMA NextRouted ==
  ASSUME RoutedInv, [Next]_vars, Types = RoutedTypes
  PROVE  RoutedInv'
<1>1. ASSUME NEW c \in Clients, Arrive(c) \/ Step(c) \/ Fail(c) PROVE RoutedInv'
  BY <1>1, StepMoves, StepFresh, StepRouted, MovedRouted DEF RoutedInv
<1> QED BY <1>1, ExpireRouted DEF Next

LEMMA InitRouted == ASSUME Init PROVE RoutedInv
<1>1. FreshInv /\ RecoveryInv /\ NoStrandedUser /\ SessionsAreVerified
  BY DEF Init, FreshInv, RecoveryInv, NoStrandedUser, SessionsAreVerified, Registering
<1>2. \A c \in Clients : VerifiedInv(c)
  BY DEF Init, VerifiedInv, Saving, NoLocals, NoWrites
<1> QED BY <1>1, <1>2, InitShape DEF RoutedInv

\* What the routed system relies on, at every step of every request: registrations are
\* private, recoveries are for verified users only, a stale entity never takes a
\* verification back, nobody is stranded (processors, auth service).
THEOREM RoutedInvariant == ASSUME Types = RoutedTypes PROVE Spec => []RoutedInv
<1>1. Init => RoutedInv
  BY InitRouted
<1>2. RoutedInv /\ [Next]_vars => RoutedInv'
  BY NextRouted
<1> QED BY <1>1, <1>2, PTL DEF Spec

\* In the routed system no interleaving of sign-ups, resends, confirmations and
\* recoveries, and no failed statement, leaves a committed unverified account without
\* a stored sign-up operation.
THEOREM NobodyStranded == ASSUME Types = RoutedTypes PROVE Spec => []NoStrandedUser
<1>1. RoutedInv => NoStrandedUser
  BY DEF RoutedInv
<1> QED BY <1>1, RoutedInvariant, PTL

\* In the routed system every session belongs to an account verified in the database
\* (signIn reads the account, then awaits, then writes the session).
THEOREM VerifiedSessions == ASSUME Types = RoutedTypes PROVE Spec => []SessionsAreVerified
<1>1. RoutedInv => SessionsAreVerified
  BY DEF RoutedInv
<1> QED BY <1>1, RoutedInvariant, PTL

\* In the routed system mails go out for committed accounts only, recovery mails for
\* verified ones only.
THEOREM MailsForAccounts == ASSUME Types = RoutedTypes PROVE Spec => []MailsAreForAccounts
<1>1. RoutedInv => MailsAreForAccounts
  BY DEF RoutedInv, ShapeInv, OpsInv, RecoveryInv, MailsAreForAccounts
<1> QED BY <1>1, RoutedInvariant, PTL

\* In the routed system no step takes email_verified back, although update() saves an
\* entity that was read outside its transaction.
THEOREM VerificationIsForGood == ASSUME Types = RoutedTypes PROVE Spec => VerifiedForGood
<1>1. ASSUME RoutedInv, [Next]_vars
      PROVE  [\A u \in Users : users[u] # None /\ users[u].verified => users'[u].verified]_vars
  <2>1. ASSUME NEW c \in Clients, Arrive(c) \/ Step(c) \/ Fail(c) PROVE Grows
    BY <1>1, <2>1, StepRouted DEF RoutedMoved
  <2>2. CASE (\E t \in Uuids : Expire(t)) \/ UNCHANGED vars
    BY <1>1, <2>2, ExpireShape DEF RoutedInv
  <2> QED BY <1>1, <2>1, <2>2 DEF Next, Grows
<1> QED BY <1>1, RoutedInvariant, PTL DEF Spec, VerifiedForGood

\* Only a commit changes the users table.
LEMMA OnlyCommit ==
  ASSUME ShapeInv, [Next]_vars, users' # users
  PROVE  \E c \in Clients : Commit(c)
<1>1. ASSUME NEW c \in Clients, Arrive(c) \/ Step(c) \/ Fail(c), ~Commit(c)
      PROVE  users' = users
  BY <1>1 DEF Step, Arrive, LookupUser, Begin, InsertUser, FindOp, CloseFind, CloseRemove,
       InsertOp, CheckEmail, UpdateRead, SaveLoad, SaveWrite, DropSessions, Notify, Mailed,
       OpenSession, Fail, tables
<1>2. ASSUME (\E t \in Uuids : Expire(t)) \/ UNCHANGED vars
      PROVE  users' = users
  BY <1>2, ExpireShape
<1> QED BY <1>1, <1>2 DEF Next

\* What changes a committed account in the routed system.
LEMMA CommittedChange ==
  ASSUME NEW c \in Clients, RoutedInv, Commit(c), Types = RoutedTypes,
         NEW u \in Users, users[u] # None, users'[u] # users[u]
  PROVE  /\ req[c].flow = "apply" /\ req[c] \in Requests /\ Applying(c) /\ loc[c].user = u
         /\ req[c].token \in mails
         /\ users'[u].password # users[u].password =>
              req[c].type = "pr" /\ users[u].verified
<1>1. /\ req[c].flow = "apply" /\ req[c] \in Requests /\ loc[c].user = u /\ Applying(c)
  BY CommitUsers
<1>2. pc[c] = "commit" /\ users' = IF tx[c].upd = {} THEN users
        ELSE [users EXCEPT ![u] = Patch(@, loc[c].entity, tx[c].upd)]
  BY <1>1 DEF Commit
<1>3. VerifiedInv(c)
  BY DEF RoutedInv
<1>4. users'[u].password # users[u].password => "password" \in tx[c].upd
  BY <1>2 DEF Patch, RoutedInv, ShapeInv, TypeOK
<1>5. loc[c].user # None
  BY <1>1, NoneAssumption
<1> QED BY <1>1, <1>2, <1>3, <1>4, <1>5 DEF VerifiedInv, Verified

\* In the routed system the password of an account that is not verified never changes.
THEOREM UnverifiedPasswordKept ==
  ASSUME Types = RoutedTypes PROVE Spec => UnverifiedKeepsPassword
<1>1. ASSUME RoutedInv, [Next]_vars
      PROVE  [\A u \in Users : users[u] # None /\ ~users[u].verified
                => users'[u].password = users[u].password]_vars
  <2> SUFFICES ASSUME NEW u \in Users, users[u] # None, ~users[u].verified,
                      users'[u].password # users[u].password
               PROVE  FALSE
    OBVIOUS
  <2>1. PICK c \in Clients : Commit(c)
    BY <1>1, OnlyCommit DEF RoutedInv
  <2> QED BY <1>1, <2>1, CommittedChange
<1> QED BY <1>1, RoutedInvariant, PTL DEF Spec, UnverifiedKeepsPassword
=============================================================================
