-------------------------- MODULE OperationsProofs --------------------------
(***************************************************************************)
(* TLAPS proofs about Accounts with any of the four operation types, the   *)
(* email_change whose create no route reaches included: what overlapping   *)
(* transactions may write (WritersInv), and what changes when requests do  *)
(* not overlap (SequentialInv).                                            *)
(***************************************************************************)
EXTENDS AccountsProofs, FiniteSetTheorems

\* The step changes no row, and c's transaction ends or writes the row it wrote.
KeepsLocks(c) ==
  /\ users' = users
  /\ \/ tx'[c].upd = {}
     \/ /\ tx'[c].upd = tx[c].upd
        /\ loc'[c].user = loc[c].user /\ loc'[c].entity = loc[c].entity

\* The step stores, mails and inserts no token.
KeepsTokens(c) ==
  /\ ops' = ops /\ mails' = mails
  /\ tx'[c].ins \subseteq tx[c].ins /\ pc'[c] # "notify"

LEMMA KeptLocks ==
  ASSUME NEW c \in Clients, WritersInv, Moved(c), KeepsLocks(c)
  PROVE  UniqueEmails' /\ RowLockInv' /\ AddressLockInv'
<1>1. \A d \in Clients : tx'[d].upd # {} =>
        /\ tx'[d].upd = tx[d].upd
        /\ loc'[d].user = loc[d].user /\ loc'[d].entity = loc[d].entity
  BY DEF Moved, SameClient, KeepsLocks
<1>2. UniqueEmails' /\ \A e : Found(e)' = Found(e)
  BY DEF WritersInv, UniqueEmails, Found, KeepsLocks
<1>3. RowLockInv'
  BY <1>1 DEF WritersInv, RowLockInv
<1>4. AddressLockInv'
  <2>1. \A d \in Clients : "email" \in tx'[d].upd =>
          "email" \in tx[d].upd /\ loc'[d].user = loc[d].user
          /\ loc'[d].entity = loc[d].entity
    BY <1>1
  <2> QED BY <1>2, <2>1 DEF WritersInv, AddressLockInv
<1> QED BY <1>2, <1>3, <1>4

LEMMA KeptTokens ==
  ASSUME NEW c \in Clients, WritersInv, Moved(c), KeepsTokens(c)
  PROVE  TokensInv'
<1>1. \A d \in Clients :
        /\ tx'[d].ins \subseteq tx[d].ins
        /\ pc'[d] = "notify" => pc[d] = "notify" /\ loc'[d].op = loc[d].op
  BY DEF Moved, SameClient, KeepsTokens
<1> QED BY <1>1 DEF WritersInv, TokensInv, KeepsTokens

\* What holds of the tokens at every step: mails are not unsent, and a mailed token
\* that has left ops stays out.
TokensPersist == mails \subseteq mails' /\ \A t \in mails : t \in ops' => t \in ops

\* A client that does not move keeps what its apply relies on.
LEMMA SteadyApply ==
  ASSUME NEW d \in Clients, ShapeInv, ShapeInv', ApplyWrites(d), Persist, TokensPersist,
         SameClient(d)
  PROVE  ApplyWrites(d)'
<1> SUFFICES ASSUME pc[d] # "idle", req[d].flow = "apply"
             PROVE  ApplyWrites(d)'
  BY DEF ApplyWrites, SameClient
<1>1. \A t : Own(d, t) => Own(d, t)'
  BY DEF Own, Persist, SameClient
<1>2. ASSUME pc[d] \in Closed, loc[d].op \in ops' \ tx[d].del
      PROVE  loc[d].op \in ops
  <2>1. loc[d].op # None
    BY <1>2, NoneAssumption DEF ShapeInv, TypeOK
  <2>2. loc[d].op = req[d].token
    BY <1>2, <2>1 DEF ShapeInv, ClientInv, ApplyInv, Applying, Closed, Reading, Saving,
                      NoLocals
  <2> QED BY <1>2, <2>2 DEF ApplyWrites, TokensPersist
<1> QED BY <1>1, <1>2 DEF ApplyWrites, SameClient, TokensPersist

\* What a step of client c must re-establish.
WritersMoved(c) ==
  /\ ApplyWrites(c)' /\ TokensPersist
  /\ UniqueEmails' /\ TokensInv' /\ RowLockInv' /\ AddressLockInv'

LEMMA MovedWriters ==
  ASSUME NEW c \in Clients, WritersInv, Moved(c), FreshInv', WritersMoved(c)
  PROVE  WritersInv'
<1>1. ShapeInv'
  BY MovedShape DEF WritersInv
<1>2. ASSUME NEW d \in Clients PROVE ApplyWrites(d)'
  <2>1. CASE d = c BY <2>1 DEF WritersMoved
  <2>2. CASE d # c
    BY <1>1, <2>2, SteadyApply DEF WritersMoved, WritersInv, Moved
  <2> QED BY <2>1, <2>2
<1> QED BY <1>1, <1>2 DEF WritersInv, WritersMoved

-----------------------------------------------------------------------------
(* One lemma per action. *)

LEMMA QuietWriters ==
  ASSUME NEW c \in Clients, WritersInv, Moved(c), KeepsLocks(c), KeepsTokens(c),
         ApplyWrites(c)'
  PROVE  WritersMoved(c)
<1>1. TokensPersist
  BY DEF KeepsTokens, TokensPersist
<1> QED BY <1>1, KeptLocks, KeptTokens DEF WritersMoved

LEMMA EndWriters ==
  ASSUME NEW c \in Clients, ShapeInv, End(c)
  PROVE  /\ ApplyWrites(c)'
         /\ users' = users => KeepsLocks(c)
         /\ ops' = ops /\ mails' = mails => KeepsTokens(c)
<1>1. pc'[c] = "idle" /\ tx'[c] = NoWrites
  BY DEF End, ShapeInv, TypeOK
<1> QED BY <1>1 DEF ApplyWrites, KeepsLocks, KeepsTokens, NoWrites

LEMMA EndedWriters ==
  ASSUME NEW c \in Clients, WritersInv, Moved(c), End(c), users' = users, ops' = ops,
         mails' = mails
  PROVE  WritersMoved(c)
BY EndWriters, QuietWriters DEF WritersInv

LEMMA StartWriters ==
  ASSUME NEW c \in Clients, WritersInv, Arrive(c) \/ LookupUser(c) \/ Begin(c)
  PROVE  WritersMoved(c)
<1> USE DEF WritersInv, outside, env, tables, Goto
<1>1. CASE Arrive(c)
  <2>1. PICK r \in Requests :
          /\ r.flow = "apply" => r.token \in mails
          /\ req' = [req EXCEPT ![c] = r]
          /\ Goto(c, IF r.flow = "apply" THEN "begin" ELSE "lookup")
    BY <1>1 DEF Arrive
  <2>2. /\ loc'[c] = NoLocals /\ tx'[c] = NoWrites
        /\ users' = users /\ ops' = ops /\ mails' = mails
    BY <1>1 DEF Arrive, ShapeInv, ClientInv, IdleInv
  <2>3. req'[c] = r /\ pc'[c] \in {"begin", "lookup"}
    BY <2>1 DEF ShapeInv, TypeOK
  <2>4. ApplyWrites(c)'
    BY <2>1, <2>2, <2>3 DEF ApplyWrites, NoLocals, NoWrites, Closed, Saving
  <2>5. KeepsLocks(c) /\ KeepsTokens(c)
    BY <2>2, <2>3 DEF KeepsLocks, KeepsTokens, NoWrites
  <2> QED BY <1>1, <2>4, <2>5, ArriveMoves, QuietWriters
<1>2. CASE LookupUser(c)
  <2>1. /\ pc[c] = "lookup" /\ req[c] \in Requests /\ req[c].flow # "apply"
        /\ tx[c] = NoWrites
        /\ users' = users /\ ops' = ops /\ mails' = mails
    BY <1>2, RequestFacts DEF LookupUser, ShapeInv, ClientInv, FlowInv, FlowPCs, CleanInv
  <2>2. CASE End(c)
    BY <1>2, <2>1, <2>2, LookupUserMoves, EndedWriters
  <2>3. CASE ~End(c)
    <3>1. req' = req /\ tx' = tx /\ pc'[c] \in {"begin", "checkEmail", "openSession"}
      BY <1>2, <2>3 DEF LookupUser, ShapeInv, TypeOK
    <3>2. ApplyWrites(c)' /\ KeepsLocks(c) /\ KeepsTokens(c)
      BY <2>1, <3>1 DEF ApplyWrites, KeepsLocks, KeepsTokens, NoWrites
    <3> QED BY <1>2, <3>2, LookupUserMoves, QuietWriters
  <2> QED BY <2>2, <2>3
<1>3. CASE Begin(c)
  <2>1. pc'[c] \in {"insertUser", "closeFind", "findOp"} /\ pc[c] = "begin"
        /\ UNCHANGED <<users, ops, mails, req, loc, tx, meta>>
    BY <1>3 DEF Begin, ShapeInv, TypeOK
  <2>2. ApplyWrites(c)' /\ KeepsLocks(c) /\ KeepsTokens(c)
    BY <2>1 DEF ApplyWrites, KeepsLocks, KeepsTokens, Closed, Saving, Own
  <2> QED BY <1>3, <2>2, BeginMoves, QuietWriters
<1> QED BY <1>1, <1>2, <1>3

LEMMA FindOpWriters ==
  ASSUME NEW c \in Clients, WritersInv, FindOp(c)
  PROVE  WritersMoved(c)
<1> USE DEF WritersInv, outside, env, tables, Goto
<1>1. /\ pc[c] = "findOp" /\ req[c] \in Requests /\ req[c].flow = "apply"
      /\ tx[c] = NoWrites /\ loc[c] = NoLocals
      /\ UNCHANGED <<users, ops, meta, mails, req, tx>>
  BY RequestFacts DEF FindOp, ShapeInv, ClientInv, FlowInv, FlowPCs, CleanInv
<1>2. /\ loc'[c].victim = None /\ loc'[c].dirty = {} /\ pc'[c] \in {"closeFind", "commit"}
      /\ pc'[c] = "commit" => loc'[c].op = None
  <2>1. CASE /\ loc' = [loc EXCEPT ![c] = [@ EXCEPT !.op = req[c].token,
                                                  !.user = meta[req[c].token].user]]
             /\ Goto(c, "closeFind")
    BY <1>1, <2>1 DEF ShapeInv, TypeOK, Locals, NoLocals
  <2>2. CASE Goto(c, "commit") /\ UNCHANGED loc
    BY <1>1, <2>2 DEF ShapeInv, TypeOK, NoLocals
  <2> QED BY <2>1, <2>2 DEF FindOp
<1>3. KeepsLocks(c) /\ KeepsTokens(c)
  BY <1>1, <1>2 DEF KeepsLocks, KeepsTokens, NoWrites
<1>4. None \notin ops
  BY NoneAssumption DEF ShapeInv, TypeOK
<1>5. ApplyWrites(c)'
  BY <1>1, <1>2, <1>4 DEF ApplyWrites, NoWrites, Closed, Saving
<1> QED BY <1>3, <1>5, FindOpMoves, QuietWriters

LEMMA CloseFindWriters ==
  ASSUME NEW c \in Clients, WritersInv, CloseFind(c)
  PROVE  WritersMoved(c)
<1> USE DEF WritersInv, outside, env, tables, Goto
<1>1. /\ pc[c] = "closeFind" /\ UNCHANGED <<users, ops, meta, mails, req, tx>>
      /\ pc'[c] \in {"closeRemove", "insertOp", "checkEmail", "updateRead"}
      /\ loc'[c].user = loc[c].user /\ loc'[c].op = loc[c].op
      /\ loc'[c].entity = loc[c].entity /\ loc'[c].dirty = loc[c].dirty
  BY AfterCloseFacts DEF CloseFind, ShapeInv, TypeOK, Locals
<1>2. KeepsLocks(c) /\ KeepsTokens(c)
  BY <1>1 DEF KeepsLocks, KeepsTokens
<1>3. ASSUME req[c].flow = "apply" PROVE ApplyWrites(c)'
  <2>1. loc[c].op = req[c].token /\ Own(c, loc[c].op)
    BY <1>1, <1>3 DEF ShapeInv, ClientInv, ApplyInv, Applying, Reading
  <2>2. CASE OpenOps(loc[c].user, req[c].type) = {} /\ loc' = loc
    <3>1. loc[c].op \notin ops
      BY <2>1, <2>2 DEF OpenOps, Own
    <3> QED BY <1>1, <1>3, <2>2, <3>1 DEF ApplyWrites, Own, Saving
  <2>3. ASSUME NEW t \in OpenOps(loc[c].user, req[c].type),
               loc' = [loc EXCEPT ![c].victim = t], pc'[c] = "closeRemove"
        PROVE  ApplyWrites(c)'
    <3>1. Own(c, t)' /\ loc'[c].victim = t
      BY <1>1, <2>3 DEF OpenOps, Own, ShapeInv, OpsInv, TypeOK, Locals
    <3> QED BY <1>1, <1>3, <2>3, <3>1 DEF ApplyWrites, Saving, Closed
  <2> QED BY <2>2, <2>3 DEF CloseFind, ShapeInv, TypeOK
<1>4. ApplyWrites(c)'
  BY <1>1, <1>3 DEF ApplyWrites
<1> QED BY <1>2, <1>4, CloseFindMoves, QuietWriters

LEMMA CloseRemoveWriters ==
  ASSUME NEW c \in Clients, WritersInv, CloseRemove(c)
  PROVE  WritersMoved(c)
<1> USE DEF WritersInv, outside, env, tables, Goto
<1>1. /\ pc[c] = "closeRemove" /\ UNCHANGED <<users, ops, meta, mails, req, loc>>
      /\ pc'[c] \in {"insertOp", "checkEmail", "updateRead"}
      /\ tx'[c].del = {loc[c].victim} \cap ops
      /\ tx'[c].ins = tx[c].ins /\ tx'[c].upd = tx[c].upd
  BY AfterCloseFacts DEF CloseRemove, ShapeInv, TypeOK, Writes
<1>2. KeepsLocks(c) /\ KeepsTokens(c)
  BY <1>1 DEF KeepsLocks, KeepsTokens
<1>3. loc[c].victim # None
  BY <1>1, NoneAssumption DEF ShapeInv, ClientInv, WritesInv, Own
<1>4. \A t : Own(c, t)' <=> Own(c, t)
  BY <1>1 DEF Own
<1>5. ApplyWrites(c)'
  BY <1>1, <1>3, <1>4 DEF ApplyWrites, Saving
<1> QED BY <1>2, <1>5, CloseRemoveMoves, QuietWriters

LEMMA CheckEmailWriters ==
  ASSUME NEW c \in Clients, WritersInv, CheckEmail(c)
  PROVE  WritersMoved(c)
<1> USE DEF WritersInv, outside, env, tables, Goto
<1>1. pc[c] = "checkEmail" /\ UNCHANGED <<users, ops, meta, mails>>
  BY DEF CheckEmail
<1>2. CASE End(c)
  BY <1>1, <1>2, CheckEmailMoves, EndedWriters
<1>3. CASE ~End(c)
  <2>1. UNCHANGED <<req, loc, tx>> /\ pc'[c] \in {"begin", "updateRead"}
    BY <1>3 DEF CheckEmail, ShapeInv, TypeOK
  <2>2. KeepsLocks(c) /\ KeepsTokens(c)
    BY <1>1, <2>1 DEF KeepsLocks, KeepsTokens
  <2>3. ApplyWrites(c)'
    BY <1>1, <2>1 DEF ApplyWrites, Saving, Closed, Own
  <2> QED BY <2>2, <2>3, CheckEmailMoves, QuietWriters
<1> QED BY <1>2, <1>3

LEMMA UpdateReadWriters ==
  ASSUME NEW c \in Clients, WritersInv, UpdateRead(c)
  PROVE  WritersMoved(c)
<1> USE DEF WritersInv, outside, env, tables, Goto
<1> DEFINE entity == Assigned(users[loc[c].user], req[c], meta[loc[c].op])
<1>1. /\ pc[c] = "updateRead" /\ tx[c].upd = {}
  BY ApplyingFacts DEF UpdateRead
<1>2. entity.password # None => req[c].type \in {"pr", "pc"}
  BY DEF Assigned
<1> HIDE DEF entity
<1>3. loc' = [loc EXCEPT ![c].entity = entity]
      /\ UNCHANGED <<users, ops, meta, mails, req, tx>> /\ pc'[c] = "saveLoad"
  BY DEF UpdateRead, entity, ShapeInv, TypeOK
<1>4. /\ loc'[c].user = loc[c].user /\ loc'[c].op = loc[c].op
      /\ loc'[c].victim = loc[c].victim /\ loc'[c].dirty = loc[c].dirty
      /\ loc'[c].entity = entity
  BY <1>3 DEF ShapeInv, TypeOK, Locals
<1>5. KeepsLocks(c) /\ KeepsTokens(c)
  BY <1>1, <1>3 DEF KeepsLocks, KeepsTokens
<1>6. ApplyWrites(c)'
  BY <1>1, <1>2, <1>3, <1>4 DEF ApplyWrites, Saving, Closed, Own
<1> QED BY <1>5, <1>6, UpdateReadMoves, QuietWriters

LEMMA SaveLoadWriters ==
  ASSUME NEW c \in Clients, WritersInv, SaveLoad(c)
  PROVE  WritersMoved(c)
<1> USE DEF WritersInv, outside, env, tables, Goto
<1> DEFINE dirty == Dirty(loc[c].entity, users[loc[c].user])
<1>1. pc[c] = "saveLoad"
  BY DEF SaveLoad
<1>2. "password" \in dirty => loc[c].entity.password # None
  BY DEF Dirty
<1> HIDE DEF dirty
<1>3. loc' = [loc EXCEPT ![c].dirty = dirty]
      /\ UNCHANGED <<users, ops, meta, mails, req, tx>>
      /\ pc'[c] \in {"saveWrite", "commit", "dropSessions"}
  BY DEF SaveLoad, dirty, ShapeInv, TypeOK, AfterSave
<1>4. /\ loc'[c].user = loc[c].user /\ loc'[c].op = loc[c].op
      /\ loc'[c].victim = loc[c].victim /\ loc'[c].dirty = dirty
      /\ loc'[c].entity = loc[c].entity
  BY <1>3 DEF ShapeInv, TypeOK, Locals
<1>5. KeepsLocks(c) /\ KeepsTokens(c)
  BY <1>3, <1>4 DEF KeepsLocks, KeepsTokens
<1>6. ApplyWrites(c)'
  BY <1>1, <1>2, <1>3, <1>4 DEF ApplyWrites, Saving, Closed, Own
<1> QED BY <1>5, <1>6, SaveLoadMoves, QuietWriters

LEMMA DropSessionsWriters ==
  ASSUME NEW c \in Clients, WritersInv, DropSessions(c)
  PROVE  WritersMoved(c)
<1> USE DEF WritersInv, outside, env, tables, Goto
<1>1. /\ pc[c] = "dropSessions" /\ pc'[c] = "commit"
      /\ UNCHANGED <<users, ops, meta, mails, req, loc, tx>>
  BY DEF DropSessions, ShapeInv, TypeOK
<1>2. KeepsLocks(c) /\ KeepsTokens(c) /\ ApplyWrites(c)'
  BY <1>1 DEF KeepsLocks, KeepsTokens, ApplyWrites, Saving, Closed, Own
<1> QED BY <1>2, DropSessionsMoves, QuietWriters

LEMMA OpenSessionWriters ==
  ASSUME NEW c \in Clients, WritersInv, OpenSession(c) \/ Fail(c)
  PROVE  WritersMoved(c)
<1>1. End(c) /\ users' = users /\ ops' = ops /\ mails' = mails
  BY DEF OpenSession, Fail, tables, outside
<1> QED BY <1>1, OpenSessionMoves, FailMoves, EndedWriters DEF WritersInv

\* The mail carries the token of the transaction just committed, which no other
\* transaction inserts.
LEMMA NotifyWriters ==
  ASSUME NEW c \in Clients, WritersInv, Notify(c)
  PROVE  WritersMoved(c)
<1> USE DEF WritersInv
<1>1. /\ pc[c] = "notify" /\ End(c) /\ users' = users /\ ops' = ops
      /\ mails \subseteq mails' /\ mails' \subseteq mails \cup {loc[c].op}
  BY DEF Notify, Mailed, tables
<1>2. Moved(c)
  BY NotifyMoves
<1>3. ApplyWrites(c)' /\ KeepsLocks(c)
  BY <1>1, EndWriters
<1>4. TokensPersist
  BY <1>1 DEF TokensPersist
<1>5. TokensInv'
  <2>1. pc'[c] = "idle" /\ tx'[c].ins = {}
    BY <1>1 DEF End, ShapeInv, TypeOK, NoWrites
  <2>2. \A d \in Clients \ {c} : tx'[d] = tx[d] /\ pc'[d] = pc[d] /\ loc'[d] = loc[d]
    BY <1>2 DEF Moved, SameClient
  <2> QED BY <1>1, <2>1, <2>2 DEF TokensInv
<1> QED BY <1>2, <1>3, <1>4, <1>5, KeptLocks DEF WritersMoved

\* A fresh token is nobody's.
LEMMA InsertOpWriters ==
  ASSUME NEW c \in Clients, WritersInv, InsertOp(c)
  PROVE  WritersMoved(c)
<1> USE DEF WritersInv, outside, env, Goto
<1>1. PICK t \in FreshUuids :
        /\ tx' = [tx EXCEPT ![c].ins = {t}]
        /\ loc' = [loc EXCEPT ![c].op = t]
  BY DEF InsertOp
<1>2. /\ pc[c] = "insertOp" /\ req[c].flow # "apply" /\ pc'[c] = "commit"
      /\ UNCHANGED <<users, ops, mails, req>>
  BY RequestFacts DEF InsertOp, ShapeInv, ClientInv, FlowInv, FlowPCs, TypeOK
<1>3. /\ tx'[c].ins = {t} /\ tx'[c].upd = tx[c].upd
      /\ loc'[c].user = loc[c].user /\ loc'[c].entity = loc[c].entity
  BY <1>1 DEF ShapeInv, TypeOK, Locals, Writes
<1>4. Moved(c)
  BY InsertOpMoves
<1>5. KeepsLocks(c)
  BY <1>2, <1>3 DEF KeepsLocks
<1>6. ApplyWrites(c)' /\ TokensPersist
  BY <1>2 DEF ApplyWrites, TokensPersist
<1>7. TokensInv'
  <2>1. meta[t] = None /\ t \notin ops \cup mails
    BY DEF FreshUuids, ShapeInv, OpsInv
  <2>2. \A d \in Clients : t \notin tx[d].ins /\ (pc[d] = "notify" => loc[d].op # t)
    BY <2>1 DEF ShapeInv, ClientInv, WritesInv, Own
  <2>3. \A d \in Clients \ {c} : tx'[d] = tx[d] /\ pc'[d] = pc[d] /\ loc'[d] = loc[d]
    BY <1>4 DEF Moved, SameClient
  <2> QED BY <1>2, <1>3, <2>1, <2>2, <2>3 DEF TokensInv
<1> QED BY <1>4, <1>5, <1>6, <1>7, KeptLocks DEF WritersMoved

\* The INSERT waits for the address, fails on a committed one, and takes a row that no
\* open transaction has.
LEMMA InsertUserWriters ==
  ASSUME NEW c \in Clients, WritersInv, InsertUser(c)
  PROVE  WritersMoved(c)
<1> USE DEF WritersInv, outside, env, tables, Goto
<1> DEFINE e == StoredEmail(req[c])
           row == [email |-> e, password |-> req[c].password, verified |-> FALSE]
<1>1. /\ pc[c] = "insertUser" /\ req[c].flow = "signUp" /\ tx[c] = NoWrites
      /\ UNCHANGED <<users, ops, mails>> /\ ~EmailPending(c, e)
  BY RequestFacts DEF InsertUser, ShapeInv, ClientInv, FlowInv, FlowPCs, CleanInv
<1>2. CASE End(c)
  BY <1>1, <1>2, InsertUserMoves, EndedWriters
<1>3. ASSUME ~EmailTaken(None, e), NEW u \in FreshUsers,
             loc' = [loc EXCEPT ![c] = [@ EXCEPT !.user = u, !.entity = row]],
             tx' = [tx EXCEPT ![c].upd = Columns],
             Goto(c, "closeFind"), UNCHANGED <<req, conn>>
      PROVE  WritersMoved(c)
  <2>0. row.email = e
    OBVIOUS
  <2> HIDE DEF e, row
  <2>1. /\ tx'[c].upd = Columns /\ tx'[c].ins = tx[c].ins /\ pc'[c] = "closeFind"
        /\ loc'[c].user = u /\ loc'[c].entity = row
    BY <1>3 DEF ShapeInv, TypeOK, Locals, Writes
  <2>2. Moved(c)
    BY InsertUserMoves
  <2>3. \A d \in Clients \ {c} : tx'[d] = tx[d] /\ loc'[d] = loc[d]
    BY <2>2 DEF Moved, SameClient
  <2>4. TokensInv'
    BY <1>1, <2>1, <2>2, KeptTokens DEF KeepsTokens
  <2>5. ApplyWrites(c)' /\ TokensPersist
    BY <1>1, <1>3 DEF ApplyWrites, TokensPersist
  <2>6. UniqueEmails' /\ \A x : Found(x)' = Found(x)
    BY <1>1 DEF UniqueEmails, Found
  <2>7. Found(e) = {}
    BY <1>3, NoneAssumption DEF EmailTaken, Found
  <2>8. \A d \in Clients \ {c} :
          /\ tx[d].upd # {} => loc[d].user # u
          /\ "email" \in tx[d].upd => loc[d].entity.email # e
    BY <1>1, <1>3 DEF FreshUsers, EmailPending
  <2>9. RowLockInv'
    BY <2>1, <2>3, <2>8 DEF RowLockInv
  <2>10. AddressLockInv'
    BY <2>0, <2>1, <2>3, <2>6, <2>7, <2>8 DEF AddressLockInv
  <2> QED BY <2>4, <2>5, <2>6, <2>9, <2>10 DEF WritersMoved
<1> QED BY <1>2, <1>3 DEF InsertUser

\* The UPDATE waits for the row and for the address, and fails on a committed one.
LEMMA SaveWriteWriters ==
  ASSUME NEW c \in Clients, WritersInv, SaveWrite(c)
  PROVE  WritersMoved(c)
<1> USE DEF WritersInv, outside, env, tables, Goto
<1>1. /\ pc[c] = "saveWrite" /\ UNCHANGED <<users, ops, meta, mails>>
      /\ tx[c].upd = {} /\ Applying(c)
  BY ApplyingFacts DEF SaveWrite
<1>2. CASE End(c)
  BY <1>1, <1>2, SaveWriteMoves, EndedWriters
<1>3. CASE ~End(c)
  <2> DEFINE u == loc[c].user
             e == loc[c].entity.email
  <2>1. /\ tx'[c].upd = loc[c].dirty /\ tx'[c].ins = tx[c].ins /\ tx'[c].del = tx[c].del
        /\ pc'[c] \in {"commit", "dropSessions"} /\ UNCHANGED <<req, loc>>
    BY <1>3 DEF SaveWrite, ShapeInv, TypeOK, Writes, AfterSave
  <2>2. /\ ~UserLocked(c, u)
        /\ "email" \in loc[c].dirty => ~EmailPending(c, e) /\ ~EmailTaken(u, e)
    BY <1>3 DEF SaveWrite
  <2>3. Moved(c)
    BY SaveWriteMoves
  <2>4. \A d \in Clients \ {c} : tx'[d] = tx[d]
    BY <2>3 DEF Moved, SameClient
  <2>5. TokensInv' /\ TokensPersist
    BY <1>1, <2>1, <2>3, KeptTokens DEF KeepsTokens, TokensPersist
  <2>6. ApplyWrites(c)'
    BY <1>1, <2>1 DEF ApplyWrites, Saving, Closed, Own
  <2>7. UniqueEmails' /\ \A x : Found(x)' = Found(x)
    BY <1>1 DEF UniqueEmails, Found
  <2>8. RowLockInv'
    BY <2>1, <2>2, <2>4 DEF RowLockInv, UserLocked
  <2>9. AddressLockInv'
    <3>1. ASSUME "email" \in loc[c].dirty
          PROVE  /\ Found(e) \subseteq {u}
                 /\ \A d \in Clients \ {c} : "email" \in tx[d].upd => loc[d].entity.email # e
      BY <2>2, <3>1 DEF EmailPending, EmailTaken
    <3> QED BY <2>1, <2>4, <2>7, <3>1 DEF AddressLockInv
  <2> QED BY <2>5, <2>6, <2>7, <2>8, <2>9 DEF WritersMoved
<1> QED BY <1>2, <1>3

\* What a commit does to the addresses, given the locks.
LEMMA CommitAddresses ==
  ASSUME NEW c \in Clients, WritersInv, Commit(c)
  PROVE  UniqueEmails' /\ RowLockInv' /\ AddressLockInv'
<1> USE DEF WritersInv
<1> DEFINE row == loc[c].user
           e == loc[c].entity.email
<1>1. /\ \A u \in Users \ {row} : users'[u] = users[u]
      /\ tx[c].upd = {} => users' = users
      /\ tx[c].upd # {} =>
           /\ row \in Users
           /\ users' = [users EXCEPT ![row] = Patch(@, loc[c].entity, tx[c].upd)]
           /\ users[row] # None \/ "email" \in tx[c].upd
  BY CommitRow DEF Applying, Known, NoWrites, Columns
<1>2. Moved(c) /\ tx'[c].upd = {}
  <2>1. tx'[c] = NoWrites
    BY DEF Commit, End, ShapeInv, TypeOK
  <2> QED BY <2>1, CommitMoves DEF NoWrites
<1>3. \A d \in Clients : tx'[d].upd # {} => d # c /\ tx'[d] = tx[d] /\ loc'[d] = loc[d]
  BY <1>2 DEF Moved, SameClient
<1>4. RowLockInv'
  BY <1>3 DEF RowLockInv
<1>5. CASE tx[c].upd # {} /\ "email" \in tx[c].upd
  <2>1. users'[row].email = e
    BY <1>1, <1>5 DEF Patch, ShapeInv, TypeOK
  <2>2. \A x : Found(x)' \subseteq Found(x) \cup (IF x = e THEN {row} ELSE {})
    BY <1>1, <2>1 DEF Found
  <2>3. Found(e) \subseteq {row}
    BY <1>5 DEF AddressLockInv
  <2>4. UniqueEmails'
    <3> SUFFICES ASSUME NEW u \in Users, NEW v \in Users, users'[u] # None, users'[v] # None,
                        users'[u].email = users'[v].email, u # v
                 PROVE  FALSE
      BY DEF UniqueEmails
    <3>1. CASE u # row /\ v # row
      BY <1>1, <3>1 DEF UniqueEmails
    <3>2. CASE u = row
      BY <1>1, <2>1, <2>3, <3>2 DEF Found
    <3>3. CASE v = row
      BY <1>1, <2>1, <2>3, <3>3 DEF Found
    <3> QED BY <3>1, <3>2, <3>3
  <2>5. AddressLockInv'
    <3>1. ASSUME NEW d \in Clients, "email" \in tx'[d].upd
          PROVE  Found(loc[d].entity.email)' \subseteq {loc[d].user}
      <4>1. d # c /\ "email" \in tx[d].upd /\ loc[d].entity.email # e
        BY <1>3, <1>5, <3>1 DEF AddressLockInv
      <4> QED BY <2>2, <4>1, <1>3, <3>1 DEF AddressLockInv
    <3> QED BY <1>3, <3>1 DEF AddressLockInv
  <2> QED BY <1>4, <2>4, <2>5
<1>6. CASE ~(tx[c].upd # {} /\ "email" \in tx[c].upd)
  <2>1. \A u \in Users : /\ users'[u] # None => users[u] # None
                         /\ users[u] # None => users'[u].email = users[u].email
    BY <1>1, <1>6 DEF Patch, ShapeInv, TypeOK
  <2>2. \A u \in Users : users'[u] # None => users[u] # None /\ users'[u].email = users[u].email
    BY <2>1
  <2>3. \A x : Found(x)' \subseteq Found(x)
    BY <2>2 DEF Found
  <2>4. UniqueEmails'
    BY <2>2 DEF UniqueEmails
  <2>5. AddressLockInv'
    BY <1>3, <2>3 DEF AddressLockInv
  <2> QED BY <1>4, <2>4, <2>5
<1> QED BY <1>5, <1>6

LEMMA CommitWriters ==
  ASSUME NEW c \in Clients, WritersInv, Commit(c)
  PROVE  WritersMoved(c)
<1> USE DEF WritersInv
<1>1. /\ pc[c] = "commit" /\ mails' = mails
      /\ ops' = (ops \ tx[c].del) \cup tx[c].ins
  BY DEF Commit, outside
<1>2. /\ Moved(c) /\ tx'[c] = NoWrites
      /\ \/ pc'[c] = "idle"
         \/ pc'[c] = "notify" /\ req[c].flow # "apply" /\ UNCHANGED <<req, loc>>
  BY CommitMoves DEF Commit, End, Goto, ShapeInv, TypeOK
<1>3. ApplyWrites(c)'
  BY <1>2 DEF ApplyWrites
<1>4. TokensPersist
  BY <1>1 DEF TokensPersist, TokensInv
<1>5. TokensInv'
  <2>1. \A d \in Clients : \A t \in tx'[d].ins : d # c /\ t \in tx[d].ins
    BY <1>2 DEF Moved, SameClient, NoWrites
  <2>2. req[c].flow # "apply" => tx[c].ins = {loc[c].op}
    BY <1>1 DEF ShapeInv, ClientInv, WritesInv
  <2>3. \A d \in Clients \ {c} : tx'[d] = tx[d] /\ pc'[d] = pc[d] /\ loc'[d] = loc[d]
    BY <1>2 DEF Moved, SameClient
  <2> SUFFICES ASSUME NEW d \in Clients, NEW t \in tx'[d].ins
               PROVE  /\ t \notin ops' \cup mails'
                      /\ \A a \in Clients \ {d} :
                           t \notin tx'[a].ins /\ (pc'[a] = "notify" => loc'[a].op # t)
    BY DEF TokensInv
  <2>4. d # c /\ t \in tx[d].ins /\ t \notin tx[c].ins
    BY <2>1 DEF TokensInv
  <2>5. t \notin ops' \cup mails'
    BY <1>1, <2>4 DEF TokensInv
  <2>6. ASSUME NEW a \in Clients \ {d}
        PROVE  t \notin tx'[a].ins /\ (pc'[a] = "notify" => loc'[a].op # t)
    <3>1. CASE a = c
      BY <1>2, <2>2, <2>4, <3>1 DEF NoWrites
    <3>2. CASE a # c
      BY <2>3, <2>4, <3>2 DEF TokensInv
    <3> QED BY <3>1, <3>2
  <2> QED BY <2>5, <2>6
<1> QED BY <1>3, <1>4, <1>5, CommitAddresses DEF WritersMoved

LEMMA StepWriters ==
  ASSUME NEW c \in Clients, WritersInv, Arrive(c) \/ Step(c) \/ Fail(c)
  PROVE  WritersMoved(c)
BY StartWriters, FindOpWriters, CloseFindWriters, CloseRemoveWriters, CheckEmailWriters,
   UpdateReadWriters, SaveLoadWriters, DropSessionsWriters, OpenSessionWriters,
   NotifyWriters, InsertOpWriters, InsertUserWriters, SaveWriteWriters, CommitWriters
   DEF Step

LEMMA ExpireWriters ==
  ASSUME WritersInv, (\E t \in Uuids : Expire(t)) \/ UNCHANGED vars
  PROVE  WritersInv'
<1> USE DEF WritersInv
<1>1. ShapeInv' /\ Persist
      /\ UNCHANGED <<users, ops, meta, mails, cache, pc, req, loc, tx>>
  BY ExpireShape
<1>2. \A d \in Clients : ApplyWrites(d)'
  BY <1>1, SteadyApply DEF SameClient, TokensPersist
<1>3. FreshInv' /\ TokensInv' /\ RowLockInv'
  BY <1>1 DEF FreshInv, TokensInv, RowLockInv
<1>4. UniqueEmails' /\ \A x : Found(x)' = Found(x)
  BY <1>1 DEF UniqueEmails, Found
<1>5. AddressLockInv'
  BY <1>1, <1>4 DEF AddressLockInv
<1> QED BY <1>1, <1>2, <1>3, <1>4, <1>5

LEMMA NextWriters ==
  ASSUME WritersInv, [Next]_vars
  PROVE  WritersInv'
<1>1. ASSUME NEW c \in Clients, Arrive(c) \/ Step(c) \/ Fail(c) PROVE WritersInv'
  BY <1>1, StepMoves, StepFresh, StepWriters, MovedWriters DEF WritersInv
<1> QED BY <1>1, ExpireWriters DEF Next

LEMMA InitWriters == ASSUME Init PROVE WritersInv
<1>1. FreshInv /\ UniqueEmails /\ TokensInv /\ RowLockInv /\ AddressLockInv
  BY DEF Init, NoWrites, FreshInv, Registering, UniqueEmails, TokensInv, RowLockInv,
         AddressLockInv
<1>2. \A c \in Clients : ApplyWrites(c)
  BY DEF Init, ApplyWrites
<1> QED BY <1>1, <1>2, InitShape DEF WritersInv

\* Overlapping transactions of any operation types write rows, addresses and tokens of
\* their own, and an apply that leaves its token open met a sibling of it (processors'
\* create, apply and _close).
THEOREM WritersInvariant == Spec => []WritersInv
<1>1. Init => WritersInv
  BY InitWriters
<1>2. WritersInv /\ [Next]_vars => WritersInv'
  BY NextWriters
<1> QED BY <1>1, <1>2, PTL DEF Spec

\* With address changes too, no two committed accounts ever share an address, although
\* _checkoutEmail and signUp look before, and outside, the transaction that writes.
THEOREM AddressesStayUnique == Spec => []UniqueEmails
<1>1. WritersInv => UniqueEmails
  BY DEF WritersInv
<1> QED BY <1>1, WritersInvariant, PTL

\* What a commit that changes a committed account is.
LEMMA CommittedApply ==
  ASSUME NEW c \in Clients, WritersInv, Commit(c),
         NEW u \in Users, users[u] # None, users'[u] # users[u]
  PROVE  /\ req[c].flow = "apply" /\ req[c] \in Requests /\ Applying(c) /\ loc[c].user = u
         /\ req[c].token \in mails
         /\ users'[u].password # users[u].password => req[c].type \in {"pr", "pc"}
<1> USE DEF WritersInv
<1>1. loc[c].user = u /\ pc[c] = "commit" /\ req[c] \in Requests
  BY CommitRow
<1>2. req[c].flow = "apply" /\ Applying(c)
  BY <1>1, CommitRow DEF NoWrites
<1>3. users' = IF tx[c].upd = {} THEN users
               ELSE [users EXCEPT ![u] = Patch(@, loc[c].entity, tx[c].upd)]
  BY <1>1, CommitRow
<1>4. users'[u].password # users[u].password => "password" \in tx[c].upd
  BY <1>3 DEF Patch, ShapeInv, TypeOK
<1> QED BY <1>1, <1>2, <1>4 DEF ApplyWrites

\* With any operation types a committed account changes only by an apply that was given
\* a mailed token of that account, and its password by a pr or pc token only.
THEOREM ChangesNeedToken == Spec => ChangedByOwnToken
<1> DEFINE By(u, c) == LET t == req[c].token IN
             /\ req[c] # None /\ req[c].flow = "apply" /\ t \in mails
             /\ meta[t].user = u
             /\ users'[u].password # users[u].password => meta[t].type \in {"pr", "pc"}
<1>1. ASSUME WritersInv, [Next]_vars
      PROVE  [\A u \in Users : users[u] # None /\ users'[u] # users[u]
                => \E c \in Clients : By(u, c)]_vars
  <2> SUFFICES ASSUME NEW u \in Users, users[u] # None, users'[u] # users[u]
               PROVE  \E c \in Clients : By(u, c)
    OBVIOUS
  <2>1. PICK c \in Clients : Commit(c)
    BY <1>1, OnlyCommit DEF WritersInv
  <2>2. By(u, c)
    BY <1>1, <2>1, CommittedApply, NotNone DEF Applying, Own
  <2> QED BY <2>2
<1> QED BY <1>1, WritersInvariant, PTL DEF Spec, ChangedByOwnToken

\* A client leaves "commit" by a commit that changes users only as an apply.
LEMMA AnsweredCommit ==
  ASSUME NEW c \in Clients, WritersInv, [Next]_vars,
         pc[c] = "commit", pc'[c] = "idle", users' # users
  PROVE  Commit(c) /\ req[c].flow = "apply" /\ Applying(c)
<1> USE DEF WritersInv
<1>1. PICK d \in Clients : Commit(d)
  BY OnlyCommit
<1>2. d = c
  BY <1>1, CommitMoves DEF Moved, SameClient
<1>3. req[c].flow = "apply"
  BY <1>1, <1>2 DEF Commit, Goto, ShapeInv, TypeOK
<1> QED BY <1>1, <1>2, <1>3, CommitRow DEF NoWrites

\* A committed apply leaves its token open only when _close met another operation of the
\* same account and type instead, with any operation types and any overlap.
THEOREM SurvivorsHaveSiblings == Spec => SurvivingTokenHadSibling
<1> DEFINE Sibling(c) == LET t == req[c].token
                             v == loc[c].victim
             IN pc[c] = "commit" /\ pc'[c] = "idle" /\ users' # users /\ t \in ops'
                  => /\ v \notin {None, t}
                     /\ meta[v].user = meta[t].user /\ meta[v].type = meta[t].type
<1>1. ASSUME WritersInv, [Next]_vars
      PROVE  [\A c \in Clients : Sibling(c)]_vars
  <2> SUFFICES ASSUME NEW c \in Clients, pc[c] = "commit", pc'[c] = "idle",
                      users' # users, req[c].token \in ops'
               PROVE  Sibling(c)
    OBVIOUS
  <2>1. Commit(c) /\ req[c].flow = "apply" /\ Applying(c)
    BY <1>1, AnsweredCommit
  <2>2. ApplyWrites(c)
    BY <1>1 DEF WritersInv
  <2>3. loc[c].op = req[c].token /\ req[c].token \in ops \ tx[c].del
    BY <2>1, <2>2 DEF Commit, ApplyWrites, Applying
  <2>4. loc[c].victim \notin {None, loc[c].op} /\ Own(c, loc[c].victim)
    BY <2>1, <2>2, <2>3 DEF ApplyWrites, Closed
  <2> QED BY <2>1, <2>3, <2>4 DEF Applying, Own
<1> QED BY <1>1, WritersInvariant, PTL DEF Spec, SurvivingTokenHadSibling

-----------------------------------------------------------------------------
(* The pool, and who waits for whom *)

\* What a step of client c does to the pool.
PoolMoved(c) ==
  /\ \/ conn' = conn
     \/ conn' = conn \ {c}
     \/ PoolFree /\ conn' = conn \cup {c}
  /\ c \in conn' <=> HoldsConnection(c)'
  /\ pc'[c] \in {"closeFind", "closeRemove"} => tx'[c].del = {}

LEMMA MovedPool ==
  ASSUME NEW c \in Clients, PoolInv, Moved(c), PoolMoved(c)
  PROVE  PoolInv'
<1>1. IsFiniteSet(conn') /\ Cardinality(conn') <= PoolSize
  <2>1. IsFiniteSet(conn) /\ Cardinality(conn) \in Nat /\ Cardinality(conn) <= PoolSize
    BY FS_CardinalityType DEF PoolInv
  <2>2. CASE conn' = conn
    BY <2>1, <2>2
  <2>3. CASE conn' = conn \ {c}
    <3>1. /\ IsFiniteSet(conn \ {c})
          /\ Cardinality(conn \ {c}) = IF c \in conn THEN Cardinality(conn) - 1
                                       ELSE Cardinality(conn)
      BY <2>1, FS_RemoveElement
    <3>2. Cardinality(conn \ {c}) <= PoolSize
      BY <2>1, <3>1, BoundsAssumption
    <3> QED BY <2>3, <3>1, <3>2
  <2>4. CASE PoolFree /\ conn' = conn \cup {c}
    BY <2>1, <2>4, FS_AddElement, BoundsAssumption DEF PoolFree
  <2> QED BY <2>2, <2>3, <2>4 DEF PoolMoved
<1>2. ASSUME NEW d \in Clients PROVE d \in conn' <=> HoldsConnection(d)'
  <2>1. CASE d = c
    BY <2>1 DEF PoolMoved
  <2>2. CASE d # c
    <3>1. (d \in conn' <=> d \in conn) /\ pc'[d] = pc[d] /\ req'[d] = req[d]
      BY <2>2 DEF PoolMoved, Moved, SameClient
    <3> QED BY <3>1 DEF PoolInv, HoldsConnection
  <2> QED BY <2>1, <2>2
<1>3. ASSUME NEW d \in Clients
      PROVE  pc'[d] \in {"closeFind", "closeRemove"} => tx'[d].del = {}
  BY DEF PoolInv, PoolMoved, Moved, SameClient
<1> QED BY <1>1, <1>2, <1>3 DEF PoolInv

\* Whatever ends a request gives back the connection of the transaction it has started.
LEMMA EndPool ==
  ASSUME NEW c \in Clients, ShapeInv, End(c)
  PROVE  PoolMoved(c)
<1>1. pc'[c] = "idle" /\ conn' = conn \ {c}
  BY DEF End, ShapeInv, TypeOK
<1> QED BY <1>1 DEF PoolMoved, HoldsConnection

LEMMA OutsidePool ==
  ASSUME NEW c \in Clients, ShapeInv, PoolInv,
         Arrive(c) \/ LookupUser(c) \/ OpenSession(c) \/ Notify(c) \/ Fail(c)
  PROVE  PoolMoved(c)
<1>1. CASE Arrive(c)
  <2>1. pc[c] = "idle" /\ pc'[c] \in {"begin", "lookup"} /\ conn' = conn
    BY <1>1 DEF Arrive, Goto, ShapeInv, TypeOK
  <2> QED BY <2>1 DEF PoolMoved, PoolInv, HoldsConnection
<1>2. CASE LookupUser(c)
  <2>1. ASSUME ~End(c)
        PROVE  /\ pc[c] = "lookup" /\ conn' = conn /\ req' = req
               /\ \/ pc'[c] \in {"begin", "openSession"}
                  \/ pc'[c] = "checkEmail" /\ req[c].flow = "create"
    BY <1>2, <2>1 DEF LookupUser, Goto, ShapeInv, TypeOK
  <2>2. ASSUME ~End(c) PROVE PoolMoved(c)
    BY <2>1, <2>2 DEF PoolMoved, PoolInv, HoldsConnection
  <2> QED BY <2>2, EndPool
<1> QED BY <1>1, <1>2, EndPool DEF OpenSession, Notify, Fail

LEMMA OpeningPool ==
  ASSUME NEW c \in Clients, ShapeInv, PoolInv, Begin(c) \/ InsertUser(c) \/ FindOp(c)
  PROVE  PoolMoved(c)
<1>1. tx[c].del = {}
  <2>1. pc[c] \in {"begin", "insertUser", "findOp"}
    BY DEF Begin, InsertUser, FindOp
  <2>2. tx[c] = NoWrites
    BY <2>1 DEF ShapeInv, ClientInv, CleanInv
  <2> QED BY <2>2 DEF NoWrites
<1>2. CASE Begin(c)
  <2>1. /\ PoolFree /\ conn' = conn \cup {c} /\ tx' = tx
        /\ pc'[c] \in {"insertUser", "closeFind", "findOp"}
    BY <1>2 DEF Begin, Goto, ShapeInv, TypeOK
  <2> QED BY <1>1, <2>1 DEF PoolMoved, HoldsConnection
<1>3. CASE InsertUser(c)
  <2>1. ASSUME ~End(c)
        PROVE  /\ pc[c] = "insertUser" /\ pc'[c] = "closeFind"
               /\ conn' = conn /\ tx'[c].del = tx[c].del
    <3>1. /\ pc[c] = "insertUser" /\ pc' = [pc EXCEPT ![c] = "closeFind"]
          /\ conn' = conn /\ tx' = [tx EXCEPT ![c].upd = Columns]
      BY <1>3, <2>1 DEF InsertUser, Goto
    <3> QED BY <3>1 DEF ShapeInv, TypeOK, Writes
  <2>2. ASSUME ~End(c) PROVE PoolMoved(c)
    BY <1>1, <2>1, <2>2 DEF PoolMoved, PoolInv, HoldsConnection
  <2> QED BY <2>2, EndPool
<1>4. CASE FindOp(c)
  <2>1. /\ pc[c] = "findOp" /\ pc'[c] \in {"closeFind", "commit"}
        /\ conn' = conn /\ tx' = tx
    BY <1>4 DEF FindOp, Goto, ShapeInv, TypeOK
  <2> QED BY <1>1, <2>1 DEF PoolMoved, PoolInv, HoldsConnection
<1> QED BY <1>2, <1>3, <1>4

LEMMA ClosingPool ==
  ASSUME NEW c \in Clients, ShapeInv, PoolInv,
         CloseFind(c) \/ CloseRemove(c) \/ CheckEmail(c)
  PROVE  PoolMoved(c)
<1>1. CASE CloseFind(c) \/ CloseRemove(c)
  <2>1. /\ pc[c] \in {"closeFind", "closeRemove"} /\ conn' = conn /\ req' = req
        /\ \/ pc'[c] = AfterClose(c)
           \/ pc'[c] = "closeRemove" /\ tx' = tx
    BY <1>1 DEF CloseFind, CloseRemove, Goto, ShapeInv, TypeOK
  <2> QED BY <2>1 DEF PoolMoved, PoolInv, HoldsConnection, AfterClose
<1>2. CASE CheckEmail(c)
  <2>1. ASSUME ~End(c)
        PROVE  /\ pc[c] = "checkEmail" /\ conn' = conn /\ req' = req
               /\ pc'[c] = IF req[c].flow = "create" THEN "begin" ELSE "updateRead"
    BY <1>2, <2>1 DEF CheckEmail, Goto, ShapeInv, TypeOK
  <2>2. req[c].flow \in {"create", "apply"}
    BY <1>2, RequestFacts DEF CheckEmail, ShapeInv, ClientInv, FlowInv, FlowPCs
  <2>3. ASSUME ~End(c) PROVE PoolMoved(c)
    BY <2>1, <2>2, <2>3 DEF PoolMoved, PoolInv, HoldsConnection
  <2> QED BY <2>3, EndPool
<1> QED BY <1>1, <1>2

LEMMA WritingPool ==
  ASSUME NEW c \in Clients, ShapeInv, PoolInv,
         \/ InsertOp(c) \/ UpdateRead(c) \/ SaveLoad(c) \/ SaveWrite(c)
         \/ DropSessions(c) \/ Commit(c)
  PROVE  PoolMoved(c)
<1>1. CASE InsertOp(c) \/ UpdateRead(c) \/ SaveLoad(c) \/ DropSessions(c)
  <2>1. /\ pc[c] \in {"insertOp", "updateRead", "saveLoad", "dropSessions"} /\ conn' = conn
        /\ pc'[c] \in {"commit", "saveLoad", "saveWrite", "dropSessions"}
    BY <1>1 DEF InsertOp, UpdateRead, SaveLoad, DropSessions, AfterSave, Goto, ShapeInv, TypeOK
  <2> QED BY <2>1 DEF PoolMoved, PoolInv, HoldsConnection
<1>2. CASE SaveWrite(c)
  <2>1. ASSUME ~End(c)
        PROVE  pc[c] = "saveWrite" /\ conn' = conn /\ pc'[c] \in {"commit", "dropSessions"}
    BY <1>2, <2>1 DEF SaveWrite, AfterSave, Goto, ShapeInv, TypeOK
  <2>2. ASSUME ~End(c) PROVE PoolMoved(c)
    BY <2>1, <2>2 DEF PoolMoved, PoolInv, HoldsConnection
  <2> QED BY <2>2, EndPool
<1>3. CASE Commit(c)
  <2>1. ASSUME ~End(c)
        PROVE  /\ pc[c] = "commit" /\ pc'[c] = "notify" /\ req' = req
               /\ conn' = IF req[c].flow = "signUp" THEN conn ELSE conn \ {c}
    BY <1>3, <2>1 DEF Commit, Released, Goto, ShapeInv, TypeOK
  <2>2. ASSUME ~End(c) PROVE PoolMoved(c)
    BY <2>1, <2>2 DEF PoolMoved, PoolInv, HoldsConnection
  <2> QED BY <2>2, EndPool
<1> QED BY <1>1, <1>2, <1>3

LEMMA NextPool ==
  ASSUME ShapeInv, PoolInv, [Next]_vars
  PROVE  PoolInv'
<1>1. ASSUME NEW c \in Clients, Arrive(c) \/ Step(c) \/ Fail(c) PROVE PoolInv'
  <2>1. PoolMoved(c)
    BY <1>1, OutsidePool, OpeningPool, ClosingPool, WritingPool DEF Step
  <2> QED BY <1>1, <2>1, StepMoves, MovedPool
<1>2. ASSUME (\E t \in Uuids : Expire(t)) \/ UNCHANGED vars PROVE PoolInv'
  <2>1. UNCHANGED <<pc, req, conn, tx>>
    BY <1>2 DEF Expire, vars
  <2> QED BY <2>1 DEF PoolInv, HoldsConnection
<1> QED BY <1>1, <1>2 DEF Next

\* The pool gives out no more connections than it has, and every one of them belongs to
\* a request that has begun a transaction and not ended it: none leaks, whichever
\* statement fails (startTransaction to release in the auth service).
THEOREM PoolInvariant == Spec => []PoolInv
<1>1. Init => PoolInv
  BY FS_EmptySet, BoundsAssumption DEF Init, PoolInv, HoldsConnection
<1>2. ShapeInv /\ PoolInv /\ [Next]_vars => PoolInv'
  BY NextPool
<1> QED BY <1>1, <1>2, ShapeCorrect, PTL DEF Spec

\* Where a request is that has written something.
LEMMA Holders ==
  ASSUME NEW d \in Clients, ShapeInv, PoolInv
  PROVE  /\ tx[d].upd # {} => \/ req[d].flow = "signUp" /\ pc[d] \in Registering
                              \/ req[d].flow = "apply" /\ pc[d] \in {"dropSessions", "commit"}
         /\ tx[d].del # {} => \/ pc[d] \in {"insertOp", "commit"}
                              \/ req[d].flow = "apply" /\ pc[d] \in Closed
         /\ tx[d].ins # {} => pc[d] = "commit"
<1>1. ClientInv(d) /\ pc[d] \in PCs
  BY DEF ShapeInv, TypeOK
<1>2. CASE pc[d] = "idle"
  <2>1. tx[d] = NoWrites
    BY <1>1, <1>2 DEF ClientInv, IdleInv
  <2> QED BY <2>1 DEF NoWrites
<1>3. CASE pc[d] \in {"lookup", "begin", "insertUser", "findOp", "openSession", "notify"}
  <2>1. tx[d] = NoWrites
    BY <1>1, <1>3 DEF ClientInv, CleanInv
  <2> QED BY <2>1 DEF NoWrites
<1>4. CASE pc[d] \notin {"idle", "lookup", "begin", "insertUser", "findOp", "openSession", "notify"}
  <2>1. req[d] \in Requests /\ pc[d] \in FlowPCs(req[d].flow)
    BY <1>1, <1>4 DEF ClientInv, FlowInv
  <2>2. req[d].flow \in {"signUp", "create", "apply"}
    BY <1>4, <2>1, RequestFacts DEF FlowPCs
  <2>3. tx[d].ins # {} => pc[d] = "commit"
    BY <1>1 DEF ClientInv, WritesInv
  <2>4. pc[d] \in {"closeFind", "closeRemove"} => tx[d].del = {}
    BY DEF PoolInv
  <2>5. CASE req[d].flow = "signUp"
    BY <1>4, <2>1, <2>3, <2>4, <2>5 DEF FlowPCs, Registering
  <2>6. CASE req[d].flow = "create"
    <3>1. tx[d].upd = {}
      BY <1>1, <1>4, <2>6 DEF ClientInv, CreateInv
    <3>2. pc[d] = "checkEmail" => tx[d].del = {}
      BY <1>1, <2>6 DEF ClientInv, CreateInv, NoWrites
    <3> QED BY <1>4, <2>1, <2>3, <2>4, <2>6, <3>1, <3>2 DEF FlowPCs
  <2>7. CASE req[d].flow = "apply"
    <3>1. pc[d] \in Reading \cup Saving => tx[d].upd = {}
      BY <1>1, <1>4, <2>7 DEF ClientInv, ApplyInv
    <3> QED BY <1>4, <2>1, <2>3, <2>4, <2>7, <3>1 DEF FlowPCs, Reading, Saving, Closed
  <2> QED BY <2>2, <2>5, <2>6, <2>7
<1> QED BY <1>2, <1>3, <1>4

\* A sign-up shares its user with no request that removes operations.
LEMMA NobodyElsesUser ==
  ASSUME WritersInv, PoolInv, NEW c \in Clients, NEW d \in Clients, c # d,
         req[c].flow = "signUp", pc[c] \in Registering, tx[d].del # {}
  PROVE  loc[d].user # loc[c].user
<1>1. users[loc[c].user] = None
  BY DEF WritersInv, FreshInv
<1>2. pc[d] \in {"insertOp", "commit"} \/ (req[d].flow = "apply" /\ pc[d] \in Closed)
  BY Holders DEF WritersInv
<1>3. pc[d] # "idle" /\ ClientInv(d) /\ tx[d] # NoWrites
  BY <1>2 DEF Closed, NoWrites, WritersInv, ShapeInv
<1>4. req[d].flow \in {"signUp", "create", "apply"}
  <2>1. req[d] \in Requests /\ pc[d] \in FlowPCs(req[d].flow)
    BY <1>3 DEF ClientInv, FlowInv
  <2> QED BY <1>2, <2>1, RequestFacts DEF FlowPCs
<1>5. CASE req[d].flow = "signUp"
  <2>1. pc[d] \in Registering
    BY <1>2, <1>5 DEF Registering
  <2> QED BY <1>5, <2>1 DEF WritersInv, FreshInv
<1>6. CASE req[d].flow = "create"
  <2>1. Known(d)
    BY <1>2, <1>3, <1>6 DEF ClientInv, CreateInv
  <2> QED BY <1>1, <2>1 DEF Known
<1>7. CASE req[d].flow = "apply"
  <2>1. Applying(d)
    BY <1>2, <1>3, <1>7 DEF ClientInv, ApplyInv, FlowInv, FlowPCs, Closed, Reading, Saving
  <2> QED BY <1>1, <2>1 DEF Applying, Known
<1> QED BY <1>4, <1>5, <1>6, <1>7

\* Who has written a row of users waits for nobody.
LEMMA UpdatersRun ==
  ASSUME WritersInv, PoolInv, NEW d \in Clients, NEW e \in Clients, tx[d].upd # {}
  PROVE  ~WaitsFor(d, e)
<1> SUFFICES ASSUME WaitsFor(d, e) PROVE FALSE
  OBVIOUS
<1>1. d # e /\ pc[d] \in {"insertUser", "closeRemove", "insertOp", "saveWrite"}
  BY DEF WaitsFor
<1>2. req[d].flow = "signUp" /\ pc[d] \in {"closeRemove", "insertOp"}
  BY <1>1, Holders DEF WritersInv, Registering
<1>3. CASE pc[d] = "closeRemove"
  <2>1. loc[d].victim \in tx[e].del
    BY <1>3 DEF WaitsFor
  <2>2. Own(d, loc[d].victim) /\ Own(e, loc[d].victim)
    BY <1>3, <2>1 DEF WritersInv, ShapeInv, ClientInv, WritesInv
  <2>3. loc[e].user = loc[d].user
    BY <2>2 DEF Own
  <2> QED BY <1>1, <1>2, <2>1, <2>3, NobodyElsesUser DEF Registering
<1>4. CASE pc[d] = "insertOp"
  <2>1. "email" \in tx[e].upd /\ loc[e].user = loc[d].user
    BY <1>4 DEF WaitsFor
  <2> QED BY <1>1, <2>1 DEF WritersInv, RowLockInv
<1> QED BY <1>2, <1>3, <1>4

\* Only a removal waits for a request that waits itself, and that one is past its own.
LEMMA SecondInLine ==
  ASSUME WritersInv, PoolInv, NEW c \in Clients, NEW d \in Clients, NEW e \in Clients,
         WaitsFor(c, d), WaitsFor(d, e)
  PROVE  pc[c] = "closeRemove" /\ pc[d] \in {"insertOp", "saveWrite"}
<1>1. tx[d].upd = {}
  BY UpdatersRun
<1>2. pc[d] \in {"insertUser", "closeRemove", "insertOp", "saveWrite"}
  BY DEF WaitsFor
<1>3. tx[d].ins = {}
  BY <1>2, Holders DEF WritersInv
<1>4. pc[c] = "closeRemove" /\ tx[d].del # {}
  BY <1>1, <1>3 DEF WaitsFor
<1> QED BY <1>2, <1>4, Holders DEF WritersInv, Closed

\* Row locks, references and the unique index never close a circle of requests, for any
\* types and any number of requests: a request waits for one that waits for one that
\* waits for no lock, at most.
THEOREM LocksNeverCircle == Spec => []LockWaitsEnd
<1>1. WritersInv /\ PoolInv => LockWaitsEnd
  BY SecondInLine DEF LockWaitsEnd
<1> QED BY <1>1, WritersInvariant, PoolInvariant, PTL

\* Who is waited for has begun a transaction, so holds a connection.
LEMMA WaitedForHolds ==
  ASSUME WritersInv, PoolInv, NEW c \in Clients, NEW d \in Clients, WaitsFor(c, d)
  PROVE  d \in conn /\ d \in Waiting
<1>1. tx[d].upd # {} \/ tx[d].del # {} \/ tx[d].ins # {}
  BY DEF WaitsFor
<1>2. HoldsConnection(d)
  BY <1>1, Holders DEF WritersInv, Registering, Closed, HoldsConnection
<1> QED BY <1>2 DEF PoolInv, HoldsConnection, Waiting

\* When all requests wait for each other it is for connections: transactions hold the
\* whole pool, and one of them needs a second connection for a read outside it
\* (findOne without the query runner in apply, _close, _checkoutEmail and update).
THEOREM OnlyThePoolStops == Spec => []StuckOnlyByPool
<1>1. ASSUME WritersInv, PoolInv, Deadlocked PROVE PoolExhausted
  <2>1. conn \subseteq Waiting
    <3>1. conn \subseteq Clients
      BY <1>1 DEF WritersInv, ShapeInv, TypeOK
    <3> QED BY <1>1, <3>1 DEF PoolInv, HoldsConnection, Waiting
  <2>2. ASSUME NEW c \in Waiting, AwaitsConnection(c)
        PROVE  Cardinality(conn) = PoolSize
    <3>1. Cardinality(conn) \in Nat /\ Cardinality(conn) <= PoolSize
      BY <1>1, FS_CardinalityType DEF PoolInv
    <3> QED BY <2>2, <3>1, BoundsAssumption DEF AwaitsConnection, PoolFree
  <2>3. ASSUME NEW c \in Waiting, AwaitsConnection(c), c \in conn
        PROVE  PoolExhausted
    BY <2>1, <2>2, <2>3 DEF PoolExhausted, AwaitsConnection, Waiting
  <2>4. \A x \in Waiting : AwaitsConnection(x) \/ \E y \in Clients : WaitsFor(x, y)
    BY <1>1 DEF Deadlocked
  <2>5. ASSUME NEW c \in Clients, NEW d \in Clients, WaitsFor(c, d)
        PROVE  PoolExhausted
    <3>1. d \in conn /\ d \in Waiting
      BY <1>1, <2>5, WaitedForHolds
    <3>2. CASE AwaitsConnection(d)
      BY <2>3, <3>1, <3>2
    <3>3. CASE \E e \in Clients : WaitsFor(d, e)
      <4>1. PICK e \in Clients : WaitsFor(d, e)
        BY <3>3
      <4>2. e \in conn /\ e \in Waiting
        BY <1>1, <4>1, WaitedForHolds
      <4>3. ~\E f \in Clients : WaitsFor(e, f)
        <5>1. pc[d] \in {"insertOp", "saveWrite"}
          BY <1>1, <2>5, <4>1, SecondInLine
        <5> SUFFICES ASSUME NEW f \in Clients, WaitsFor(e, f) PROVE FALSE
          OBVIOUS
        <5>2. pc[d] = "closeRemove"
          BY <1>1, <4>1, SecondInLine
        <5> QED BY <5>1, <5>2
      <4> QED BY <2>3, <2>4, <4>2, <4>3
    <3> QED BY <2>4, <3>1, <3>2, <3>3
  <2>6. CASE \A c \in Waiting : AwaitsConnection(c)
    <3>1. Cardinality(conn) = PoolSize
      BY <1>1, <2>2, <2>6 DEF Deadlocked
    <3>2. conn # {}
      BY <3>1, FS_EmptySet, BoundsAssumption
    <3> QED BY <2>1, <2>3, <2>6, <3>2
  <2> QED BY <2>4, <2>5, <2>6 DEF Waiting
<1>2. WritersInv /\ PoolInv => StuckOnlyByPool
  BY <1>1 DEF StuckOnlyByPool
<1> QED BY <1>2, WritersInvariant, PoolInvariant, PTL

-----------------------------------------------------------------------------
(* One request at a time. *)

LEMMA SameOpen ==
  ASSUME ShapeInv, ops' = ops, Persist
  PROVE  \A u, type : OpenOps(u, type)' = OpenOps(u, type)
<1>1. \A t \in ops : meta'[t] = meta[t]
  BY DEF ShapeInv, OpsInv, TypeOK, Persist
<1> QED BY <1>1 DEF OpenOps

LEMMA NobodysOps ==
  ASSUME ShapeInv PROVE \A type : OpenOps(None, type) = {}
<1>1. \A t \in ops : meta[t].user # None
  BY NoneAssumption DEF ShapeInv, OpsInv, TypeOK, OpRow
<1> QED BY <1>1 DEF OpenOps

\* A step that keeps what the transaction removes, for the same user.
LEMMA StaysRemoved ==
  ASSUME NEW c \in Clients, SequentialInv, Moved(c), ops' = ops,
         Removed(c)' => Removed(c), pc'[c] # "closeRemove",
         Removed(c)' => /\ req'[c] = req[c] /\ loc'[c].user = loc[c].user
                        /\ tx'[c].del = tx[c].del
  PROVE  ClosingInv(c)'
<1>1. \A u, type : OpenOps(u, type)' = OpenOps(u, type)
  BY SameOpen DEF SequentialInv, WritersInv, Moved
<1> QED BY <1>1 DEF ClosingInv, SequentialInv

LEMMA EndRemoved ==
  ASSUME NEW c \in Clients, ShapeInv, End(c)
  PROVE  ClosingInv(c)' /\ pc'[c] = "idle"
BY DEF End, ClosingInv, Removed, Closed, ShapeInv, TypeOK

LEMMA CloseFindSequential ==
  ASSUME NEW c \in Clients, SequentialInv, CloseFind(c)
  PROVE  ClosingInv(c)'
<1> USE DEF SequentialInv, WritersInv, Goto
<1> DEFINE open == OpenOps(loc[c].user, req[c].type)
<1>1. /\ pc[c] = "closeFind" /\ UNCHANGED <<ops, meta, req, tx>>
      /\ req[c] \in Requests /\ req[c].flow \in {"signUp", "create", "apply"}
  BY RequestFacts DEF CloseFind, ShapeInv, ClientInv, FlowInv, FlowPCs, tables
<1>2. loc[c].user \in Users /\ req[c].type \in AllTypes
  <2>1. loc[c].user \in Users
    BY <1>1 DEF ShapeInv, ClientInv, SignUpInv, CreateInv, ApplyInv, Applying, Known,
                Inserted, Registering, Reading
  <2> QED BY <1>1, <2>1, RequestFacts, TypesAssumption
<1>3. CASE open = {} /\ loc' = loc /\ pc'[c] # "closeRemove"
  BY <1>1, <1>3 DEF ClosingInv, OpenOps
<1>4. ASSUME NEW t \in open, loc' = [loc EXCEPT ![c].victim = t], Goto(c, "closeRemove")
      PROVE  ClosingInv(c)'
  <2>1. open \subseteq {t}
    BY <1>2 DEF AtMostOneOpen
  <2>2. /\ loc'[c].victim = t /\ loc'[c].user = loc[c].user /\ pc'[c] = "closeRemove"
    BY <1>4 DEF ShapeInv, TypeOK, Locals
  <2> QED BY <1>1, <2>1, <2>2 DEF ClosingInv, Removed, Closed, OpenOps
<1> QED BY <1>3, <1>4, AfterCloseFacts DEF CloseFind, ShapeInv, TypeOK

LEMMA CloseRemoveSequential ==
  ASSUME NEW c \in Clients, SequentialInv, CloseRemove(c)
  PROVE  ClosingInv(c)'
<1> USE DEF SequentialInv, WritersInv, Goto
<1>1. /\ pc[c] = "closeRemove" /\ UNCHANGED <<ops, meta, req, loc>>
      /\ tx'[c].del = {loc[c].victim} \cap ops /\ pc'[c] # "closeRemove"
  BY AfterCloseFacts DEF CloseRemove, ShapeInv, TypeOK, Writes, tables
<1>2. OpenOps(loc[c].user, req[c].type) \subseteq {loc[c].victim} \cap ops
  BY <1>1 DEF ClosingInv, OpenOps
<1> QED BY <1>1, <1>2 DEF ClosingInv, OpenOps

LEMMA FindOpSequential ==
  ASSUME NEW c \in Clients, SequentialInv, FindOp(c)
  PROVE  ClosingInv(c)'
<1> USE DEF SequentialInv, WritersInv, Goto
<1>1. /\ pc[c] = "findOp" /\ loc[c] = NoLocals
      /\ UNCHANGED <<ops, meta, req, tx>>
  BY DEF FindOp, ShapeInv, ClientInv, CleanInv, tables
<1>2. CASE Goto(c, "closeFind")
  BY <1>2 DEF ClosingInv, Removed, Closed, ShapeInv, TypeOK
<1>3. CASE Goto(c, "commit") /\ UNCHANGED loc
  <2>1. pc'[c] = "commit" /\ loc'[c].user = None
    BY <1>1, <1>3 DEF ShapeInv, TypeOK, NoLocals
  <2>2. OpenOps(None, req[c].type) = {}
    BY NobodysOps
  <2> QED BY <1>1, <2>1, <2>2 DEF ClosingInv, OpenOps
<1> QED BY <1>2, <1>3 DEF FindOp

LEMMA QuietSequential ==
  ASSUME NEW c \in Clients, SequentialInv, Arrive(c) \/ Step(c) \/ Fail(c),
         ~Commit(c), ~CloseFind(c), ~CloseRemove(c), ~FindOp(c)
  PROVE  ClosingInv(c)'
<1> USE DEF SequentialInv, WritersInv, Goto, tables, outside, env
<1>1. CASE End(c)
  BY <1>1, EndRemoved
<1>2. CASE ~End(c) /\ ~InsertOp(c)
  <2>1. CASE Arrive(c)
    <3>1. ops' = ops /\ ~Removed(c)' /\ pc'[c] # "closeRemove"
      BY <2>1 DEF Arrive, Removed, Closed, ShapeInv, TypeOK
    <3> QED BY <2>1, <3>1, ArriveMoves, StaysRemoved
  <2>2. CASE LookupUser(c)
    <3>1. /\ ops' = ops /\ pc'[c] \in {"begin", "checkEmail", "openSession"}
          /\ pc'[c] = "checkEmail" => req[c].flow = "create" /\ req' = req
      BY <1>2, <2>2 DEF LookupUser, ShapeInv, TypeOK
    <3> QED BY <2>2, <3>1, LookupUserMoves, StaysRemoved DEF Removed, Closed
  <2>3. CASE Begin(c)
    <3>1. ops' = ops /\ pc'[c] \in {"insertUser", "closeFind", "findOp"}
      BY <2>3 DEF Begin, ShapeInv, TypeOK
    <3> QED BY <2>3, <3>1, BeginMoves, StaysRemoved DEF Removed, Closed
  <2>4. CASE InsertUser(c)
    <3>1. ops' = ops /\ pc'[c] = "closeFind"
      BY <1>2, <2>4 DEF InsertUser, ShapeInv, TypeOK
    <3> QED BY <2>4, <3>1, InsertUserMoves, StaysRemoved DEF Removed, Closed
  <2>5. CASE CheckEmail(c)
    <3>1. /\ ops' = ops /\ UNCHANGED <<req, loc, tx>> /\ pc[c] = "checkEmail"
          /\ pc'[c] = IF req[c].flow = "create" THEN "begin" ELSE "updateRead"
          /\ req[c].flow \in {"create", "apply"}
      BY <1>2, <2>5, RequestFacts
         DEF CheckEmail, ShapeInv, TypeOK, ClientInv, FlowInv, FlowPCs
    <3> QED BY <2>5, <3>1, CheckEmailMoves, StaysRemoved DEF Removed, Closed
  <2>6. CASE UpdateRead(c) \/ SaveLoad(c) \/ SaveWrite(c) \/ DropSessions(c)
    <3>1. /\ ops' = ops /\ req' = req /\ loc'[c].user = loc[c].user
          /\ tx'[c].del = tx[c].del
          /\ pc[c] \in {"updateRead", "saveLoad", "saveWrite", "dropSessions"}
          /\ pc'[c] \in {"saveLoad", "saveWrite", "dropSessions", "commit"}
      BY <1>2, <2>6 DEF UpdateRead, SaveLoad, SaveWrite, DropSessions, AfterSave,
           ShapeInv, TypeOK, Locals, Writes
    <3> QED BY <2>6, <3>1, UpdateReadMoves, SaveLoadMoves, SaveWriteMoves,
               DropSessionsMoves, StaysRemoved DEF Removed, Closed
  <2> QED BY <1>2, <2>1, <2>2, <2>3, <2>4, <2>5, <2>6
       DEF Step, Notify, OpenSession, Fail
<1>3. CASE InsertOp(c)
  <2>1. /\ pc[c] = "insertOp" /\ pc'[c] = "commit" /\ ops' = ops /\ req' = req
        /\ loc'[c].user = loc[c].user /\ tx'[c].del = tx[c].del
    BY <1>3 DEF InsertOp, ShapeInv, TypeOK, Locals, Writes
  <2> QED BY <1>3, <2>1, InsertOpMoves, StaysRemoved DEF Removed
<1> QED BY <1>1, <1>2, <1>3

\* A commit removes what was stored for its user and type, and stores at most one.
LEMMA CommitSequential ==
  ASSUME NEW c \in Clients, SequentialInv, Commit(c)
  PROVE  AtMostOneOpen' /\ ClosingInv(c)'
<1> USE DEF SequentialInv, WritersInv
<1>1. /\ pc[c] = "commit" /\ ops' = (ops \ tx[c].del) \cup tx[c].ins /\ meta' = meta
      /\ req[c].flow \in {"signUp", "create", "apply"}
  BY CommitRow DEF Commit
<1>2. OpenOps(loc[c].user, req[c].type) \subseteq tx[c].del
  BY <1>1 DEF ClosingInv, Removed, Closed
<1>3. \A t \in tx[c].ins : Own(c, t) /\ t = loc[c].op
  BY <1>1 DEF ShapeInv, ClientInv, WritesInv, ApplyWrites
<1>4. AtMostOneOpen'
  <2> SUFFICES ASSUME NEW u \in Users, NEW type \in AllTypes,
                      NEW s \in OpenOps(u, type)', NEW t \in OpenOps(u, type)'
               PROVE  s = t
    BY DEF AtMostOneOpen
  <2>1. \A r \in OpenOps(u, type)' : r \in tx[c].ins \/ r \in OpenOps(u, type) \ tx[c].del
    BY <1>1 DEF OpenOps
  <2>2. CASE u = loc[c].user /\ type = req[c].type
    BY <1>2, <1>3, <2>1, <2>2
  <2>3. CASE ~(u = loc[c].user /\ type = req[c].type)
    <3>1. \A r \in OpenOps(u, type)' : r \notin tx[c].ins
      BY <1>1, <1>3, <2>3 DEF Own, OpenOps
    <3> QED BY <2>1, <3>1 DEF AtMostOneOpen
  <2> QED BY <2>2, <2>3
<1>5. ClosingInv(c)'
  <2>1. pc'[c] \in {"idle", "notify"}
    BY DEF Commit, End, Goto, ShapeInv, TypeOK
  <2> QED BY <2>1 DEF ClosingInv, Removed, Closed
<1> QED BY <1>4, <1>5

LEMMA NextSequential ==
  ASSUME Sequential, SequentialInv, [Next]_vars
  PROVE  SequentialInv'
<1>1. WritersInv'
  BY NextWriters DEF SequentialInv
<1>2. ASSUME NEW c \in Clients, Arrive(c) \/ Step(c) \/ Fail(c)
      PROVE  AtMostOneOpen' /\ ClosingInv(c)'
  <2>1. CASE Commit(c)
    BY <2>1, CommitSequential
  <2>2. CASE ~Commit(c)
    <3>1. ops' = ops
      BY <1>2, <2>2 DEF Step, Arrive, LookupUser, Begin, InsertUser, FindOp, CloseFind,
         CloseRemove, InsertOp, CheckEmail, UpdateRead, SaveLoad, SaveWrite, DropSessions,
         Notify, OpenSession, Fail, tables
    <3>2. AtMostOneOpen'
      BY <1>2, <3>1, StepMoves, SameOpen DEF SequentialInv, WritersInv, Moved, AtMostOneOpen
    <3>3. ClosingInv(c)'
      BY <1>2, <2>2, CloseFindSequential, CloseRemoveSequential, FindOpSequential,
         QuietSequential
    <3> QED BY <3>2, <3>3
  <2> QED BY <2>1, <2>2
<1>3. ASSUME NEW c \in Clients, Arrive(c) \/ Step(c) \/ Fail(c)
      PROVE  AtMostOneOpen' /\ \A d \in Clients : ClosingInv(d)'
  BY <1>2, <1>3 DEF Sequential
<1>4. CASE (\E t \in Uuids : Expire(t)) \/ UNCHANGED vars
  <2>1. UNCHANGED <<ops, meta, pc, req, loc, tx>>
    BY <1>4, ExpireShape DEF SequentialInv, WritersInv
  <2>2. AtMostOneOpen' /\ \A d \in Clients : ClosingInv(d)'
    BY <2>1 DEF SequentialInv, AtMostOneOpen, ClosingInv, Removed, OpenOps
  <2> QED BY <1>1, <2>2 DEF SequentialInv
<1> QED BY <1>1, <1>3, <1>4 DEF SequentialInv, Next

LEMMA InitSequential == ASSUME Init PROVE SequentialInv
<1>1. AtMostOneOpen /\ \A c \in Clients : ClosingInv(c)
  BY DEF Init, AtMostOneOpen, ClosingInv, Removed, Closed, OpenOps
<1> QED BY <1>1, InitWriters DEF SequentialInv

\* When requests do not overlap, _close has found everything that is stored for its user
\* and type, and the transaction removes it (processors' _close, create and apply).
THEOREM SequentialInvariant == ASSUME Sequential PROVE Spec => []SequentialInv
<1>1. Init => SequentialInv
  BY InitSequential
<1>2. SequentialInv /\ [Next]_vars => SequentialInv'
  BY NextSequential
<1> QED BY <1>1, <1>2, PTL DEF Spec

LEMMA Few ==
  ASSUME NEW S, \A s, t \in S : s = t PROVE Cardinality(S) <= 1
<1>1. CASE S = {}
  BY <1>1, FS_EmptySet
<1>2. CASE S # {}
  <2>1. PICK s \in S : S = {s}
    BY <1>2
  <2>2. Cardinality({s}) = 1
    BY FS_Singleton
  <2> QED BY <2>1, <2>2
<1> QED BY <1>1, <1>2

\* When requests do not overlap, an account has at most one open operation of a type.
THEOREM OneOpenOpPerType == ASSUME Sequential PROVE Spec => []OneOpenOp
<1>1. SequentialInv => OneOpenOp
  BY Few, TypesAssumption DEF SequentialInv, AtMostOneOpen, OneOpenOp
<1> QED BY <1>1, SequentialInvariant, PTL

\* When requests do not overlap, the apply that commits with a token closes it.
THEOREM TokensWorkOnce == ASSUME Sequential PROVE Spec => AppliedTokenIsClosed
<1>1. ASSUME SequentialInv, [Next]_vars
      PROVE  [\A c \in Clients :
                pc[c] = "commit" /\ req[c].flow = "apply" /\ pc'[c] = "idle" /\ users' # users
                  => loc[c].op \notin ops']_vars
  <2> SUFFICES ASSUME NEW c \in Clients, pc[c] = "commit", pc'[c] = "idle", users' # users
               PROVE  loc[c].op \notin ops'
    OBVIOUS
  <2>1. Commit(c) /\ req[c].flow = "apply" /\ Applying(c)
    BY <1>1, AnsweredCommit DEF SequentialInv
  <2>2. OpenOps(loc[c].user, req[c].type) \subseteq tx[c].del
    BY <1>1 DEF SequentialInv, ClosingInv, Removed, Closed
  <2>3. tx[c].ins = {}
    BY <1>1, <2>1 DEF SequentialInv, WritersInv, ApplyWrites
  <2> QED BY <2>1, <2>2, <2>3 DEF Commit, Applying, Own, OpenOps
<1> QED BY <1>1, SequentialInvariant, PTL DEF Spec, AppliedTokenIsClosed
=============================================================================
