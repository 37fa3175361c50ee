--------------------------- MODULE LifecycleProofs ---------------------------
(***************************************************************************)
(* The routed system keeps addresses unique and lower-case, and implements *)
(* AccountLifecycle.  Both rest on RoutedInv (AccountsProofs) and on       *)
(* AddressInv, proved here.                                                *)
(***************************************************************************)
EXTENDS AccountsProofs

\* No step but an InsertUser makes a client one with an open registration.
KeepsAddress(c) ==
  Open(c)' => Open(c) /\ loc'[c].entity = loc[c].entity

\* What a step of client c that leaves users alone must re-establish.
Unmoved(c) == users' = users /\ KeepsAddress(c) /\ AppliedAddress(c)'

LEMMA UnmovedAddresses ==
  ASSUME NEW c \in Clients, AddressInv, Unmoved(c),
         \A d \in Clients \ {c} : SameClient(d)
  PROVE  AddressInv'
<1> USE DEF Unmoved
<1>1. UniqueEmails' /\ LowerCaseEmails' /\ \A e : Found(e)' = Found(e)
  BY DEF AddressInv, UniqueEmails, LowerCaseEmails, Found
<1>2. \A d \in Clients : Open(d)' => Open(d) /\ loc'[d].entity = loc[d].entity
  BY DEF KeepsAddress, SameClient, Open
<1>3. \A d \in Clients : RegisteredAddress(d)'
  BY <1>1, <1>2 DEF AddressInv, RegisteredAddress
<1>4. \A d \in Clients : AppliedAddress(d)'
  BY DEF AddressInv, AppliedAddress, SameClient
<1> QED BY <1>1, <1>3, <1>4 DEF AddressInv

LEMMA EndUnmoved ==
  ASSUME NEW c \in Clients, ShapeInv, End(c), users' = users
  PROVE  Unmoved(c)
BY DEF End, Unmoved, KeepsAddress, AppliedAddress, Open, Registering, ShapeInv, TypeOK

-----------------------------------------------------------------------------
(* Steps that neither insert a user nor commit *)

LEMMA ArrivingUnmoved ==
  ASSUME NEW c \in Clients, RoutedInv, Arrive(c) \/ LookupUser(c) \/ Begin(c)
  PROVE  Unmoved(c)
<1> USE DEF RoutedInv, ShapeInv
<1>1. CASE Arrive(c)
  <2>1. tx'[c] = NoWrites /\ users' = users /\ pc'[c] \in {"lookup", "begin"}
    BY <1>1 DEF Arrive, Goto, ClientInv, IdleInv, tables, TypeOK
  <2> QED BY <2>1 DEF Unmoved, KeepsAddress, AppliedAddress, Open, Registering, Saving,
                      NoWrites
<1>2. CASE LookupUser(c)
  <2>1. req[c].flow # "apply" /\ users' = users
    BY <1>2, RequestFacts DEF LookupUser, ClientInv, FlowInv, FlowPCs, tables
  <2>2. CASE End(c)
    BY <2>1, <2>2, EndUnmoved
  <2>3. CASE req' = req /\ pc'[c] \notin Registering
    BY <2>1, <2>3 DEF Unmoved, KeepsAddress, AppliedAddress, Open
  <2> QED BY <1>2, <2>2, <2>3 DEF LookupUser, Goto, TypeOK, Registering
<1>3. CASE Begin(c)
  <2>1. /\ tx'[c] = NoWrites /\ users' = users /\ req' = req
        /\ req[c].flow = "signUp" => pc'[c] = "insertUser"
        /\ pc'[c] \in {"insertUser", "closeFind", "findOp"}
    BY <1>3 DEF Begin, Goto, ClientInv, CleanInv, tables, TypeOK
  <2> QED BY <2>1 DEF Unmoved, KeepsAddress, AppliedAddress, Open, Registering, Saving,
                      NoWrites
<1> QED BY <1>1, <1>2, <1>3

LEMMA ClosingUnmoved ==
  ASSUME NEW c \in Clients, RoutedInv, AddressInv,
         FindOp(c) \/ CloseFind(c) \/ CloseRemove(c) \/ InsertOp(c) \/ CheckEmail(c)
  PROVE  Unmoved(c)
<1> USE DEF RoutedInv, ShapeInv
<1>1. users' = users
  BY DEF FindOp, CloseFind, CloseRemove, InsertOp, CheckEmail, tables
<1>2. CASE End(c)
  BY <1>1, <1>2, EndUnmoved
<1>3. CASE ~End(c)
  <2>1. /\ req' = req /\ loc'[c].entity = loc[c].entity /\ tx'[c].upd = tx[c].upd
        /\ pc[c] # "idle"
    <3>1. CASE FindOp(c)
      BY <3>1 DEF FindOp, TypeOK, Locals
    <3>2. CASE CloseFind(c) \/ CloseRemove(c) \/ CheckEmail(c)
      BY <1>3, <3>2 DEF CloseFind, CloseRemove, CheckEmail, TypeOK, Locals, Writes
    <3>3. CASE InsertOp(c)
      BY <3>3 DEF InsertOp, TypeOK, Locals, Writes
    <3> QED BY <3>1, <3>2, <3>3
  <2>2. pc'[c] \notin Saving
    BY <1>3, AfterCloseFacts
       DEF FindOp, CloseFind, CloseRemove, InsertOp, CheckEmail, Goto, TypeOK, Saving
  <2>3. pc[c] \in Registering \/ req[c].flow # "signUp"
    BY RequestFacts DEF FindOp, CloseFind, CloseRemove, InsertOp, CheckEmail, ClientInv,
         FlowInv, FlowPCs, Registering
  <2> QED BY <1>1, <2>1, <2>2, <2>3
       DEF Unmoved, KeepsAddress, AppliedAddress, Open, AddressInv, Saving
<1> QED BY <1>2, <1>3

LEMMA SavingUnmoved ==
  ASSUME NEW c \in Clients, RoutedInv, AddressInv, Types = RoutedTypes,
         UpdateRead(c) \/ SaveLoad(c) \/ SaveWrite(c) \/ DropSessions(c)
  PROVE  Unmoved(c)
<1> USE DEF RoutedInv, ShapeInv
<1>0. users' = users /\ pc[c] # "idle"
  BY DEF UpdateRead, SaveLoad, SaveWrite, DropSessions, tables
<1>1. /\ req[c] \in Requests /\ req[c].flow = "apply" /\ req[c].type \in {"su", "pr"}
  BY RequestFacts DEF UpdateRead, SaveLoad, SaveWrite, DropSessions, ClientInv,
       FlowInv, FlowPCs, RoutedTypes
<1>2. AppliedAddress(c)
  BY DEF AddressInv
<1>3. CASE UpdateRead(c)
  <2> DEFINE entity == Assigned(users[loc[c].user], req[c], meta[loc[c].op])
  <2>1. entity.email = users[loc[c].user].email
    BY <1>1 DEF Assigned
  <2> HIDE DEF entity
  <2>2. loc' = [loc EXCEPT ![c].entity = entity]
    BY <1>3 DEF UpdateRead, entity
  <2>3. /\ loc'[c].entity = entity /\ loc'[c].user = loc[c].user
        /\ pc'[c] = "saveLoad" /\ tx' = tx /\ req' = req
    BY <1>3, <2>2 DEF UpdateRead, Goto, TypeOK, Locals
  <2> QED BY <1>0, <1>1, <1>2, <2>1, <2>3
       DEF Unmoved, KeepsAddress, AppliedAddress, Open, Registering
<1>4. CASE SaveLoad(c)
  <2> DEFINE dirty == Dirty(loc[c].entity, users[loc[c].user])
  <2>1. "email" \notin dirty
    BY <1>0, <1>1, <1>2, <1>4 DEF SaveLoad, AppliedAddress, Saving, Dirty
  <2> HIDE DEF dirty
  <2>2. loc' = [loc EXCEPT ![c].dirty = dirty]
    BY <1>4 DEF SaveLoad, dirty
  <2>3. /\ loc'[c].entity = loc[c].entity /\ loc'[c].user = loc[c].user
        /\ loc'[c].dirty = dirty /\ tx' = tx /\ req' = req /\ pc[c] = "saveLoad"
    BY <1>4, <2>2 DEF SaveLoad, TypeOK, Locals
  <2> QED BY <1>0, <1>1, <1>2, <2>1, <2>3
       DEF Unmoved, KeepsAddress, AppliedAddress, Open, Saving
<1>5. CASE SaveWrite(c)
  <2>1. CASE End(c)
    BY <1>0, <2>1, EndUnmoved
  <2>2. CASE /\ tx' = [tx EXCEPT ![c].upd = loc[c].dirty]
             /\ Goto(c, AfterSave(c)) /\ UNCHANGED <<req, loc, conn>>
    <3>1. /\ tx'[c].upd = loc[c].dirty /\ pc'[c] \in {"commit", "dropSessions"}
          /\ pc[c] = "saveWrite"
      BY <1>5, <2>2 DEF SaveWrite, AfterSave, Goto, TypeOK, Writes
    <3> QED BY <1>0, <1>1, <1>2, <2>2, <3>1
         DEF Unmoved, KeepsAddress, AppliedAddress, Open, Saving
  <2> QED BY <1>5, <2>1, <2>2 DEF SaveWrite
<1>6. CASE DropSessions(c)
  <2>1. pc'[c] = "commit" /\ UNCHANGED <<req, loc, tx>>
    BY <1>6 DEF DropSessions, Goto, TypeOK
  <2> QED BY <1>0, <1>1, <1>2, <2>1
       DEF Unmoved, KeepsAddress, AppliedAddress, Open, Saving
<1> QED BY <1>3, <1>4, <1>5, <1>6

LEMMA AnswerUnmoved ==
  ASSUME NEW c \in Clients, RoutedInv, Notify(c) \/ OpenSession(c) \/ Fail(c)
  PROVE  Unmoved(c)
BY EndUnmoved DEF RoutedInv, Notify, OpenSession, Fail, tables

-----------------------------------------------------------------------------
(* Steps that insert a user or commit *)

\* The address was looked for by the unique index, committed and pending.
LEMMA InsertUserAddresses ==
  ASSUME NEW c \in Clients, RoutedInv, AddressInv, InsertUser(c)
  PROVE  AddressInv'
<1> USE DEF RoutedInv, ShapeInv
<1> DEFINE e == StoredEmail(req[c])
<1>0. /\ pc[c] = "insertUser" /\ req[c] \in Requests /\ req[c].flow = "signUp"
      /\ users' = users /\ \A d \in Clients \ {c} : SameClient(d)
  BY InsertUserMoves, RequestFacts DEF InsertUser, ClientInv, FlowInv, FlowPCs, tables, Moved
<1>1. CASE End(c)
  BY <1>0, <1>1, EndUnmoved, UnmovedAddresses
<1>2. CASE ~End(c)
  <2>1. /\ pc'[c] = "closeFind" /\ req'[c] = req[c] /\ ~EmailTaken(None, e)
        /\ loc'[c].entity = [email |-> e, password |-> req[c].password, verified |-> FALSE]
    <3> DEFINE fresh == [email |-> e, password |-> req[c].password, verified |-> FALSE]
    <3>1. /\ ~EmailTaken(None, e) /\ Goto(c, "closeFind") /\ UNCHANGED req
          /\ \E u \in FreshUsers :
               loc' = [loc EXCEPT ![c] = [@ EXCEPT !.user = u, !.entity = fresh]]
      BY <1>2, Zenon DEF InsertUser
    <3> HIDE DEF fresh
    <3>2. loc'[c].entity = fresh
      BY <3>1 DEF TypeOK, Locals
    <3>3. pc'[c] = "closeFind" /\ req'[c] = req[c]
      BY <3>1 DEF Goto, TypeOK
    <3> QED BY <3>1, <3>2, <3>3 DEF fresh
  <2>2. e \in Emails /\ Lower[e] = e
    BY <1>0, RequestFacts, LowerAssumption DEF StoredEmail
  <2>3. Found(e) = {}
    BY <2>1, NoneAssumption DEF EmailTaken, Found
  <2>4. ASSUME NEW d \in Clients \ {c}, Open(d) PROVE loc[d].entity.email # e
    <3>1. tx[d].upd = Columns
      BY <2>4 DEF Open, Registering, ClientInv, SignUpInv, Inserted
    <3>2. ~EmailPending(c, e)
      BY Zenon DEF InsertUser
    <3> QED BY <3>1, <3>2 DEF EmailPending, Columns
  <2>5. UniqueEmails' /\ LowerCaseEmails' /\ \A x : Found(x)' = Found(x)
    BY <1>0 DEF AddressInv, UniqueEmails, LowerCaseEmails, Found
  <2> HIDE DEF e
  <2>6. RegisteredAddress(c)' /\ AppliedAddress(c)'
    BY <1>0, <2>1, <2>2, <2>3, <2>4, <2>5
       DEF RegisteredAddress, AppliedAddress, Open, SameClient
  <2>7. ASSUME NEW d \in Clients \ {c} PROVE RegisteredAddress(d)' /\ AppliedAddress(d)'
    <3>1. \A a \in Clients \ {c} : Open(a)' => Open(a) /\ loc'[a] = loc[a]
      BY <1>0 DEF Open, SameClient
    <3>2. RegisteredAddress(d)'
      BY <2>1, <2>4, <2>5, <3>1 DEF AddressInv, RegisteredAddress
    <3> QED BY <1>0, <3>2 DEF AddressInv, AppliedAddress, SameClient
  <2> QED BY <2>5, <2>6, <2>7 DEF AddressInv
<1> QED BY <1>1, <1>2

\* Rows are equal when their columns are.
LEMMA SameRow ==
  ASSUME NEW r \in UserRow, NEW s \in UserRow,
         r.email = s.email, r.password = s.password, r.verified = s.verified
  PROVE  r = s
BY DEF UserRow

\* The two ways an apply changes a row, column by column.
LEMMA ChangedRow ==
  ASSUME NEW row \in UserRow, NEW p \in Passwords
  PROVE  /\ [row EXCEPT !.verified = TRUE] =
              [email |-> row.email, password |-> row.password, verified |-> TRUE]
         /\ [row EXCEPT !.password = p] =
              [email |-> row.email, password |-> p, verified |-> row.verified]
<1> DEFINE v == [row EXCEPT !.verified = TRUE]
           w == [row EXCEPT !.password = p]
<1>1. /\ v \in UserRow /\ v.email = row.email /\ v.verified = TRUE
      /\ v.password = row.password
  BY DEF UserRow
<1>2. /\ w \in UserRow /\ w.email = row.email /\ w.password = p
      /\ w.verified = row.verified
  BY DEF UserRow
<1> HIDE DEF v, w
<1>3. v = [email |-> row.email, password |-> row.password, verified |-> TRUE]
  BY <1>1, SameRow DEF UserRow
<1>4. w = [email |-> row.email, password |-> p, verified |-> row.verified]
  BY <1>2, SameRow DEF UserRow
<1> QED BY <1>3, <1>4 DEF v, w

\* What a commit does to the account of its client, if anything.
LEMMA CommitAccount ==
  ASSUME NEW c \in Clients, RoutedInv, AddressInv, Commit(c), Types = RoutedTypes,
         users' # users
  PROVE  LET u == loc[c].user
             row == users[u]
             entity == loc[c].entity IN
         /\ u \in Users
         /\ \A v \in Users \ {u} : users'[v] = users[v]
         /\ \/ /\ Open(c) /\ row = None
               /\ users'[u] = entity /\ entity \in UserRow
            \/ /\ req[c].flow = "apply" /\ row \in UserRow
               /\ req[c].token \in mails
               /\ meta[req[c].token].user = u /\ meta[req[c].token].type = req[c].type
               /\ \/ /\ req[c].type = "su"
                     /\ users'[u] = [row EXCEPT !.verified = TRUE]
                  \/ /\ req[c].type = "pr" /\ row.verified
                     /\ entity.password \in Passwords
                     /\ users'[u] = [row EXCEPT !.password = entity.password]
<1> USE DEF RoutedInv, ShapeInv
<1> DEFINE u == loc[c].user
           row == users[u]
           entity == loc[c].entity
<1>1. /\ pc[c] = "commit" /\ tx[c].upd # {}
      /\ users' = [users EXCEPT ![u] = Patch(@, entity, tx[c].upd)]
  BY DEF Commit
<1>2. CASE req[c].flow = "signUp"
  <2>1. Inserted(c) /\ Open(c) /\ row = None
    BY <1>1, <1>2, CommitUsers DEF ClientInv, SignUpInv, Registering, Open
  <2>2. Patch(row, entity, Columns) = entity
    BY <2>1 DEF Inserted, Patch, Columns, UserRow
  <2> QED BY <1>1, <1>2, <2>1, <2>2 DEF Inserted, TypeOK
<1>3. CASE req[c].flow = "apply"
  <2>1. /\ Applying(c) /\ users'[u].verified /\ req[c].type \in {"su", "pr"}
    BY <1>1, <1>3, CommitUsers DEF NoWrites
  <2>2. /\ u \in Users /\ u # None /\ row \in UserRow /\ entity \in Entity
        /\ loc[c].op = req[c].token /\ Own(c, loc[c].op)
    BY <1>1, <1>3, <2>1, NoneAssumption DEF Applying, Known, ClientInv, ApplyInv, TypeOK
  <2>3. /\ "email" \notin tx[c].upd
        /\ "password" \in tx[c].upd => req[c].type = "pr" /\ entity.password \in Passwords
        /\ req[c].token \in mails
        /\ req[c].type = "pr" => row.verified
    BY <1>1, <1>3, <2>2
       DEF AddressInv, AppliedAddress, ClientInv, ApplyInv, VerifiedInv, Verified
  <2>4. /\ users'[u] = Patch(row, entity, tx[c].upd)
        /\ \A v \in Users \ {u} : users'[v] = users[v]
    BY <1>1, <2>2 DEF TypeOK
  <2>5. users'[u] # row
    BY <1>1, <2>2, <2>4 DEF TypeOK
  <2> DEFINE password == IF "password" \in tx[c].upd THEN entity.password ELSE row.password
  <2>6. users'[u] = [email |-> row.email, password |-> password, verified |-> TRUE]
    <3>1. users'[u] = [email |-> row.email, password |-> password,
                       verified |-> users'[u].verified]
      BY <2>3, <2>4 DEF Patch
    <3>2. users'[u].verified \in BOOLEAN
      BY <2>2, <2>4 DEF Patch, UserRow, Entity
    <3> QED BY <2>1, <3>1, <3>2
  <2>7. CASE req[c].type = "su"
    <3>1. password = row.password
      BY <2>3, <2>7
    <3>2. users'[u] = [row EXCEPT !.verified = TRUE]
      <4>1. row.password \in Passwords
        BY <2>2 DEF UserRow
      <4> QED BY <2>2, <2>6, <3>1, <4>1, ChangedRow
    <3> QED BY <1>3, <2>2, <2>3, <2>4, <2>7, <3>2 DEF Own
  <2>8. CASE req[c].type = "pr"
    <3>1. row.verified = TRUE
      BY <2>2, <2>3, <2>8 DEF UserRow
    <3>2. row = [email |-> row.email, password |-> row.password, verified |-> TRUE]
      BY <2>2, <3>1 DEF UserRow
    <3>3. password = entity.password /\ entity.password \in Passwords
      BY <2>3, <2>5, <2>6, <3>2
    <3>4. users'[u] = [row EXCEPT !.password = entity.password]
      <4>1. [row EXCEPT !.password = entity.password] =
              [email |-> row.email, password |-> entity.password, verified |-> TRUE]
        BY <2>2, <3>1, <3>3, ChangedRow, ZenonT(60)
      <4> QED BY <2>6, <3>3, <4>1
    <3> QED BY <1>3, <2>2, <2>3, <2>4, <2>8, <3>3, <3>4 DEF Own
  <2> QED BY <2>1, <2>7, <2>8
<1> QED BY <1>1, <1>2, <1>3, CommitUsers

\* The clients that do not move keep their address invariants when no committed
\* account moves and no open registration's address is taken.
LEMMA OthersKeep ==
  ASSUME NEW c \in Clients, RoutedInv, AddressInv,
         \A d \in Clients \ {c} : SameClient(d),
         pc'[c] \notin Registering, KeepsAddress(c), AppliedAddress(c)',
         \A v \in Users : users[v] # None => users'[v].email = users[v].email,
         \A d \in Clients \ {c} : Open(d) => Found(loc[d].entity.email)' = {},
         UniqueEmails', LowerCaseEmails'
  PROVE  AddressInv'
<1> USE DEF RoutedInv, ShapeInv
<1>1. \A d \in Clients : Open(d)' => d # c /\ Open(d) /\ loc'[d] = loc[d]
  BY DEF Open, SameClient
<1>2. \A d \in Clients : RegisteredAddress(d)'
  BY <1>1 DEF AddressInv, RegisteredAddress
<1>3. ASSUME NEW d \in Clients \ {c} PROVE AppliedAddress(d)'
  <2>1. pc[d] \in Saving /\ req[d].flow = "apply" => Known(d)
    BY DEF ClientInv, ApplyInv, Applying, Saving
  <2> QED BY <2>1 DEF AddressInv, AppliedAddress, SameClient, Known, Saving
<1> QED BY <1>2, <1>3 DEF AddressInv

LEMMA CommitAddresses ==
  ASSUME NEW c \in Clients, RoutedInv, AddressInv, Commit(c), Types = RoutedTypes
  PROVE  AddressInv'
<1> USE DEF RoutedInv, ShapeInv
<1>0. /\ pc'[c] = "idle" \/ (pc'[c] = "notify" /\ req'[c].flow # "apply")
      /\ \A d \in Clients \ {c} : SameClient(d)
  <2>1. \A d \in Clients \ {c} : SameClient(d)
    BY CommitMoves DEF Moved
  <2>2. CASE End(c)
    BY <2>1, <2>2 DEF End, TypeOK
  <2>3. CASE req[c].flow # "apply" /\ Goto(c, "notify") /\ UNCHANGED req
    BY <2>1, <2>3 DEF Goto, TypeOK
  <2> QED BY <2>2, <2>3 DEF Commit
<1>1. KeepsAddress(c) /\ AppliedAddress(c)'
  BY <1>0 DEF KeepsAddress, AppliedAddress, Open, Registering
<1>2. CASE users' = users
  BY <1>0, <1>1, <1>2, UnmovedAddresses DEF Unmoved
<1>3. CASE users' # users
  <2> DEFINE u == loc[c].user
             e == loc[c].entity.email
  <2>1. u \in Users /\ \A v \in Users \ {u} : users'[v] = users[v]
    BY <1>3, CommitAccount
  <2>2. \A v \in Users : users[v] # None => users'[v].email = users[v].email
    <3>1. CASE users[u] = None
      BY <2>1, <3>1
    <3>2. CASE users[u] # None
      <4>1. PICK p :
              /\ users[u] \in UserRow
              /\ \/ users'[u] = [users[u] EXCEPT !.verified = TRUE]
                 \/ users'[u] = [users[u] EXCEPT !.password = p]
        BY <1>3, <3>2, CommitAccount
      <4>2. users'[u].email = users[u].email
        BY <4>1 DEF UserRow
      <4> QED BY <2>1, <4>2
    <3> QED BY <3>1, <3>2
  <2>3. CASE Open(c)
    <3>1. users[u] = None /\ users'[u] = loc[c].entity /\ loc[c].entity \in UserRow
      BY <1>3, <2>3, CommitAccount DEF Open
    <3>2. Found(e) = {} /\ Lower[e] = e
      BY <2>3 DEF AddressInv, RegisteredAddress
    <3>3. UniqueEmails' /\ LowerCaseEmails'
      BY <2>1, <3>1, <3>2 DEF AddressInv, UniqueEmails, LowerCaseEmails, Found
    <3>4. ASSUME NEW d \in Clients \ {c}, Open(d) PROVE Found(loc[d].entity.email)' = {}
      <4>1. /\ Found(loc[d].entity.email) = {} /\ loc[d].entity.email # e
            /\ loc'[d] = loc[d]
        BY <1>0, <2>3, <3>4 DEF AddressInv, RegisteredAddress, SameClient
      <4> QED BY <2>1, <3>1, <4>1 DEF Found
    <3> QED BY <1>0, <1>1, <2>2, <3>3, <3>4, OthersKeep DEF Registering
  <2>4. CASE ~Open(c)
    <3>1. users[u] \in UserRow /\ users'[u] \in UserRow
      BY ZenonT(60), <1>3, <2>4, CommitAccount DEF UserRow
    <3>2. \A v \in Users : users'[v] # None <=> users[v] # None
      BY <2>1, <3>1, NotNone
    <3>3. UniqueEmails' /\ LowerCaseEmails'
      BY <2>2, <3>2 DEF AddressInv, UniqueEmails, LowerCaseEmails
    <3>4. \A d \in Clients \ {c} : Open(d) => Found(loc[d].entity.email)' = {}
      BY <1>0, <2>2, <3>2 DEF AddressInv, RegisteredAddress, Found, SameClient
    <3> QED BY <1>0, <1>1, <2>2, <3>3, <3>4, OthersKeep DEF Registering
  <2> QED BY <2>3, <2>4
<1> QED BY <1>2, <1>3

LEMMA NextAddresses ==
  ASSUME RoutedInv, AddressInv, [Next]_vars, Types = RoutedTypes
  PROVE  AddressInv'
<1>1. ASSUME NEW c \in Clients, Arrive(c) \/ Step(c) \/ Fail(c) PROVE AddressInv'
  <2>1. CASE Unmoved(c)
    BY <1>1, <2>1, StepMoves, UnmovedAddresses DEF RoutedInv, Moved
  <2>2. CASE ~Unmoved(c)
    BY <1>1, <2>2, ArrivingUnmoved, ClosingUnmoved, SavingUnmoved, AnswerUnmoved,
       InsertUserAddresses, CommitAddresses DEF Step
  <2> QED BY <2>1, <2>2
<1>2. CASE (\E t \in Uuids : Expire(t)) \/ UNCHANGED vars
  <2>1. UNCHANGED <<users, pc, req, loc, tx>>
    BY <1>2, ExpireShape DEF RoutedInv
  <2> QED BY <2>1 DEF AddressInv, UniqueEmails, LowerCaseEmails, RegisteredAddress,
                      AppliedAddress, Open, Found
<1> QED BY <1>1, <1>2 DEF Next

\* In the routed system the addresses of accounts and of open registrations stay
\* lower-case and distinct, and no confirmation or recovery moves an account.
THEOREM AddressesInvariant ==
  ASSUME Types = RoutedTypes PROVE Spec => [](RoutedInv /\ AddressInv)
<1>1. Init => AddressInv
  BY DEF Init, AddressInv, UniqueEmails, LowerCaseEmails, RegisteredAddress,
         AppliedAddress, Open, Registering
<1>2. RoutedInv /\ AddressInv /\ [Next]_vars => AddressInv'
  BY NextAddresses
<1> QED BY <1>1, <1>2, RoutedInvariant, PTL DEF Spec

\* No two accounts share an address, however sign-ups that looked it up at the same
\* time interleave.
THEOREM AddressesAreUnique == ASSUME Types = RoutedTypes PROVE Spec => []UniqueEmails
<1>1. AddressInv => UniqueEmails
  BY DEF AddressInv
<1> QED BY <1>1, AddressesInvariant, PTL

\* Every stored address is lower-case, as sign-in looks it up.
THEOREM AddressesAreLowerCase == ASSUME Types = RoutedTypes PROVE Spec => []LowerCaseEmails
<1>1. AddressInv => LowerCaseEmails
  BY DEF AddressInv
<1> QED BY <1>1, AddressesInvariant, PTL

-----------------------------------------------------------------------------
(* Refinement *)

\* A step that mails nothing leaves the mailed tokens as they are.
LEMMA SameMailed ==
  ASSUME RoutedInv, Persist, mails' = mails
  PROVE  MailedTokens' = MailedTokens
<1>1. \A t \in mails : meta'[t] = meta[t]
  BY DEF RoutedInv, ShapeInv, OpsInv, TypeOK, Persist
<1> QED BY <1>1 DEF MailedTokens

\* Nothing the owners of accounts could tell.
Stutter == UNCHANGED <<users, MailedTokens, cache>>

LEMMA CommitMaps ==
  ASSUME NEW c \in Clients, RoutedInv, AddressInv, Commit(c), Types = RoutedTypes
  PROVE  Lifecycle!Next \/ Stutter
<1> DEFINE u == loc[c].user
           t == req[c].token
           entity == loc[c].entity
<1>0. MailedTokens' = MailedTokens /\ cache' = cache
  BY CommitMoves, SameMailed DEF RoutedInv, Moved, Commit, outside
<1>1. CASE users' = users
  BY <1>0, <1>1 DEF Stutter
<1>2. CASE users' # users /\ users[u] = None
  <2>1. /\ u \in Users /\ Open(c) /\ users'[u] = entity /\ entity \in UserRow
        /\ \A v \in Users \ {u} : users'[v] = users[v]
    BY <1>2, CommitAccount, NotNone
  <2>2. RegisteredAddress(c) /\ entity.email \in Emails /\ entity.password \in Passwords
    BY <2>1 DEF AddressInv, UserRow
  <2>3. entity = [email |-> entity.email, password |-> entity.password, verified |-> FALSE]
    BY <2>1, <2>2 DEF RegisteredAddress, UserRow
  <2>4. users' = [users EXCEPT ![u] = entity]
    BY <2>1 DEF Commit, RoutedInv, ShapeInv, TypeOK
  <2>5. Lifecycle!Register(u, entity.email, entity.password)
    BY <1>0, <1>2, <2>1, <2>2, <2>3, <2>4
       DEF Lifecycle!Register, Lifecycle!Exists, RegisteredAddress, Found
  <2> QED BY <2>1, <2>2, <2>5 DEF Lifecycle!Next
<1>3. CASE users' # users /\ users[u] # None
  <2>1. /\ u \in Users /\ t \in mails /\ t \in Uuids
        /\ meta[t].user = u /\ meta[t].type = req[c].type
        /\ users' = [users EXCEPT ![u] = users'[u]]
        /\ \/ /\ req[c].type = "su"
              /\ users'[u] = [users[u] EXCEPT !.verified = TRUE]
           \/ /\ req[c].type = "pr" /\ users[u].verified
              /\ entity.password \in Passwords
              /\ users'[u] = [users[u] EXCEPT !.password = entity.password]
    BY <1>3, CommitAccount DEF Commit, RoutedInv, ShapeInv, TypeOK
  <2>2. MailedTokens[t] = [user |-> u, type |-> req[c].type]
    BY <2>1 DEF MailedTokens
  <2>3. CASE req[c].type = "su"
    <3>1. Lifecycle!Confirm(t, u)
      BY <1>0, <1>3, <2>1, <2>2, <2>3
         DEF Lifecycle!Confirm, Lifecycle!Exists, Lifecycle!TokenFor
    <3> QED BY <2>1, <3>1 DEF Lifecycle!Next
  <2>4. CASE req[c].type = "pr"
    <3>1. Lifecycle!Recover(t, u, entity.password)
      BY <1>0, <1>3, <2>1, <2>2, <2>4
         DEF Lifecycle!Recover, Lifecycle!Exists, Lifecycle!TokenFor
    <3> QED BY <2>1, <2>4, <3>1 DEF Lifecycle!Next
  <2> QED BY <2>1, <2>3, <2>4
<1> QED BY <1>1, <1>2, <1>3

LEMMA NotifyMaps ==
  ASSUME NEW c \in Clients, RoutedInv, Notify(c), Types = RoutedTypes
  PROVE  Lifecycle!Next \/ Stutter
<1> USE DEF RoutedInv, ShapeInv
<1> DEFINE u == loc[c].user
           t == loc[c].op
           type == req[c].type
<1>0. UNCHANGED <<users, meta, cache>>
  BY DEF Notify, tables
<1>1. /\ t \in Uuids /\ meta[t] # None /\ meta[t].user = u /\ meta[t].type = type
      /\ u \in Users /\ users[u] # None /\ u # None /\ type \in {"su", "pr"}
      /\ type = "pr" => users[u].verified
  <2>1. Own(c, t) /\ Known(c) /\ req[c] \in Requests /\ pc[c] # "idle" /\ pc[c] # "lookup"
    BY RequestFacts DEF Notify, ClientInv, WritesInv, FlowInv, FlowPCs, SignUpInv, CreateInv
  <2>2. type = "pr" => Verified(c)
    BY <2>1, NoneAssumption DEF VerifiedInv, Known
  <2> QED BY <2>1, <2>2, RequestFacts, NoneAssumption
       DEF Own, Known, Verified, RoutedTypes
<1>2. CASE mails' = mails \/ t \in mails
  <2>1. mails' = mails
    BY <1>2 DEF Notify, Mailed
  <2> QED BY <1>0, <2>1 DEF Stutter, MailedTokens
<1>3. CASE mails' = Mailed(c) /\ t \notin mails
  <2>1. MailedTokens[t] = None
    BY <1>1, <1>3 DEF MailedTokens
  <2>2. MailedTokens' = [MailedTokens EXCEPT ![t] = [user |-> u, type |-> type]]
    BY <1>0, <1>1, <1>3 DEF MailedTokens, Mailed
  <2>3. Lifecycle!Mail(t, u, type)
    BY <1>0, <1>1, <2>1, <2>2 DEF Lifecycle!Mail, Lifecycle!Exists, Lifecycle!TokenFor
  <2> QED BY <1>1, <2>3 DEF Lifecycle!Next
<1> QED BY <1>2, <1>3 DEF Notify

LEMMA OpenSessionMaps ==
  ASSUME NEW c \in Clients, RoutedInv, OpenSession(c)
  PROVE  Lifecycle!Next
<1> DEFINE u == loc[c].user
<1>1. u \in Users /\ users[u] # None /\ users[u].verified
  BY DEF OpenSession, RoutedInv, VerifiedInv, Verified, Known
<1>2. PICK s \in FreshUuids : cache' = cache \cup {<<u, s>>}
  BY DEF OpenSession
<1>3. /\ s \in Uuids /\ \A v \in Users : <<v, s>> \notin cache
      /\ UNCHANGED <<users, mails, meta>>
  BY DEF OpenSession, FreshUuids, tables
<1>4. Lifecycle!SignIn(u, s)
  BY <1>1, <1>2, <1>3 DEF Lifecycle!SignIn, Lifecycle!Exists, MailedTokens
<1> QED BY <1>1, <1>3, <1>4 DEF Lifecycle!Next

\* The key dropAll deletes is none of a session.
LEMMA DropSessionsMaps ==
  ASSUME NEW c \in Clients, RoutedInv, DropSessions(c)
  PROVE  Stutter
<1>1. cache' = cache
  BY StarAssumption DEF DropSessions, RoutedInv, ShapeInv, TypeOK
<1> QED BY <1>1 DEF Stutter, DropSessions, MailedTokens, tables

LEMMA NextMaps ==
  ASSUME RoutedInv, AddressInv, [Next]_vars, Types = RoutedTypes
  PROVE  Lifecycle!Next \/ Stutter
<1>1. ASSUME NEW c \in Clients, Arrive(c) \/ Step(c) \/ Fail(c)
      PROVE  Lifecycle!Next \/ Stutter
  <2>1. CASE Commit(c) \/ Notify(c) \/ OpenSession(c) \/ DropSessions(c)
    BY <2>1, CommitMaps, NotifyMaps, OpenSessionMaps, DropSessionsMaps
  <2>2. CASE UNCHANGED <<users, mails, cache>>
    BY <1>1, <2>2, StepMoves, SameMailed DEF RoutedInv, Moved, Stutter
  <2>3. UNCHANGED <<users, mails, cache>>
        \/ Commit(c) \/ Notify(c) \/ OpenSession(c) \/ DropSessions(c)
    BY <1>1 DEF Step, Arrive, LookupUser, Begin, InsertUser, FindOp, CloseFind,
         CloseRemove, InsertOp, CheckEmail, UpdateRead, SaveLoad, SaveWrite, Fail,
         tables, outside
  <2> QED BY <2>1, <2>2, <2>3
<1>2. CASE (\E t \in Uuids : Expire(t)) \/ UNCHANGED vars
  BY <1>2, ExpireShape DEF RoutedInv, Stutter, MailedTokens
<1> QED BY <1>1, <1>2 DEF Next

\* The routed system implements the life of an account: whatever requests overlap,
\* fail and roll back, users, mailed tokens and sessions change by registrations,
\* mails, confirmations, recoveries and sign-ins only, each at once and under the
\* conditions AccountLifecycle gives it.
THEOREM AccountsImplementLifecycle ==
  ASSUME Types = RoutedTypes PROVE Spec => ImplementsLifecycle
<1>1. Init => Lifecycle!Init
  BY DEF Init, Lifecycle!Init, MailedTokens
<1>2. RoutedInv /\ AddressInv /\ [Next]_vars
        => [Lifecycle!Next]_(Lifecycle!lifecycleVars)
  BY NextMaps DEF Stutter, Lifecycle!lifecycleVars
<1> QED BY <1>1, <1>2, AddressesInvariant, PTL
        DEF Spec, ImplementsLifecycle, Lifecycle!Spec
=============================================================================
