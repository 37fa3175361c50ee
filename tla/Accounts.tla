------------------------------ MODULE Accounts ------------------------------
(***************************************************************************)
(* Accounts and their one-time operations: the users and users_operations  *)
(* tables, the operation processors (sign_up, password_recovery,           *)
(* password_change, email_change), and the auth service requests that      *)
(* drive them.                                                             *)
(*                                                                         *)
(* A client is one HTTP request at a time.  Each await of a handler is a   *)
(* step of its own, so requests interleave wherever the Node event loop    *)
(* lets them.  PostgreSQL runs at READ COMMITTED: a transaction's writes   *)
(* are kept in tx[c] until Commit; a read the code issues without its      *)
(* query runner goes to another pooled connection and sees committed rows  *)
(* only.  A row written by an open transaction is locked until it ends.    *)
(***************************************************************************)
EXTENDS Naturals, FiniteSets

CONSTANTS
  Clients,      \* concurrent requests
  Users,        \* primary keys of table users
  Emails,       \* spellings of e-mail addresses
  Lower,        \* toLowerCase on Emails
  Passwords,
  Uuids,        \* what Utils.getUUID returns: operation tokens, session ids
  Types,        \* the operation types in use; the routes use su and pr
  PoolSize,     \* connections of the pg pool
  MaxRequests,  \* bound: requests that arrive in a behaviour
  None          \* null / undefined

AllTypes == {"su", "pr", "pc", "ec"}
RoutedTypes == {"su", "pr"}

ASSUME TypesAssumption == RoutedTypes \subseteq Types /\ Types \subseteq AllTypes
ASSUME LowerAssumption ==
  /\ Lower \in [Emails -> Emails]
  /\ \A e \in Emails : Lower[Lower[e]] = Lower[e]
ASSUME NoneAssumption ==
  None \notin Clients \cup Users \cup Emails \cup Passwords \cup Uuids
ASSUME StarAssumption == "*" \notin Uuids
ASSUME BoundsAssumption == PoolSize \in Nat \ {0} /\ MaxRequests \in Nat

VARIABLES
  users,    \* committed rows of users
  ops,      \* committed rows of users_operations, by token
  meta,     \* the immutable columns of each operation row ever inserted
  expired,  \* tokens whose ttl has passed
  mails,    \* tokens handed to the account's owner
  cache,    \* session keys in Redis
  left,     \* requests still to arrive
  pc, req,  \* per client: next step, and the request's payload
  loc,      \* per client: the handler's local variables
  conn,     \* clients whose query runner holds a pooled connection
  tx        \* per client: uncommitted writes of its transaction

vars == <<users, ops, meta, expired, mails, cache, left, pc, req, loc, conn, tx>>

Columns == {"email", "password", "verified"}
UserRow == [email : Emails, password : Passwords, verified : BOOLEAN]
Datum == Emails \cup Passwords \cup {None}
OpRow == [user : Users, type : AllTypes, data : Datum]

NoLocals == [user |-> None, victim |-> None, op |-> None, entity |-> None,
             dirty |-> {}]
NoWrites == [del |-> {}, ins |-> {}, upd |-> {}]

Init ==
  /\ users = [u \in Users |-> None]
  /\ ops = {}
  /\ meta = [t \in Uuids |-> None]
  /\ expired = {}
  /\ mails = {}
  /\ cache = {}
  /\ left = MaxRequests
  /\ pc = [c \in Clients |-> "idle"]
  /\ req = [c \in Clients |-> None]
  /\ loc = [c \in Clients |-> NoLocals]
  /\ conn = {}
  /\ tx = [c \in Clients |-> NoWrites]

-----------------------------------------------------------------------------
(* Requests *)

Request(flow, type, email, password, token, data) ==
  [flow |-> flow, type |-> type, email |-> email, password |-> password,
   token |-> token, data |-> data]

\* The data a create carries: the new password, the new address, or null.
DataOf(type) == CASE type = "pc" -> Passwords
                  [] type = "ec" -> Emails
                  [] OTHER -> {None}

SignUps == {Request("signUp", "su", e, p, None, None) :
              e \in Emails, p \in Passwords}
SignIns == {Request("signIn", "su", e, p, None, None) :
              e \in Emails, p \in Passwords}
Creates == UNION {{Request("create", type, e, None, None, d) :
                     e \in Emails, d \in DataOf(type)} : type \in Types}
\* Only pr takes the new password at confirmation.
NewPassword(type) == IF type = "pr" THEN Passwords ELSE {None}
Applies == UNION {{Request("apply", type, None, p, t, None) :
                     p \in NewPassword(type), t \in Uuids} : type \in Types}

Requests == SignUps \cup SignIns \cup Creates \cup Applies

ASSUME NoneIsNoRow == None \notin UserRow \cup OpRow \cup Requests

\* authData and signUpResend lower-case the address they search for, the other
\* creates search for it as it was typed.
Lookup(r) == IF r.flow = "create" /\ r.type # "su" THEN r.email ELSE Lower[r.email]

\* The committed users with that address: the unique index allows one.
Found(e) == {u \in Users : users[u] # None /\ users[u].email = e}

\* Mutant: the guard on email_verified is missing.
MayCreate_NoGuard(type, row) == TRUE
\* The guards at the head of the four create handlers.
MayCreate(type, row) ==
  CASE type = "su" -> ~row.verified
    [] type = "pr" -> row.verified
    [] OTHER -> TRUE

\* Mutant: sign-in does not look at email_verified.
MaySignIn_Unverified(r, row) == row.password = r.password
\* signIn: the password of the row just read, and a verified address.
MaySignIn(r, row) == row.password = r.password /\ row.verified

\* Mutant: the assignment sets email_verified whatever the operation.
Assigned_Verified(row, r, operation) ==
  [email    |-> IF r.type = "ec" THEN operation.data ELSE row.email,
   password |-> CASE r.type = "pr" -> r.password
                  [] r.type = "pc" -> operation.data
                  [] OTHER -> None,
   verified |-> r.type = "su"]
\* What Object.assign puts over the user that update() has read; the password
\* column is not selected, so it is set only when it is assigned.
Assigned(row, r, operation) ==
  [email    |-> IF r.type = "ec" THEN operation.data ELSE row.email,
   password |-> CASE r.type = "pr" -> r.password
                  [] r.type = "pc" -> operation.data
                  [] OTHER -> None,
   verified |-> r.type = "su" \/ row.verified]

\* The columns save() finds different from the row it reloads in the transaction.
Dirty(entity, row) ==
     (IF entity.email # row.email THEN {"email"} ELSE {})
  \cup (IF entity.password # None THEN {"password"} ELSE {})
  \cup (IF entity.verified # row.verified THEN {"verified"} ELSE {})

\* Mutant: the UPDATE writes every column of the entity, the unselected one too.
Patch_AllColumns(row, entity, cols) == entity
\* A row after an INSERT (all columns) or an UPDATE of the columns in cols.
Patch(row, entity, cols) ==
  [email    |-> IF "email" \in cols THEN entity.email ELSE row.email,
   password |-> IF "password" \in cols THEN entity.password ELSE row.password,
   verified |-> IF "verified" \in cols THEN entity.verified ELSE row.verified]

\* Mutant: _close forgets the type.
OpenOps_AnyType(u, type) == {t \in ops : meta[t].user = u}
\* The open operations _close can find: an arbitrary one of them is returned.
OpenOps(u, type) == {t \in ops : meta[t].user = u /\ meta[t].type = type}

\* Mutant: the token is looked up without its type.
Usable_AnyType(t, type) == t \in ops /\ t \notin expired
\* What apply() accepts: a row of its own type, not past its ttl.
Usable(t, type) == t \in ops /\ meta[t].type = type /\ t \notin expired

-----------------------------------------------------------------------------
(* The database: pool, locks, unique index *)

PoolFree == Cardinality(conn) < PoolSize

\* Another open transaction has inserted or updated the row of user u.
UserLocked(c, u) == \E d \in Clients \ {c} : tx[d].upd # {} /\ loc[d].user = u

\* Another open transaction has inserted or set that address: the unique index
\* makes the second writer wait for the first.
EmailPending(c, e) == \E d \in Clients \ {c} :
                        "email" \in tx[d].upd /\ loc[d].entity.email = e

\* Mutant: the unique index is missing.
EmailTaken_NoIndex(u, e) == FALSE
\* A committed row of another user has that address.
EmailTaken(u, e) == Found(e) \ {u} # {}

\* The foreign key's share lock against an update of the indexed address.
ReferenceLocked(c, u) == \E d \in Clients \ {c} :
                           "email" \in tx[d].upd /\ loc[d].user = u
Referenced(c, u) == \E d \in Clients \ {c} : tx[d].ins # {} /\ loc[d].user = u

FreshUsers == {u \in Users : users[u] = None /\
                 \A d \in Clients : ~(tx[d].upd # {} /\ loc[d].user = u)}
FreshUuids == {t \in Uuids : meta[t] = None /\ \A u \in Users : <<u, t>> \notin cache}

-----------------------------------------------------------------------------
(* Steps of a request *)

Goto(c, to) == pc' = [pc EXCEPT ![c] = to]

\* The request is answered: its transaction, if one is open, is rolled back (or
\* is already empty) and its connection released.
End(c) ==
  /\ pc' = [pc EXCEPT ![c] = "idle"]
  /\ req' = [req EXCEPT ![c] = None]
  /\ loc' = [loc EXCEPT ![c] = NoLocals]
  /\ conn' = conn \ {c}
  /\ tx' = [tx EXCEPT ![c] = NoWrites]

tables == <<users, ops, meta>>
env == <<expired, left>>
outside == <<mails, cache>>

\* A request arrives; whoever confirms presents a token that was mailed.
Arrive(c) ==
  /\ pc[c] = "idle"
  /\ left > 0
  /\ left' = left - 1
  /\ \E r \in Requests :
       /\ r.flow = "apply" => r.token \in mails
       /\ req' = [req EXCEPT ![c] = r]
       /\ Goto(c, IF r.flow = "apply" THEN "begin" ELSE "lookup")
  /\ UNCHANGED <<tables, outside, expired, loc, conn, tx>>

\* findOne by address: on the pool, before any transaction.
LookupUser(c) ==
  /\ pc[c] = "lookup"
  /\ PoolFree
  /\ LET r == req[c]
         found == Found(Lookup(r))
     IN \/ /\ r.flow = "signUp" /\ found = {}
           /\ Goto(c, "begin")
           /\ UNCHANGED <<req, loc, conn, tx>>
        \/ \E u \in found :
             /\ \/ /\ r.flow = "create" /\ MayCreate(r.type, users[u])
                   /\ Goto(c, IF r.type = "ec" THEN "checkEmail" ELSE "begin")
                \/ /\ r.flow = "signIn" /\ MaySignIn(r, users[u])
                   /\ Goto(c, "openSession")
             /\ loc' = [loc EXCEPT ![c].user = u]
             /\ UNCHANGED <<req, conn, tx>>
        \/ /\ \/ r.flow = "signUp" /\ found # {}
              \/ r.flow = "create" /\ \A u \in found : ~MayCreate(r.type, users[u])
              \/ r.flow = "signIn" /\ \A u \in found : ~MaySignIn(r, users[u])
           /\ End(c)
  /\ UNCHANGED <<tables, outside, env>>

\* startTransaction takes a connection of the pool and keeps it.
Begin(c) ==
  /\ pc[c] = "begin"
  /\ PoolFree
  /\ Goto(c, CASE req[c].flow = "signUp" -> "insertUser"
                 [] req[c].flow = "create" -> "closeFind"
                 [] OTHER -> "findOp")
  /\ conn' = conn \cup {c}
  /\ UNCHANGED <<tables, outside, env, req, loc, tx>>

\* Mutant: the address is stored as it was typed.
StoredEmail_AsTyped(r) == r.email
\* Lower-cased by UsersProcessor.create and again by the entity's insert hook.
StoredEmail(r) == Lower[Lower[r.email]]

InsertUser(c) ==
  LET e == StoredEmail(req[c]) IN
  /\ pc[c] = "insertUser"
  /\ ~EmailPending(c, e)
  /\ \/ EmailTaken(None, e) /\ End(c)
     \/ /\ ~EmailTaken(None, e)
        /\ \E u \in FreshUsers :
             loc' = [loc EXCEPT ![c] =
                       [@ EXCEPT !.user = u,
                                 !.entity = [email |-> e, password |-> req[c].password,
                                             verified |-> FALSE]]]
        /\ tx' = [tx EXCEPT ![c].upd = Columns]
        /\ Goto(c, "closeFind")
        /\ UNCHANGED <<req, conn>>
  /\ UNCHANGED <<tables, outside, env>>

\* The presented token is looked up on the pool; nothing usable: an empty commit.
FindOp(c) ==
  LET t == req[c].token IN
  /\ pc[c] = "findOp"
  /\ PoolFree
  /\ \/ /\ Usable(t, req[c].type)
        /\ loc' = [loc EXCEPT ![c] = [@ EXCEPT !.op = t, !.user = meta[t].user]]
        /\ Goto(c, "closeFind")
     \/ /\ ~Usable(t, req[c].type)
        /\ Goto(c, "commit")
        /\ UNCHANGED loc
  /\ UNCHANGED <<tables, outside, env, req, conn, tx>>

AfterClose(c) == IF req[c].flow # "apply" THEN "insertOp"
                 ELSE IF req[c].type = "ec" THEN "checkEmail" ELSE "updateRead"

\* _close: the row to remove is found on the pool ...
CloseFind(c) ==
  LET open == OpenOps(loc[c].user, req[c].type) IN
  /\ pc[c] = "closeFind"
  /\ PoolFree
  /\ \/ /\ open = {}
        /\ Goto(c, AfterClose(c))
        /\ UNCHANGED loc
     \/ /\ \E t \in open : loc' = [loc EXCEPT ![c].victim = t]
        /\ Goto(c, "closeRemove")
  /\ UNCHANGED <<tables, outside, env, req, conn, tx>>

\* Mutant: the removal is not given the query runner, so it is committed at once.
CloseRemove_OutsideTx(c) ==
  /\ pc[c] = "closeRemove"
  /\ ops' = ops \ {loc[c].victim}
  /\ Goto(c, AfterClose(c))
  /\ UNCHANGED <<users, meta, outside, env, req, loc, conn, tx>>
\* Mutant: the operation found is not removed.
CloseRemove_Forgotten(c) ==
  /\ pc[c] = "closeRemove"
  /\ Goto(c, AfterClose(c))
  /\ UNCHANGED <<tables, outside, env, req, loc, conn, tx>>
\* ... and removed in the transaction, after any other transaction that removes
\* it has ended; if that one committed there is nothing left to delete.
CloseRemove(c) ==
  /\ pc[c] = "closeRemove"
  /\ \A d \in Clients \ {c} : loc[c].victim \notin tx[d].del
  /\ tx' = [tx EXCEPT ![c].del = {loc[c].victim} \cap ops]
  /\ Goto(c, AfterClose(c))
  /\ UNCHANGED <<tables, outside, env, req, loc, conn>>

InsertOp(c) ==
  /\ pc[c] = "insertOp"
  /\ ~ReferenceLocked(c, loc[c].user)
  /\ \E t \in FreshUuids :
       /\ meta' = [meta EXCEPT ![t] = [user |-> loc[c].user, type |-> req[c].type,
                                       data |-> req[c].data]]
       /\ tx' = [tx EXCEPT ![c].ins = {t}]
       /\ loc' = [loc EXCEPT ![c].op = t]
  /\ Goto(c, "commit")
  /\ UNCHANGED <<users, ops, outside, env, req, conn>>

\* _checkoutEmail: the new address must be free, on the pool.
CheckEmail(c) ==
  LET e == IF req[c].flow = "create" THEN req[c].data ELSE meta[loc[c].op].data IN
  /\ pc[c] = "checkEmail"
  /\ PoolFree
  /\ \/ Found(e) # {} /\ End(c)
     \/ /\ Found(e) = {}
        /\ Goto(c, IF req[c].flow = "create" THEN "begin" ELSE "updateRead")
        /\ UNCHANGED <<req, loc, conn, tx>>
  /\ UNCHANGED <<tables, outside, env>>

\* UsersProcessor.update reads the user on the pool and assigns over it.
UpdateRead(c) ==
  /\ pc[c] = "updateRead"
  /\ PoolFree
  /\ loc' = [loc EXCEPT ![c].entity =
               Assigned(users[loc[c].user], req[c], meta[loc[c].op])]
  /\ Goto(c, "saveLoad")
  /\ UNCHANGED <<tables, outside, env, req, conn, tx>>

\* dropAll follows the update in every type but su.
AfterSave(c) == IF req[c].type = "su" THEN "commit" ELSE "dropSessions"

\* save() reloads the row in the transaction and keeps the columns that differ.
SaveLoad(c) ==
  LET dirty == Dirty(loc[c].entity, users[loc[c].user]) IN
  /\ pc[c] = "saveLoad"
  /\ loc' = [loc EXCEPT ![c].dirty = dirty]
  /\ Goto(c, IF dirty = {} THEN AfterSave(c) ELSE "saveWrite")
  /\ UNCHANGED <<tables, outside, env, req, conn, tx>>

SaveWrite(c) ==
  LET l == loc[c]
      moves == "email" \in l.dirty
  IN
  /\ pc[c] = "saveWrite"
  /\ ~UserLocked(c, l.user)
  /\ moves => ~Referenced(c, l.user) /\ ~EmailPending(c, l.entity.email)
  /\ \/ moves /\ EmailTaken(l.user, l.entity.email) /\ End(c)
     \/ /\ ~(moves /\ EmailTaken(l.user, l.entity.email))
        /\ tx' = [tx EXCEPT ![c].upd = l.dirty]
        /\ Goto(c, AfterSave(c))
        /\ UNCHANGED <<req, loc, conn>>
  /\ UNCHANGED <<tables, outside, env>>

\* SessionsProcessor.dropAll deletes one key, the pattern itself.
DropSessions(c) ==
  /\ pc[c] = "dropSessions"
  /\ cache' = cache \ {<<loc[c].user, "*">>}
  /\ Goto(c, "commit")
  /\ UNCHANGED <<tables, mails, env, req, loc, conn, tx>>

\* A create releases its connection with its transaction, a sign-up keeps it until
\* the notification has been handed over.
Released(c) == IF req[c].flow = "signUp" THEN conn ELSE conn \ {c}

\* commitTransaction; an apply is then answered, the others notify.
Commit(c) ==
  /\ pc[c] = "commit"
  /\ users' = IF tx[c].upd = {} THEN users
              ELSE [users EXCEPT ![loc[c].user] = Patch(@, loc[c].entity, tx[c].upd)]
  /\ ops' = (ops \ tx[c].del) \cup tx[c].ins
  /\ \/ req[c].flow = "apply" /\ End(c)
     \/ /\ req[c].flow # "apply"
        /\ Goto(c, "notify")
        /\ tx' = [tx EXCEPT ![c] = NoWrites]
        /\ conn' = Released(c)
        /\ UNCHANGED <<req, loc>>
  /\ UNCHANGED <<meta, outside, env>>

\* The mail carries the token of the operation and goes to the account's owner.
Mailed(c) == mails \cup {loc[c].op}

\* The broadcast swallows its own failures: the mail is sent, or it is lost.
Notify(c) ==
  /\ pc[c] = "notify"
  /\ \/ mails' = Mailed(c)
     \/ UNCHANGED mails
  /\ End(c)
  /\ UNCHANGED <<tables, cache, env>>

OpenSession(c) ==
  /\ pc[c] = "openSession"
  /\ \E s \in FreshUuids : cache' = cache \cup {<<loc[c].user, s>>}
  /\ End(c)
  /\ UNCHANGED <<tables, mails, env>>

Step(c) ==
  \/ LookupUser(c) \/ Begin(c) \/ InsertUser(c) \/ FindOp(c)
  \/ CloseFind(c) \/ CloseRemove(c) \/ InsertOp(c) \/ CheckEmail(c)
  \/ UpdateRead(c) \/ SaveLoad(c) \/ SaveWrite(c) \/ DropSessions(c)
  \/ Commit(c) \/ Notify(c) \/ OpenSession(c)

\* Steps that begin by taking a connection of the pool.
PoolSteps == {"lookup", "begin", "findOp", "closeFind", "checkEmail", "updateRead"}

\* Mutant: a failure leaves the transaction open and its connection taken.
Fail_NoRollback(c) ==
  /\ pc[c] \notin {"idle", "notify"}
  /\ pc[c] \in PoolSteps => PoolFree
  /\ pc' = [pc EXCEPT ![c] = "idle"]
  /\ req' = [req EXCEPT ![c] = None]
  /\ UNCHANGED <<tables, outside, env, loc, conn, tx>>
\* Any statement may fail: the handler rolls back, releases and answers an error.
Fail(c) ==
  /\ pc[c] \notin {"idle", "notify"}
  /\ pc[c] \in PoolSteps => PoolFree
  /\ End(c)
  /\ UNCHANGED <<tables, outside, env>>

\* The ttl of a stored operation passes.
Expire(t) ==
  /\ t \in ops \ expired
  /\ expired' = expired \cup {t}
  /\ UNCHANGED <<tables, outside, left, pc, req, loc, conn, tx>>

Next ==
  \/ \E c \in Clients : Arrive(c) \/ Step(c) \/ Fail(c)
  \/ \E t \in Uuids : Expire(t)

Spec == Init /\ [][Next]_vars
FairSpec == Spec /\ \A c \in Clients : WF_vars(Step(c))

-----------------------------------------------------------------------------
(* Properties *)

PCs == {"idle", "lookup", "begin", "insertUser", "findOp", "closeFind", "closeRemove",
        "insertOp", "checkEmail", "updateRead", "saveLoad", "saveWrite",
        "dropSessions", "commit", "notify", "openSession"}

Entity == [email : Emails, password : Passwords \cup {None}, verified : BOOLEAN]
Locals == [user : Users \cup {None}, victim : Uuids \cup {None},
           op : Uuids \cup {None}, entity : Entity \cup {None},
           dirty : SUBSET Columns]
Writes == [del : SUBSET Uuids, ins : SUBSET Uuids, upd : SUBSET Columns]

\* Every variable stays in its type.
TypeOK ==
  /\ users \in [Users -> UserRow \cup {None}]
  /\ ops \subseteq Uuids /\ expired \subseteq Uuids /\ mails \subseteq Uuids
  /\ meta \in [Uuids -> OpRow \cup {None}]
  /\ cache \subseteq Users \X Uuids
  /\ left \in 0..MaxRequests
  /\ pc \in [Clients -> PCs]
  /\ req \in [Clients -> Requests \cup {None}]
  /\ loc \in [Clients -> Locals]
  /\ conn \subseteq Clients
  /\ tx \in [Clients -> Writes]

\* No account is stranded: a committed user that is not verified always has a
\* committed sign-up operation, usable or expired, whatever requests overlap, fail
\* or are rolled back (processors' create, apply and _close).
NoStrandedUser ==
  \A u \in Users : users[u] # None /\ ~users[u].verified => OpenOps(u, "su") # {}

\* Verification is for good: no request ever takes email_verified back.  It is
\* save() writing whole entities from a read outside the transaction that could
\* (UsersProcessor.update).
VerifiedForGood ==
  [][\A u \in Users : users[u] # None /\ users[u].verified => users'[u].verified]_vars

\* The password an unverified account was registered with is not replaced before
\* the address is confirmed, by whatever interleaving of recovery requests.
UnverifiedKeepsPassword ==
  [][\A u \in Users : users[u] # None /\ ~users[u].verified
       => users'[u].password = users[u].password]_vars

\* Every session in the cache belongs to an account that is verified in the
\* database, although the check and the session are separated by an await.
SessionsAreVerified ==
  \A k \in cache : users[k[1]] # None /\ users[k[1]].verified

\* No mail goes out for an operation of an account that was not committed, and no
\* recovery mail for an account that is not verified (signUp, passwordRecovery).
MailsAreForAccounts ==
  \A t \in mails : LET u == meta[t].user IN
    users[u] # None /\ (meta[t].type = "pr" => users[u].verified)

\* A committed account changes only when an apply commits that was presented a
\* mailed token of that very account; the password changes by pr and pc tokens only
\* (apply's where clause; a stale entity never carries the unselected password).
ChangedByOwnToken ==
  [][\A u \in Users : users[u] # None /\ users'[u] # users[u] =>
       \E c \in Clients :
         LET t == req[c].token IN
         /\ req[c] # None /\ req[c].flow = "apply" /\ t \in mails
         /\ meta[t].user = u
         /\ users'[u].password # users[u].password => meta[t].type \in {"pr", "pc"}]_vars

\* Two committed accounts never share an address, although every handler checks
\* the address before, and outside, the transaction that writes it.
UniqueEmails ==
  \A u, v \in Users :
    users[u] # None /\ users[v] # None /\ users[u].email = users[v].email => u = v

\* Sign-in finds an account by its lower-cased address only: all are stored so.
LowerCaseEmails ==
  \A u \in Users : users[u] # None => Lower[users[u].email] = users[u].email

\* A committed apply leaves the presented token open only when _close, which looks
\* the row to remove up by user and type and not by token, met another operation of
\* the same account and type instead.
SurvivingTokenHadSibling ==
  [][\A c \in Clients :
       LET t == req[c].token
           v == loc[c].victim
       IN pc[c] = "commit" /\ pc'[c] = "idle" /\ users' # users /\ t \in ops'
            => /\ v \notin {None, t}
               /\ meta[v].user = meta[t].user /\ meta[v].type = meta[t].type]_vars

\* Without overlapping requests an account has at most one open operation of a
\* type: each create closes the one before it.
OneOpenOp ==
  \A u \in Users, type \in Types : Cardinality(OpenOps(u, type)) <= 1

\* Without overlapping requests a token works once: the apply that commits with
\* it closes it.
AppliedTokenIsClosed ==
  [][\A c \in Clients :
       pc[c] = "commit" /\ req[c].flow = "apply" /\ pc'[c] = "idle" /\ users' # users
         => loc[c].op \notin ops']_vars

\* dropAll leaves the user no session.
DropAllDropsAll ==
  [][\A c \in Clients : pc[c] = "dropSessions" /\ pc'[c] = "commit"
       => \A k \in cache' : k[1] # loc[c].user]_vars

Waiting == {c \in Clients : pc[c] # "idle"}

\* c's next statement needs a connection of the pool, and none is free.
AwaitsConnection(c) == pc[c] \in PoolSteps /\ ~PoolFree

\* c's next statement needs a row, a reference to it or an address that the open
\* transaction of d has written.
WaitsFor(c, d) ==
  LET same == loc[d].user = loc[c].user
      address(e) == "email" \in tx[d].upd /\ loc[d].entity.email = e
  IN /\ c # d
     /\ \/ pc[c] = "insertUser" /\ address(StoredEmail(req[c]))
        \/ pc[c] = "closeRemove" /\ loc[c].victim \in tx[d].del
        \/ pc[c] = "insertOp" /\ "email" \in tx[d].upd /\ same
        \/ /\ pc[c] = "saveWrite"
           /\ \/ tx[d].upd # {} /\ same
              \/ /\ "email" \in loc[c].dirty
                 /\ (tx[d].ins # {} /\ same) \/ address(loc[c].entity.email)

\* Requests never wait for each other's locks in a circle, nor in a long queue: who is
\* waited for waits for at most one more, who waits for no lock (_close, then the
\* insert or update, then the commit, in every processor).
LockWaitsEnd ==
  \A b, c, d, e \in Clients : ~(WaitsFor(b, c) /\ WaitsFor(c, d) /\ WaitsFor(d, e))

\* Every request under way waits for something another one holds.
Deadlocked ==
  /\ Waiting # {}
  /\ \A c \in Waiting : AwaitsConnection(c) \/ \E d \in Clients : WaitsFor(c, d)

\* No request under way can take a step, for whatever reason.
Halted == Waiting # {} /\ \A c \in Waiting : ~ENABLED Step(c)

\* Unfinished transactions hold every connection, and one of them needs a second one.
PoolExhausted ==
  /\ Cardinality(conn) = PoolSize
  /\ \A c \in conn : pc[c] # "idle"
  /\ \E c \in conn : pc[c] \in PoolSteps

\* Requests can only wait for each other for ever when unfinished transactions hold
\* every connection of the pool and one of them needs a second one for a read: row
\* locks and the unique index never close a cycle by themselves, and no answered
\* request keeps a connection.
StuckOnlyByPool == Deadlocked => PoolExhausted

\* Every request is answered, unless the pool brings all of them to a stop; with more
\* connections than concurrent requests it cannot.
EveryRequestEnds ==
  \A c \in Clients : pc[c] # "idle" ~> pc[c] = "idle" \/ (Halted /\ PoolExhausted)
-----------------------------------------------------------------------------
(* Refinement *)

\* The token a mail carries, as the account's owner sees it.
MailedTokens ==
  [t \in Uuids |-> IF t \in mails
                   THEN [user |-> meta[t].user, type |-> meta[t].type] ELSE None]

Lifecycle == INSTANCE AccountLifecycle
               WITH accounts <- users, mailed <- MailedTokens, sessions <- cache

\* With the routed types, requests that overlap, wait, fail and roll back are seen
\* from outside as one event after another: an address registered once, a mail, a
\* confirmation or a recovery by a mailed token that changes one column, a sign-in.
ImplementsLifecycle == Lifecycle!Spec
=============================================================================
