-------------------------- MODULE AccountsInvariant --------------------------
(***************************************************************************)
(* The inductive invariants behind the theorems of AccountsProofs.  What a *)
(* client may rely on at each step of its request is stated for one client *)
(* at a time, from its own variables and from facts about the tables that  *)
(* only ever become true: an operation row never changes, a user never     *)
(* disappears, and with the routed types a verified one stays verified.    *)
(***************************************************************************)
EXTENDS Accounts

\* Where a request of each flow can be.
FlowPCs(flow) ==
  CASE flow = "signIn" -> {"lookup", "openSession"}
    [] flow = "signUp" -> {"lookup", "begin", "insertUser", "closeFind",
                           "closeRemove", "insertOp", "commit", "notify"}
    [] flow = "create" -> {"lookup", "checkEmail", "begin", "closeFind",
                           "closeRemove", "insertOp", "commit", "notify"}
    [] OTHER -> {"begin", "findOp", "closeFind", "closeRemove", "checkEmail",
                 "updateRead", "saveLoad", "saveWrite", "dropSessions", "commit"}

Registering == {"closeFind", "closeRemove", "insertOp", "commit"}
Reading == {"closeFind", "closeRemove", "checkEmail", "updateRead"}
Saving == {"saveLoad", "saveWrite"}

\* t is an operation row of client c's user and type.
Own(c, t) == /\ t \in Uuids /\ meta[t] # None
             /\ meta[t].user = loc[c].user /\ meta[t].type = req[c].type

\* The client's user is a committed one.
Known(c) == loc[c].user \in Users /\ users[loc[c].user] # None

\* The client applies a stored operation of a committed user.
Applying(c) == Known(c) /\ loc[c].op = req[c].token /\ Own(c, loc[c].op)

\* The client has inserted a user that is not committed yet.
Inserted(c) == /\ tx[c].upd = Columns
               /\ loc[c].user \in Users /\ loc[c].entity \in UserRow

IdleInv(c) ==
  pc[c] = "idle" => req[c] = None /\ loc[c] = NoLocals /\ tx[c] = NoWrites

FlowInv(c) == pc[c] # "idle" => req[c] \in Requests /\ pc[c] \in FlowPCs(req[c].flow)

\* Before its transaction a request has written nothing; only the creates have
\* found a user by then.
CleanInv(c) ==
  /\ pc[c] \in {"lookup", "begin", "insertUser", "findOp", "openSession", "notify"}
       => tx[c] = NoWrites
  /\ \/ pc[c] \in {"lookup", "insertUser", "findOp"}
     \/ pc[c] = "begin" /\ req[c].flow # "create"
     => loc[c] = NoLocals

SignInInv(c) == pc[c] = "openSession" => Known(c)

SignUpInv(c) ==
  pc[c] # "idle" /\ req[c].flow = "signUp" =>
    /\ pc[c] \in Registering => Inserted(c)
    /\ pc[c] = "notify" => Known(c)

CreateInv(c) ==
  pc[c] # "idle" /\ req[c].flow = "create" =>
    /\ tx[c].upd = {}
    /\ pc[c] # "lookup" => Known(c)
    /\ pc[c] = "checkEmail" => tx[c] = NoWrites

ApplyInv(c) ==
  pc[c] # "idle" /\ req[c].flow = "apply" =>
    /\ pc[c] \in Reading \cup Saving =>
         Applying(c) /\ tx[c].upd = {}
    /\ pc[c] = "dropSessions" => Applying(c)
    /\ pc[c] = "commit" => Applying(c) \/ (tx[c] = NoWrites /\ loc[c] = NoLocals)
    /\ pc[c] \in Saving \/ tx[c].upd # {} => loc[c].entity \in Entity
    /\ pc[c] = "saveWrite" /\ "password" \in loc[c].dirty
         => loc[c].entity.password \in Passwords
    /\ "password" \in tx[c].upd => loc[c].entity.password \in Passwords

\* What a transaction removes and inserts is of its own user and type.
WritesInv(c) ==
  /\ \A t \in tx[c].del : Own(c, t)
  /\ \A t \in tx[c].ins : Own(c, t)
  /\ pc[c] # "commit" => tx[c].ins = {}
  /\ pc[c] = "closeRemove" => Own(c, loc[c].victim)
  /\ pc[c] = "commit" /\ req[c].flow # "apply" => tx[c].ins = {loc[c].op}
  /\ pc[c] = "notify" => Own(c, loc[c].op)

ClientInv(c) ==
  /\ IdleInv(c) /\ FlowInv(c) /\ CleanInv(c) /\ SignInInv(c)
  /\ SignUpInv(c) /\ CreateInv(c) /\ ApplyInv(c) /\ WritesInv(c)

\* Stored operations are complete and belong to committed users; the data column
\* is what its type needs.
OpsInv ==
  /\ \A t \in ops : meta[t] # None /\ users[meta[t].user] # None
  /\ \A t \in mails : meta[t] # None /\ users[meta[t].user] # None
  /\ \A t \in Uuids : meta[t] # None => meta[t].data \in DataOf(meta[t].type)

\* Inductive for any set of types.
ShapeInv == TypeOK /\ OpsInv /\ \A c \in Clients : ClientInv(c)

\* A user this client has inserted is nobody else's and not in the table.
FreshInv ==
  \A c \in Clients : pc[c] \in Registering /\ req[c].flow = "signUp" =>
    /\ users[loc[c].user] = None
    /\ \A d \in Clients \ {c} : pc[d] \in Registering /\ req[d].flow = "signUp"
         => loc[d].user # loc[c].user

\* The token an open transaction inserts is stored, mailed or written nowhere else,
\* so a token that was mailed and has left ops never comes back.
TokensInv ==
  \A c \in Clients : \A t \in tx[c].ins :
    /\ t \notin ops \cup mails
    /\ \A d \in Clients \ {c} : t \notin tx[d].ins /\ (pc[d] = "notify" => loc[d].op # t)

\* Two open transactions write different rows of users.
RowLockInv ==
  \A c, d \in Clients : tx[c].upd # {} /\ tx[d].upd # {} /\ c # d
    => loc[c].user # loc[d].user

\* The address an open transaction writes is no other account's, committed or not.
AddressLockInv ==
  \A c \in Clients : "email" \in tx[c].upd =>
    /\ Found(loc[c].entity.email) \subseteq {loc[c].user}
    /\ \A d \in Clients \ {c} : "email" \in tx[d].upd
         => loc[d].entity.email # loc[c].entity.email

\* Where an apply has _close behind it.
Closed == {"checkEmail", "updateRead", "saveLoad", "saveWrite", "dropSessions", "commit"}

\* An apply holds a mailed token.  Once _close is behind it, the token is gone or is
\* removed by this transaction, or _close met another operation of its user and type.
\* Only pr and pc assign a password.
ApplyWrites(c) ==
  pc[c] # "idle" /\ req[c].flow = "apply" =>
    /\ req[c].token \in mails
    /\ tx[c].ins = {}
    /\ loc[c].victim # None => Own(c, loc[c].victim)
    /\ pc[c] \in Closed /\ loc[c].op \in ops \ tx[c].del
         => loc[c].victim \notin {None, loc[c].op}
    /\ \/ pc[c] \in Saving /\ loc[c].entity.password # None
       \/ "password" \in loc[c].dirty \cup tx[c].upd
       => req[c].type \in {"pr", "pc"}

\* What overlapping transactions may write: inductive for any set of types.
WritersInv ==
  /\ ShapeInv /\ FreshInv /\ UniqueEmails
  /\ TokensInv /\ RowLockInv /\ AddressLockInv
  /\ \A c \in Clients : ApplyWrites(c)

\* Between taking a connection and giving it back.
HoldsConnection(c) ==
  \/ pc[c] \in {"insertUser", "findOp", "closeFind", "closeRemove", "insertOp",
               "updateRead", "saveLoad", "saveWrite", "dropSessions", "commit"}
  \/ pc[c] = "checkEmail" /\ req[c].flow = "apply"
  \/ pc[c] = "notify" /\ req[c].flow = "signUp"

\* The pool never gives out more connections than it has, and each belongs to a request
\* between a startTransaction that succeeded and its release (one that rejects is outside
\* the try, and taken to leave no connection); _close is the first to lock an operation.
PoolInv ==
  /\ IsFiniteSet(conn) /\ Cardinality(conn) <= PoolSize
  /\ \A c \in Clients : c \in conn <=> HoldsConnection(c)
  /\ \A c \in Clients : pc[c] \in {"closeFind", "closeRemove"} => tx[c].del = {}

-----------------------------------------------------------------------------
(* One request at a time. *)

Sequential == \A c, d \in Clients : c = d

\* _close is behind the client, or it has found nothing to close.
Removed(c) ==
  \/ pc[c] = "insertOp"
  \/ pc[c] \in Closed /\ (pc[c] = "checkEmail" => req[c].flow = "apply")

\* What is stored for a client's user and type when _close has found the row to
\* remove, and when it has removed it.
ClosingInv(c) ==
  LET open == OpenOps(loc[c].user, req[c].type) IN
  /\ pc[c] = "closeRemove" => open \subseteq {loc[c].victim}
  /\ Removed(c) => open \subseteq tx[c].del

AtMostOneOpen ==
  \A u \in Users, type \in AllTypes : \A s, t \in OpenOps(u, type) : s = t

\* Inductive when requests do not overlap, for any set of types.
SequentialInv ==
  /\ WritersInv /\ AtMostOneOpen
  /\ \A c \in Clients : ClosingInv(c)

-----------------------------------------------------------------------------
(* With the routed types only. *)

\* The client's user is verified.
Verified(c) == Known(c) /\ users[loc[c].user].verified

\* A recovery is for a verified user from its lookup on; an apply never writes an
\* entity that was read unverified; a finished sign-up confirmation verifies.
VerifiedInv(c) ==
  /\ pc[c] = "openSession" => Verified(c)
  /\ pc[c] # "idle" /\ req[c].type = "pr" /\ pc[c] # "lookup" /\ loc[c].user # None
       => Verified(c)
  /\ pc[c] # "idle" /\ req[c].flow = "apply" =>
       /\ pc[c] \in Saving \/ tx[c].upd # {} => loc[c].entity.verified
       /\ pc[c] = "saveWrite" /\ req[c].type = "su"
            => Verified(c) \/ "verified" \in loc[c].dirty
       /\ pc[c] = "commit" /\ loc[c].op # None /\ req[c].type = "su"
            => Verified(c) \/ "verified" \in tx[c].upd
       /\ pc[c] = "dropSessions" => req[c].type = "pr"
       /\ \/ pc[c] \in Saving /\ loc[c].entity.password # None
          \/ "password" \in loc[c].dirty \cup tx[c].upd
          => req[c].type = "pr"
       /\ req[c].token \in mails

\* A stored or mailed recovery belongs to a verified user.
RecoveryInv ==
  \A t \in ops \cup mails : meta[t].type = "pr" => users[meta[t].user].verified

RoutedInv ==
  /\ ShapeInv /\ FreshInv /\ RecoveryInv
  /\ \A c \in Clients : VerifiedInv(c)
  /\ NoStrandedUser /\ SessionsAreVerified

\* A registration that is not committed yet.
Open(c) == pc[c] \in Registering /\ req[c].flow = "signUp"

\* The address an open registration will commit is lower-case and nobody else's,
\* committed or not.
RegisteredAddress(c) ==
  Open(c) =>
    /\ ~loc[c].entity.verified
    /\ Lower[loc[c].entity.email] = loc[c].entity.email
    /\ Found(loc[c].entity.email) = {}
    /\ \A d \in Clients \ {c} : Open(d) => loc[d].entity.email # loc[c].entity.email

\* With the routed types an apply never moves an account to another address.
AppliedAddress(c) ==
  pc[c] # "idle" /\ req[c].flow = "apply" =>
    /\ pc[c] \in Saving => loc[c].entity.email = users[loc[c].user].email
    /\ pc[c] = "saveWrite" => "email" \notin loc[c].dirty
    /\ "email" \notin tx[c].upd

\* The addresses of accounts, committed and about to be: what makes two sign-ups
\* that both found an address free end in one account.
AddressInv ==
  /\ UniqueEmails /\ LowerCaseEmails
  /\ \A c \in Clients : RegisteredAddress(c) /\ AppliedAddress(c)
=============================================================================
