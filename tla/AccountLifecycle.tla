-------------------------- MODULE AccountLifecycle --------------------------
(***************************************************************************)
(* What the auth service promises of an account, without requests, tables, *)
(* transactions or a pool: each action is one event an owner could tell.   *)
(* Accounts implements it (Accounts!ImplementsLifecycle): whatever         *)
(* requests overlap, fail or are rolled back, what happens to the          *)
(* accounts, the mailed tokens and the sessions is a sequence of these.    *)
(***************************************************************************)
CONSTANTS Users, Emails, Lower, Passwords, Uuids, None

VARIABLES
  accounts,  \* per user: its address, password, and whether it is verified
  mailed,    \* per token: the account it was mailed for, and what for
  sessions   \* pairs of a user and a session id

lifecycleVars == <<accounts, mailed, sessions>>

Exists(u) == accounts[u] # None
TokenFor(u, type) == [user |-> u, type |-> type]

Init ==
  /\ accounts = [u \in Users |-> None]
  /\ mailed = [t \in Uuids |-> None]
  /\ sessions = {}

\* Anyone registers a lower-case address no account has, unverified.
Register(u, e, p) ==
  /\ ~Exists(u)
  /\ Lower[e] = e
  /\ \A v \in Users : Exists(v) => accounts[v].email # e
  /\ accounts' = [accounts EXCEPT
                    ![u] = [email |-> e, password |-> p, verified |-> FALSE]]
  /\ UNCHANGED <<mailed, sessions>>

\* A token goes out to the address of an account; to recover, of a verified one.
Mail(t, u, type) ==
  /\ Exists(u)
  /\ type = "pr" => accounts[u].verified
  /\ mailed[t] \in {None, TokenFor(u, type)}
  /\ mailed' = [mailed EXCEPT ![t] = TokenFor(u, type)]
  /\ UNCHANGED <<accounts, sessions>>

\* The owner confirms the address; nothing else of the account changes.
Confirm(t, u) ==
  /\ Exists(u)
  /\ mailed[t] = TokenFor(u, "su")
  /\ accounts' = [accounts EXCEPT ![u].verified = TRUE]
  /\ UNCHANGED <<mailed, sessions>>

\* The owner sets a new password; nothing else of the account changes.
Recover(t, u, p) ==
  /\ Exists(u) /\ accounts[u].verified
  /\ mailed[t] = TokenFor(u, "pr")
  /\ accounts' = [accounts EXCEPT ![u].password = p]
  /\ UNCHANGED <<mailed, sessions>>

\* A session under a new id.  No action ends one: dropAll does not.
SignIn(u, s) ==
  /\ Exists(u) /\ accounts[u].verified
  /\ \A v \in Users : <<v, s>> \notin sessions
  /\ sessions' = sessions \cup {<<u, s>>}
  /\ UNCHANGED <<accounts, mailed>>

Next == \E u \in Users :
  \/ \E e \in Emails, p \in Passwords : Register(u, e, p)
  \/ \E t \in Uuids, type \in {"su", "pr"} : Mail(t, u, type)
  \/ \E t \in Uuids : Confirm(t, u)
  \/ \E t \in Uuids, p \in Passwords : Recover(t, u, p)
  \/ \E s \in Uuids : SignIn(u, s)

Spec == Init /\ [][Next]_lifecycleVars
=============================================================================
