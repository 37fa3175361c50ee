----------------------------- MODULE MCAccounts -----------------------------
(* Small instances of Accounts for TLC. *)
EXTENDS AccountsInvariant, TLC

CONSTANTS c1, c2, c3, u1, u2, lo, UP, x, p1, p2, t1, t2, t3, t4

\* One address in two spellings, the others in one.
MCLower == [e \in Emails |-> IF e = UP THEN lo ELSE e]

MCSymmetry == Permutations(Clients) \cup Permutations(Uuids)
                \cup Permutations(Users) \cup Permutations(Passwords)
=============================================================================
