----------------------------- MODULE MCSessions -----------------------------
(* Model values for TLC: clients and users are interchangeable. *)
EXTENDS Sessions, TLC

MCSymmetry == Permutations(Clients) \cup Permutations(Users)
=============================================================================
