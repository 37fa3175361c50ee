----------------------------- MODULE MCGateway -----------------------------
(* Two senders behind a proxy, and a third who comes directly: with the address
   of the first in the header, and without a header.  In three scenarios the
   requests meet the rate limit, of either size; in the fourth a check runs beside
   mails and read-only routes, and one dependency of each kind may fail: one that
   is asked at once, one that answers later. *)
EXTENDS Gateway

CONSTANTS c1, c2, c3, c4, here, there, elsewhere

MCOrigin ==
  [c \in Clients |-> CASE c = c1 -> here [] c = c3 -> there [] OTHER -> elsewhere]
MCHeader ==
  [c \in Clients |-> CASE c \in {c1, c2} -> here [] c = c3 -> there [] OTHER -> None]

Resends ==
  [asks |-> [c \in Clients |-> IF c = c4 THEN {} ELSE {"sign-up/resend"}],
   fails |-> {"redis"}, faults |-> 1]
SignIns ==
  [asks |-> [c \in Clients |-> CASE c = c1 -> {"sign-in"}
                                 [] c = c2 -> {"sign-in", "sign-up/resend"}
                                 [] OTHER -> {}],
   fails |-> {"redis"}, faults |-> 1]
Direct ==
  [asks |-> [c \in Clients |-> IF c \in {c2, c4} THEN {"sign-up/resend"} ELSE {}],
   fails |-> {"redis"}, faults |-> 1]
Checked ==
  [asks |-> [c \in Clients |-> CASE c = c1 -> {"health"}
                                 [] c = c2 -> {"sign-up"}
                                 [] c = c3 -> {"refresh", "sign-up/confirm"}
                                 [] OTHER -> {}],
   fails |-> {"database", "redis"}, faults |-> 1]
MCScenarios == {Resends, SignIns, Direct, Checked}
=============================================================================
