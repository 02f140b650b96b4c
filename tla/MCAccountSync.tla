--------------------------- MODULE MCAccountSync ---------------------------
(* Two accounts with a ticket each, two leverages. *)
EXTENDS AccountSync

CONSTANTS a1, a2

MCTickets == [l \in Logins |-> IF l = a1 THEN {"p1"} ELSE {"p2"}]
=============================================================================
