--------------------------- MODULE MCConnectionPool ---------------------------
(* ConnectionPool on a small instance, for TLC: as many registrations as     *)
(* there are connections, and a list that asks for two at once.              *)
EXTENDS ConnectionPool

CONSTANTS r1, r2, r3

MCKind == [r \in Requests |-> CASE r \in {r1, r2} -> "register" [] r = r3 -> "list"]
=============================================================================
