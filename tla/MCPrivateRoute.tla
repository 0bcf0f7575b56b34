--------------------------- MODULE MCPrivateRoute ---------------------------
(* Small instances of PrivateRoute for TLC.                                *)
EXTENDS PrivateRoute

CONSTANTS p1, p2, a1

AllOfOneProvider == [p \in Routes |-> a1]
RankOf == [p \in Routes |-> IF p = p1 THEN 1 ELSE 2]
=============================================================================
