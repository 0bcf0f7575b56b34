----------------------------- MODULE MCProvider -----------------------------
(* A small instance of Provider for TLC: a reference of each kind.         *)
EXTENDS Provider

CONSTANTS b1, p1

OneBinding == {b1}
OneRoute   == {p1}
=============================================================================
