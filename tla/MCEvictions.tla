----------------------------- MODULE MCEvictions -----------------------------
(***************************************************************************)
(* Values for the constants of Evictions.                                  *)
(***************************************************************************)
EXTENDS Evictions

CONSTANTS n1, n2, n3

\* What discovery reports: all nodes, or not the third.
Rolling == {Nodes, Nodes \ {n3}}
=============================================================================
