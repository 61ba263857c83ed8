----------------------------- MODULE MCDiscovery -----------------------------
(***************************************************************************)
(* Values for the constants of Discovery.                                  *)
(***************************************************************************)
EXTENDS Discovery

\* Two nodes, each of which is its own address.
OwnAddress == [n \in Nodes |-> n]

\* The first node's clock is ahead by one tick.
FirstAhead == [n \in Nodes |-> IF n = 1 THEN 1 ELSE 0]

AllModes == {"static", "file", "k8s"}
=============================================================================
