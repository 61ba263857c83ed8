---------------------------- MODULE MCRingChanges ----------------------------
(***************************************************************************)
(* Values for the constants of RingChanges.                                *)
(***************************************************************************)
EXTENDS RingChanges

CONSTANTS n1, n2, n3

Hashes == {1, 3, 5, 7, 9, 11}
Pairs  == {s \in [1..2 -> Hashes] : s[1] < s[2]}

\* Three peers with two vnodes each, in every order around the ring up to the
\* names of the peers.
EveryOrder ==
    {t \in [Addrs -> Pairs] :
       /\ UNION {ToSet(t[a]) : a \in Addrs} = Hashes
       /\ t[n1][1] < t[n2][1] /\ t[n2][1] < t[n3][1]}

\* A key on each vnode, between each two, and past the last.
OnAndBetween == 0..12
=============================================================================
