------------------------------ MODULE MCRouting ------------------------------
(***************************************************************************)
(* Values for the constants of Routing.                                    *)
(***************************************************************************)
EXTENDS Routing

CONSTANTS n1, n2, n3, a1, a2, a3, m, b, v, c1, c2, g1, g2, g3

\* Every node listens at its own address and knows it; --self is set.
OwnAddress == [a \in Addrs |-> CASE a = a1 -> n1 [] a = a2 -> n2 [] OTHER -> n3]
KnowsSelf  == [n \in Nodes |-> CASE n = n1 -> a1 [] n = n2 -> a2 [] OTHER -> a3]

\* An adapter without and with a session header, which is then the hash key; and a
\* base model without one, which is not routed.
Plain    == {[model |-> m, header |-> None]}
Sessions == {[model |-> m, header |-> v], [model |-> b, header |-> None]}

\* One vnode per peer, in the order of the addresses; m lands on a2, v on a3.
OneVnode == [a \in Addrs |-> <<CASE a = a1 -> 1 [] a = a2 -> 3 [] OTHER -> 5>>]
KeyTable == [k \in {<<m>>, <<b>>, <<v>>, <<None>>, <<v, m>>, <<v, b>>} |->
               CASE k = <<v>> -> 4 [] OTHER -> 2]

\* What discovery reports: all peers, or first not the third and later not the first.
AllPeers == {Addrs}
Rolling  == {Addrs, {a1, a2}, {a2, a3}}
==============================================================================
