---------------------------- MODULE MCInterfaces ----------------------------
(* Small instances of InterfacesRefinement for TLC. *)
EXTENDS InterfacesRefinement

Loopback == [name |-> 3, mac |-> <<0, 0>>, flags |-> {"up", "loopback", "multicast"},
             addrs |-> <<"127.0.0.1/8">>]
Ethernet == [name |-> 2, mac |-> <<0, 7>>, flags |-> {"up", "multicast"},
             addrs |-> <<"10.0.0.1/24", "teredo", "fe80::1/64">>]
Renumbered == [Ethernet EXCEPT !.addrs = <<"192.0.2.1/24">>]
Tunnel == [name |-> 1, mac |-> <<>>, flags |-> {"pointToPoint"}, addrs |-> <<>>]

MCIndexes == {1, 2, 9}
MCLinks == {Loopback, Ethernet, Renumbered, Tunnel}
MCCIDRs == {"127.0.0.1/8", "10.0.0.1/24", "fe80::1/64", "192.0.2.1/24"}

MCInitLinks == {[n \in MCIndexes |-> CASE n = 1 -> Loopback [] n = 2 -> Ethernet [] n = 9 -> Tunnel],
                [n \in MCIndexes |-> IF n = 2 THEN Tunnel ELSE NoLink]}
=============================================================================
