----------------------------- MODULE MCRendering -----------------------------
(* Small instances of Rendering for TLC. *)
EXTENDS Rendering

Some(S, n) == UNION {[1 .. k -> S] : k \in 0 .. n}

MCWildcards == {0, 1}

Socket(protocol, ip, state, process) ==
    [protocol |-> protocol, lip |-> ip, lport |-> 80, rip |-> 5, rport |-> 9, state |-> state,
     pid |-> 7, process |-> process]

MCPorts == {Socket(TCP, 1, 2, "a"), Socket(TCP, 3, 5, ""), Socket(UDP, 0, 0, "")}

\* One without an address, names or link layer; one with several addresses.
Nic(name, mac, flags, addrs) ==
    [index |-> 1, name |-> name, mac |-> mac, flags |-> flags, addrs |-> addrs, mtu |-> 1500]
MCInterfaces == {Nic("lo", "", {"up", "loopback"}, <<"127.0.0.1/8", "::1/128">>),
                 Nic("eth0", "02:00", {"up"}, <<"10.0.0.1/24", "10.0.0.2/24", "fe80::1/64">>),
                 Nic("tun0", "", {"pointToPoint"}, <<>>)}
Nameless == Nic("", "02:00", {}, <<"10.0.0.1/24", "10.0.0.2/24">>)

MCRecords == {[type |-> TypeA, text |-> 1], [type |-> TypeAAAA, text |-> 2]}

\* The results that Accounting of PingRun allows.
PingResult(statuses) ==
    [packets |-> [i \in DOMAIN statuses |-> [sequence |-> i, status |-> statuses[i]]],
     sent |-> Len(statuses),
     received |-> Cardinality({i \in DOMAIN statuses : statuses[i] = "OK"})]

MCResults ==
    [ports |-> Some(MCPorts, 2),
     connections |-> Some({p \in MCPorts : p.state # StateListen}, 2),
     interfaces |-> Some(MCInterfaces \cup {Nameless}, 3),
     details |-> Some(MCInterfaces \cup {Nameless}, 3),
     dns |-> Some(MCRecords, 3),
     ping |-> {PingResult(s) : s \in Some({"OK", "TIMEOUT", "ERROR"}, 4) \ {<<>>}},
     usage |-> {<<>>}, about |-> {<<>>}]

MCCommands == DOMAIN MCResults
=============================================================================
