--------------------------- MODULE MCPortListing ---------------------------
(* Small instances of PortRefinement for TLC. *)
EXTENDS PortRefinement

MCPids == {0, 1, 2}

\* A web server that listens (with a stray remote port) and serves a client, a
\* connection that outlived its process, and a row of unknown state.
Listener == [lip |-> 1, lport |-> 80, rip |-> 2, rport |-> 9, state |-> 2, pid |-> 1]
Served   == [lip |-> 1, lport |-> 65536 + 80, rip |-> 2, rport |-> 9, state |-> 5, pid |-> 1]
Closing  == [Served EXCEPT !.state = 8]
Orphan   == [lip |-> 1, lport |-> 80, rip |-> 2, rport |-> 7, state |-> 11, pid |-> 0]
Unknown  == [lip |-> 1, lport |-> 80, rip |-> 2, rport |-> 7, state |-> 0, pid |-> 1]
Datagram == [lip |-> 0, lport |-> 53, rip |-> 0, rport |-> 0, state |-> 0, pid |-> 2]

\* What may appear during the run.
MCRows == [TCP4 |-> {Served}, TCP6 |-> {}, UDP4 |-> {Datagram}, UDP6 |-> {}]

Nothing == [k \in KindSet |-> <<>>]

MCTables == {[Nothing EXCEPT !.TCP4 = <<Unknown, Closing, Served>>, !.UDP4 = <<Datagram>>],
             [Nothing EXCEPT !.TCP4 = <<Listener>>, !.TCP6 = <<Orphan, Served>>]}

\* Two connections of one process that differ in their state alone.
TiedTables == {[Nothing EXCEPT !.TCP4 = <<Closing, Served>>]}

All == NoFilter({"a", "b"})

MCFilters == {All,
              [All EXCEPT !.process = {"a"}, !.protocol = TCP],
              [All EXCEPT !.rport = 9, !.state = 5]}

OnlyAll == {All}
=============================================================================
