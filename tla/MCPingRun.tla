----------------------------- MODULE MCPingRun -----------------------------
(* Small instances of PingRun for TLC. *)
EXTENDS PingRun

\* No count given, one the flag parser refuses, one packet, three, and a count
\* whose result cannot be allocated.
MCCounts == {0, -1, 1, 3, 9}

NoNoise == {}

\* Messages of the other kinds a raw socket sees, none of them an echo reply.
OtherMessages == {[kind |-> "other", seq |-> 0, origin |-> 0],
                  [kind |-> "short", seq |-> 0, origin |-> 0]}

\* The reply to an echo request of another program.
ForeignReplies == {[kind |-> "reply", seq |-> 1, origin |-> 0]}
=============================================================================
