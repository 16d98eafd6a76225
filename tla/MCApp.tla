------------------------------- MODULE MCApp -------------------------------
(***************************************************************************)
(* Command lines of up to four words, those that each parser tells apart.  *)
(***************************************************************************)
EXTENDS App

With(name, value) == [name |-> name, val |-> <<value>>]

MCNumber == [w \in {"-1", "+80", "0", "80", "443", "65536"} |->
    CASE w = "-1" -> -1 [] w = "0" -> 0 [] w \in {"80", "+80"} -> 80 [] w = "443" -> 443
      [] w = "65536" -> 65536]

MCSigned == {"-1", "+80"}

MCDuration == [w \in {"-1s", "0", "5s", "9s"} |->
    CASE w = "-1s" -> -1 [] w = "0" -> 0 [] w = "5s" -> 5 [] w = "9s" -> 9]

MCDashed == {"-x", "-1", "-1s", "-h", "-v", "--tcp", "--udp", "--port", "--pid", "--process",
             "--state", "--remote-port", "--count", "--timeout", "--verbose"}

\* The words of each command's lines.
SocketWords == {Plain(w) : w \in {"--tcp", "--port", "80", "--process"}}
               \cup {With("--port", "443"), With("--udp", "0")}
MoreSocketWords == {Plain(w) : w \in {"--pid", "--state", "--port", "--remote-port", "0",
                                      "65536", "LISTEN", "x", "", "-h"}}
                   \cup {With("--pid", "80"), With("--pid", "+80"), With("--state", "CLOSED"), With("--process", ""),
                         With("--remote-port", "80"), With("x", "80")}
NetworkWords == {Plain(w) : w \in {"--timeout", "--count", "5s", "80", "", "-x"}}
                \cup {With("--timeout", "9s"), With("--timeout", "0"), With("--count", "443"), With("--count", "+80"),
                      With("host", "5s")}
InterfaceWords == {Plain(w) : w \in {"-v", "--verbose", "x", "-h"}} \cup {With("--verbose", "x")}

Lines(name, words, n) == {<<Plain(name)>> \o s : s \in UNION {[1 .. k -> words] : k \in 0 .. n}}

MCCommandLines ==
    {<<>>, <<Plain("-h")>>, <<Plain("version"), Plain("x")>>, <<Plain("-v"), Plain("-h")>>,
     <<Plain("scan")>>, <<With("ports", "80")>>, <<Plain("about"), Plain("x")>>}
    \cup Lines("ports", SocketWords, 3) \cup Lines("connections", MoreSocketWords, 2)
    \cup Lines("dns", NetworkWords, 3) \cup Lines("ping", NetworkWords, 2)
    \cup Lines("interfaces", InterfaceWords, 2)

\* Lines whose end shows the exit code.
WrongLines == {<<Plain("dns")>>, <<Plain("scan")>>}
=============================================================================
