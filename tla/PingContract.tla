---------------------------- MODULE PingContract ----------------------------
(***************************************************************************)
(* What a run of ping promises its caller, with no word of sockets, replies *)
(* or clocks.  The requests go out one after another and each gets one row *)
(* (OK, TIMEOUT or ERROR) in turn; the caller is given the rows only when  *)
(* there is one for every packet it wanted; otherwise it is given the      *)
(* reason, and a context that ended is given as the reason only by a run   *)
(* whose context did end.  No request follows the end of the context.      *)
(***************************************************************************)
EXTENDS Integers, Sequences

VARIABLES
    wanted,     \* the packets asked for
    ctx,        \* "nil" until the context is "canceled" or past its "deadline"
    sent,       \* the requests begun
    rows,       \* the statuses of the rows so far
    phase,      \* "running", then "reported" or "failed"
    reason      \* why the run failed

vars == <<wanted, ctx, sent, rows, phase, reason>>

Init ==
    /\ wanted \in Int \ {0}
    /\ ctx = "nil"
    /\ sent = 0
    /\ rows = <<>>
    /\ phase = "running"
    /\ reason = "none"

Fail(r) == phase' = "failed" /\ reason' = r /\ UNCHANGED <<wanted, ctx, sent, rows>>

\* The run cannot begin: a useless count, no address, no room for the result.
Refuse ==
    /\ phase = "running" /\ sent = 0
    /\ \/ wanted < 1 /\ Fail("badCount")
       \/ wanted >= 1 /\ \E r \in {"noAddress", "lookupFailed", "panicked"} : Fail(r)

Request ==
    /\ phase = "running" /\ ctx = "nil"
    /\ Len(rows) = sent /\ sent < wanted
    /\ sent' = sent + 1
    /\ UNCHANGED <<wanted, ctx, rows, phase, reason>>

Answer ==
    /\ phase = "running" /\ Len(rows) < sent
    /\ \E status \in {"OK", "TIMEOUT", "ERROR"} : rows' = Append(rows, status)
    /\ UNCHANGED <<wanted, ctx, sent, phase, reason>>

Report ==
    /\ phase = "running" /\ wanted >= 1 /\ Len(rows) = wanted
    /\ phase' = "reported"
    /\ UNCHANGED <<wanted, ctx, sent, rows, reason>>

\* The rows so far are kept from the caller.
Abort ==
    /\ phase = "running"
    /\ \/ ctx = "canceled" /\ Fail("cancelled")
       \/ ctx = "deadline" /\ Fail("timedOut")

EndContext ==
    /\ phase = "running" /\ ctx = "nil"
    /\ ctx' \in {"canceled", "deadline"}
    /\ UNCHANGED <<wanted, sent, rows, phase, reason>>

Next == Refuse \/ Request \/ Answer \/ Report \/ Abort \/ EndContext

Safety == Init /\ [][Next]_vars

\* Every run comes to its end.
Ends == <>(phase # "running")

Spec == Safety /\ Ends
=============================================================================
