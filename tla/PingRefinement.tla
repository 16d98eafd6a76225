--------------------------- MODULE PingRefinement ---------------------------
(***************************************************************************)
(* PingRun implements PingContract: the rows are the statuses of           *)
(* result.Packets, and the caller learns of the run when RunWith returns.  *)
(***************************************************************************)
EXTENDS PingRun

\* Options.normalise turns a count of zero into the default.
Wanted == IF count = 0 THEN DefaultCount ELSE count

Rows == [i \in DOMAIN packets |-> packets[i].status]

Phase == CASE outcome = "none" -> "running"
           [] outcome = "report" -> "reported"
           [] OTHER -> "failed"

Reason == IF outcome = "report" THEN "none" ELSE outcome

Contract == INSTANCE PingContract
    WITH wanted <- Wanted, ctx <- ctxErr, sent <- sent, rows <- Rows,
         phase <- Phase, reason <- Reason

\* Every step of RunWith is a step of PingContract or none at all: requests and
\* rows alternate, rows reach the caller only when complete, a context is blamed
\* only when it ended, and no request follows its end.
ImplementsContract == Contract!Safety

\* Every run ends, with a report or with an error, however the resolver, the
\* network and the user behave.
EndsAsPromised == Contract!Ends
=============================================================================
