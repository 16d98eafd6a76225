--------------------------- MODULE PortRefinement ---------------------------
(***************************************************************************)
(* PortListing implements Listing: the pictures are the tables as the calls *)
(* that succeeded found them, the facts are the names of the processes.     *)
(***************************************************************************)
EXTENDS PortListing

Request == [command |-> command, filter |-> filter]

\* The sockets of the pictures that the caller wants to see, if they have these names.
Wanted(request, rec, name) ==
    /\ Match(request.filter, WithName(rec, name))
    /\ request.command = "connections" => HasRemote(rec) /\ rec.state # StateListen

Seen(pictures) ==
    UNION {{Convert(Kinds[k], pictures[k][i]) :
              i \in {j \in DOMAIN pictures[k] : Representable(Kinds[k], pictures[k][j])}}
           : k \in DOMAIN pictures}

Key(request, p) == IF request.command = "ports" THEN PortKey(p) ELSE ConnectionKey(p)

\* Each process ID has one name, one of those it had since the last picture, or none; and
\* with these names the rows are the sockets wanted, each as often as the pictures have
\* it, and no others, in the order of the command.
Answers(request, pictures, observed, rows) ==
    /\ \E names \in [Pids -> Names \cup {""}] :
         /\ \A p \in Pids : names[p] \in observed[p] \cup {""}
         /\ \A i \in DOMAIN rows : /\ rows[i].process = names[rows[i].pid]
                                   /\ Bare(rows[i]) \in Seen(pictures)
         /\ \A rec \in Seen(pictures) :
              Cardinality({i \in DOMAIN rows : Bare(rows[i]) = rec})
                = IF Wanted(request, rec, names[rec.pid])
                  THEN Cardinality(SightingsIn(pictures, rec)) ELSE 0
    /\ \A i, j \in DOMAIN rows :
         i < j => ~LexLess(Key(request, rows[j]), Key(request, rows[i]))

Outcome == IF outcome \in {"none", "listed"} THEN outcome ELSE "failed"

Promise == INSTANCE Listing
    WITH Sources <- Len(Kinds), Owners <- Pids, Answers <- Answers,
         request <- Request, world <- [k \in 1 .. Len(Kinds) |-> tables[Kinds[k]]],
         facts <- image, pictures <- seen, observed <- held, rows <- shown,
         outcome <- Outcome

\* A listing that is printed is made of one picture of each table and of names that were
\* read after the last of them, and of nothing else; while there is anything left to be
\* read it can only be refused as a whole.
ImplementsListing == Promise!Safety
=============================================================================
